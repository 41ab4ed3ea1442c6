---------------------------- MODULE TokenRecords ----------------------------
(***************************************************************************)
(* Who has which token.  Four tables of the API server say so: the         *)
(* membership of a wallet at a brand, the ownership of a token at a brand, *)
(* the row of a token (by which metadata is served) and the tokenId of the *)
(* legacy ledger.  Four handlers mint and write them, one query at a time: *)
(*                                                                         *)
(*   ensure   ensureBaseNftMinted, for the owner's routes and the webhook  *)
(*   resolve  resolveEvolvingTokenId and resolveTokenWithMint              *)
(*   join     POST /brands/:brandId/join                                   *)
(*   action   runMintAction of the automation worker                       *)
(*                                                                         *)
(* Any of them may end after any query: an exception, or the server stops. *)
(***************************************************************************)
EXTENDS Naturals, FiniteSets, Sequences

CONSTANTS
  Brands, Wallets,
  Shared,      \* whether the brands are configured with one contract
  Requests,    \* the requests and queue items that are handled
  MaxRuns      \* bound: mints submitted

ASSUME RecordsAssumption ==
  /\ IsFiniteSet(Brands)
  /\ IsFiniteSet(Wallets)
  /\ Shared \in BOOLEAN
  /\ MaxRuns \in Nat

\* A wallet at a brand.
Holders   == Brands \X Wallets
Brand(h)  == h[1]
Wallet(h) == h[2]

\* A token's id: a number, that the contract gives or join makes up, or the one
\* of deriveDemoTokenId, 60 bits of a digest of brand and wallet plus one.
NoToken == <<>>
Id(n)   == <<"id", n>>

\* Mutant: the digest leaves the wallet out.
DemoTokenOfBrand(h) == <<"demo", <<Brand(h), CHOOSE w \in Wallets : TRUE>>>>

DemoToken(h) == <<"demo", h>>

VARIABLES
  demo,        \* DEMO_MODE
  membership,  \* brandMembership.tokenId of each holder, or NoToken
  ownership,   \* tokenOwnership: [brand, token, wallet], one of each brand and token
  tokens,      \* token: [token, holder], one of each token
  legacyToken, \* brandUserLedger.tokenId of each holder, or NoToken
  runs,        \* workflowRun rows of type MINT_BASE_NFT: [holder, by, open, token]
  req,         \* each request: [kind, holder, pc, token, run]
  joined,      \* history: the holders that joined by POST /brands/:brandId/join
  overlapped   \* history: the holders for which a mint was submitted while an
               \* ensure was between its look for one and its own

tables      == <<membership, ownership, tokens, legacyToken>>
recordsVars == <<demo, tables, runs, req, joined, overlapped>>

Kinds  == {"ensure", "resolve", "join", "action"}
Unused == [kind |-> "join", holder |-> NoToken, pc |-> "idle", token |-> NoToken, run |-> 0]

RecordsInit ==
  /\ demo \in BOOLEAN
  /\ membership = [h \in Holders |-> NoToken]
  /\ ownership = {}
  /\ tokens = {}
  /\ legacyToken = [h \in Holders |-> NoToken]
  /\ runs = <<>>
  /\ req = [q \in Requests |-> Unused]
  /\ joined = {}
  /\ overlapped = {}
-----------------------------------------------------------------------------
HolderOf(q) == req[q].holder
TokenOf(q)  == req[q].token
At(q, pc)   == req[q].pc = pc
Is(q, ks)   == req[q].kind \in ks

Goto(q, pc)        == req' = [req EXCEPT ![q].pc = pc]
GotoWith(q, pc, t) == req' = [req EXCEPT ![q].pc = pc, ![q].token = t]
End(q)             == req' = [req EXCEPT ![q] = [Unused EXCEPT !.pc = "done"]]
KeepTables          == UNCHANGED tables
KeepMints           == UNCHANGED <<demo, runs, overlapped>>
Local               == KeepTables /\ KeepMints /\ UNCHANGED joined

\* nextTokenId of the contract of a brand, less one.
MintedAt(b) == Cardinality({r \in DOMAIN runs : /\ runs[r].token # NoToken
                                                /\ Shared \/ Brand(runs[r].holder) = b})

OwnedBy(h) == {o.token : o \in {p \in ownership : p.brand = Brand(h) /\ p.wallet = Wallet(h)}}

\* Upserts by brand and token, and by token alone.
OwnershipWith(h, t) ==
  {o \in ownership : ~(o.brand = Brand(h) /\ o.token = t)}
    \cup {[brand |-> Brand(h), token |-> t, wallet |-> Wallet(h)]}
TokensWith(h, t) == {r \in tokens : r.token # t} \cup {[token |-> t, holder |-> h]}

Start(q) ==
  /\ At(q, "idle")
  /\ \E kind \in Kinds, h \in Holders :
       req' = [req EXCEPT ![q] =
                 [Unused EXCEPT !.kind = kind, !.holder = h,
                                !.pc = IF kind = "join" THEN "submit" ELSE "look"]]
  /\ Local
-----------------------------------------------------------------------------
(* What is there already                                                   *)

\* ensureBaseNftMinted looks at the ledger first.
LookLedger(q) ==
  /\ At(q, "look") /\ Is(q, {"ensure"})
  /\ IF legacyToken[HolderOf(q)] # NoToken THEN End(q) ELSE Goto(q, "look rows")
  /\ Local

\* The membership, and in a later query the ownership.
LookMembership(q) ==
  LET known == membership[HolderOf(q)] IN
  /\ \/ At(q, "look") /\ Is(q, {"resolve", "action"})
     \/ At(q, "look rows")
  /\ CASE known = NoToken /\ Is(q, {"ensure"}) -> Goto(q, "look ownership")
       [] known = NoToken /\ ~Is(q, {"ensure"}) -> Goto(q, "submit")
       [] known # NoToken ->
            GotoWith(q, CASE Is(q, {"ensure"})  -> "write membership"
                          [] Is(q, {"action"})  -> "write ownership"
                          [] Is(q, {"resolve"}) -> "write token", known)
  /\ Local

LookOwnership(q) ==
  /\ At(q, "look ownership")
  /\ IF OwnedBy(HolderOf(q)) = {}
       THEN Goto(q, "look pending")
       ELSE \E t \in OwnedBy(HolderOf(q)) : GotoWith(q, "write membership", t)
  /\ Local

Pending(h) == {r \in DOMAIN runs : runs[r].holder = h /\ runs[r].open}

\* Mutant: runs are not looked for.
LookPendingNot(q) ==
  /\ At(q, "look pending")
  /\ Goto(q, IF demo THEN "demo" ELSE "submit")
  /\ Local

\* A mint that is queued or running is left to end; the answer is "submitted".
LookPending(q) ==
  /\ At(q, "look pending")
  /\ IF Pending(HolderOf(q)) # {} THEN End(q)
     ELSE Goto(q, IF demo THEN "demo" ELSE "submit")
  /\ Local
-----------------------------------------------------------------------------
(* Minting                                                                 *)

Deciding(h) == {q \in Requests : Is(q, {"ensure"}) /\ req[q].pc \in {"submit", "demo"}
                                 /\ HolderOf(q) = h}

NewRun(q) ==
  /\ Len(runs) < MaxRuns
  /\ runs' = Append(runs, [holder |-> HolderOf(q), by |-> req[q].kind, open |-> TRUE,
                           token |-> NoToken])
  /\ overlapped' = IF Deciding(HolderOf(q)) \subseteq {q} THEN overlapped
                   ELSE overlapped \cup {HolderOf(q)}

\* Without a contract: a run for show, which nobody will settle.
DemoRun(q) ==
  /\ At(q, "demo")
  /\ NewRun(q)
  /\ GotoWith(q, "write membership", DemoToken(HolderOf(q)))
  /\ KeepTables /\ UNCHANGED <<demo, joined>>

\* submitMintWorkflow.  ensure is done with that, join does not wait either.
SubmitMint(q) ==
  /\ At(q, "submit")
  /\ NewRun(q)
  /\ IF Is(q, {"ensure"}) THEN End(q)
     ELSE req' = [req EXCEPT ![q].run = IF Is(q, {"join"}) THEN 0 ELSE Len(runs) + 1,
                             ![q].pc = IF Is(q, {"join"}) THEN "count" ELSE "wait"]
  /\ KeepTables /\ UNCHANGED <<demo, joined>>

\* The poll gave a hash, and extractTokenIdFromMintReceipt finds the event of
\* the wallet in the receipt.
Receipt(q) ==
  /\ At(q, "wait")
  /\ runs[req[q].run].token # NoToken
  /\ req' = [req EXCEPT ![q].pc = IF Is(q, {"resolve"}) THEN "create membership"
                                                         ELSE "write membership",
                        ![q].token = runs[req[q].run].token, ![q].run = 0]
  /\ Local

\* join numbers the members of the brand.
JoinCount(q) ==
  LET members == {h \in Holders : Brand(h) = Brand(HolderOf(q)) /\ membership[h] # NoToken} IN
  /\ At(q, "count")
  /\ GotoWith(q, "create membership", Id(Cardinality(members) + 1))
  /\ Local
-----------------------------------------------------------------------------
(* The tables                                                              *)

\* A create throws if the holder has a membership by now.
CreateMembership(q) ==
  /\ At(q, "create membership")
  /\ membership[HolderOf(q)] = NoToken
  /\ membership' = [membership EXCEPT ![HolderOf(q)] = TokenOf(q)]
  /\ joined' = IF Is(q, {"join"}) THEN joined \cup {HolderOf(q)} ELSE joined
  /\ Goto(q, "write token")
  /\ UNCHANGED <<ownership, tokens, legacyToken>> /\ KeepMints

\* Mutant: the latest token of the contract is taken for the holder's.
UpsertMembershipLatest(q) ==
  /\ At(q, "write membership")
  /\ membership' = [membership EXCEPT ![HolderOf(q)] =
                      IF demo THEN TokenOf(q) ELSE Id(MintedAt(Brand(HolderOf(q))))]
  /\ Goto(q, "write ownership")
  /\ UNCHANGED <<ownership, tokens, legacyToken, joined>> /\ KeepMints

UpsertMembership(q) ==
  /\ At(q, "write membership")
  /\ membership' = [membership EXCEPT ![HolderOf(q)] = TokenOf(q)]
  /\ Goto(q, "write ownership")
  /\ UNCHANGED <<ownership, tokens, legacyToken, joined>> /\ KeepMints

UpsertOwnership(q) ==
  /\ At(q, "write ownership")
  /\ ownership' = OwnershipWith(HolderOf(q), TokenOf(q))
  /\ Goto(q, "write token")
  /\ UNCHANGED <<membership, tokens, legacyToken, joined>> /\ KeepMints

UpsertToken(q) ==
  /\ At(q, "write token")
  /\ tokens' = TokensWith(HolderOf(q), TokenOf(q))
  /\ IF Is(q, {"ensure"}) THEN Goto(q, "write ledger") ELSE End(q)
  /\ UNCHANGED <<membership, ownership, legacyToken, joined>> /\ KeepMints

UpsertLedger(q) ==
  /\ At(q, "write ledger")
  /\ legacyToken' = [legacyToken EXCEPT ![HolderOf(q)] = TokenOf(q)]
  /\ End(q)
  /\ UNCHANGED <<membership, ownership, tokens, joined>> /\ KeepMints

GiveUp(q) ==
  /\ ~At(q, "idle") /\ ~At(q, "done")
  /\ End(q)
  /\ Local
-----------------------------------------------------------------------------
(* The node and the chain                                                  *)

\* A mint enters a block, whatever its run says by then.
Mine(r) ==
  /\ ~demo
  /\ runs[r].token = NoToken
  /\ runs' = [runs EXCEPT ![r].token = Id(MintedAt(Brand(runs[r].holder)) + 1)]
  /\ KeepTables /\ UNCHANGED <<demo, req, joined, overlapped>>

\* The run is settled as succeeded or failed, by its poll or the poller, which
\* does not run in DEMO_MODE: see WorkflowRuns.
Settle(r) ==
  /\ ~demo
  /\ runs[r].open
  /\ runs' = [runs EXCEPT ![r].open = FALSE]
  /\ KeepTables /\ UNCHANGED <<demo, req, joined, overlapped>>

Handle(q) ==
  \/ Start(q) \/ LookLedger(q) \/ LookMembership(q) \/ LookOwnership(q) \/ LookPending(q)
  \/ DemoRun(q) \/ SubmitMint(q) \/ Receipt(q) \/ JoinCount(q)
  \/ CreateMembership(q) \/ UpsertMembership(q) \/ UpsertOwnership(q) \/ UpsertToken(q)
  \/ UpsertLedger(q) \/ GiveUp(q)

RecordsNext ==
  \/ \E q \in Requests : Handle(q)
  \/ \E r \in DOMAIN runs : Mine(r) \/ Settle(r)

RecordsSpec == RecordsInit /\ [][RecordsNext]_recordsVars
-----------------------------------------------------------------------------
(* Properties                                                              *)

\* The keys of the two tables that are upserted by token.
KeysUnique ==
  /\ \A o, p \in ownership : o.brand = p.brand /\ o.token = p.token => o = p
  /\ \A r, s \in tokens : r.token = s.token => r = s

TokenKnown(t)     == \E r \in tokens : r.token = t
OwnershipKnown(b, t) == \E o \in ownership : o.brand = b /\ o.token = t

\* A token is in the ledger, which answers "minted" without a further look,
\* only after the holder has a membership and metadata can be served for the
\* token, wherever requests for it were cut off.
LedgerLast ==
  \A h \in Holders : legacyToken[h] # NoToken =>
    /\ membership[h] # NoToken
    /\ TokenKnown(legacyToken[h])
    /\ OwnershipKnown(Brand(h), legacyToken[h])

\* The holder that token t of brand b was minted for, or, in DEMO_MODE, derived from.
Genuine(h, t) ==
  IF demo THEN t = DemoToken(h)
  ELSE t # NoToken /\ \E r \in DOMAIN runs : runs[r].holder = h /\ runs[r].token = t

\* GET /me/nfts: the tokens of a holder, as any of the tables has it.
TokensOf(h) == ({membership[h], legacyToken[h]} \ {NoToken}) \cup OwnedBy(h)

\* GET /me/brands names one token of each brand: that of the membership, or else one
\* that is owned, or else that of the ledger.
NamedFor(h) == IF membership[h] # NoToken THEN {membership[h]}
               ELSE IF OwnedBy(h) # {} THEN OwnedBy(h)
               ELSE {legacyToken[h]} \ {NoToken}

\* But for those who joined by the route that makes ids up, whatever a wallet is shown
\* as its own is, and so is what metadata says of a token.
Truthful ==
  /\ \A h \in Holders \ joined : \A t \in TokensOf(h) : Genuine(h, t)
  /\ \A r \in tokens : r.holder \in joined \/ Genuine(r.holder, r.token)

MintsFor(h) == {r \in DOMAIN runs : runs[r].holder = h}

\* If one mint was submitted for a holder, the two routes do not disagree on its token.
RoutesAgree ==
  \A h \in Holders \ joined : Cardinality(MintsFor(h)) <= 1 =>
    /\ TokensOf(h) = NamedFor(h)
    /\ Cardinality(TokensOf(h)) <= 1

\* What the four tables say of a wallet is true, complete and the same, however
\* the handlers that write them one by one overlap or are cut off.
RecordsGenuine == KeysUnique /\ Truthful /\ LedgerLast /\ RoutesAgree

\* Holders have different tokens, if the brands share a contract.
NoSharedToken ==
  Shared \/ demo => \A h, g \in Holders \ joined :
    membership[h] = membership[g] /\ membership[h] # NoToken => h = g

\* However many requests ensure a token, at most one mint of theirs is open,
\* unless two of them looked for one at the same time or another handler
\* submitted one in between.
OneOpenMint ==
  \A h \in Holders \ overlapped :
    Cardinality({r \in Pending(h) : runs[r].by = "ensure"}) <= 1

\* ensureBaseNftMinted does not mint again for a wallet that got a token by it,
\* at a time when nobody else is between a look and a submission.
EnsuresOne ==
  [][\A h \in Holders \ overlapped' :
       (\A r \in DOMAIN runs' : runs'[r].holder = h => runs'[r].by = "ensure")
       /\ (\E r \in DOMAIN runs' \ DOMAIN runs : runs'[r].holder = h)
         => \A r \in MintsFor(h) : runs[r].token = NoToken]_recordsVars
=============================================================================
