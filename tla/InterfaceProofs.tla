--------------------------- MODULE InterfaceProofs --------------------------
(***************************************************************************)
(* Machine-checked proofs about the two faces of QueueProof.               *)
(*                                                                         *)
(* The MCP endpoint: about OAuthCodes, who may call it, for any number of  *)
(* clients, consents, redemptions, owner-minted tokens, calls and          *)
(* workspaces; and about McpServer and the synthesis of AnswerSynthesis,   *)
(* what a search of it answers, for any connectors, records, scopes,       *)
(* questions, rankings and units of text.                                  *)
(*                                                                         *)
(* The browser tab: about WorkspaceClient, for any accounts, connectors,   *)
(* questions and texts, and any bounds.                                    *)
(***************************************************************************)
EXTENDS
  OAuthCodes, McpServer, WorkspaceClient,
  FiniteSetTheorems, SequenceTheorems, WellFoundedInduction, TLAPS

(***************************************************************************)
(* Types.                                                                  *)
(***************************************************************************)
LEMMA TypeInit == Init => TypeOK
<1> SUFFICES ASSUME Init PROVE TypeOK
  OBVIOUS
<1>1. token \in [Tokens -> TokenRow]
  <2> SUFFICES ASSUME NEW t \in Tokens PROVE NoToken \in TokenRow
    BY DEF Init
  <2>1. \E c : c \in LedgerClients
    BY DEF Init, Tokens, LedgerClients, ClaimRecord
  <2>2. (CHOOSE c \in LedgerClients : TRUE) \in LedgerClients
    BY <2>1
  <2>3. (CHOOSE w \in Workspaces : TRUE) \in Workspaces
    BY OAuthAssumption
  <2>4. QED
    BY <2>2, <2>3 DEF NoToken, TokenRow
<1>2. QED
  BY <1>1, OAuthAssumption
  DEF Init, TypeOK, LedgerRow, ConsentStates, CodeRow, RedeemStates, CallStates

\* A grant is a row of the token table.
LEMMA GrantType ==
  ASSUME TypeOK, NEW r \in Redemptions
  PROVE  /\ Grant(r) \in TokenRow
         /\ Grant(r).client \in Clients
         /\ Grant(r).workspace \in Workspaces
<1>1. claim[r].code \in Consents
  BY DEF TypeOK, ClaimRecord
<1>2. consent[claim[r].code] \in ConsentRecord
  BY <1>1 DEF TypeOK
<1>3. Expiry(TokenTTL) \in Nat
  BY OAuthAssumption DEF TypeOK, Expiry
<1>4. NormaliseScopes(consent[claim[r].code].asked) \in SUBSET Scopes
  BY <1>2, OAuthAssumption DEF NormaliseScopes, ConsentRecord
<1>5. QED
  BY <1>2, <1>3, <1>4 DEF Grant, TokenRow, ConsentRecord, LedgerClients

\* Binding a ledger row to a workspace leaves a ledger row.
LEMMA LedgerRowUpdate ==
  ASSUME TypeOK, NEW c \in LedgerClients, NEW w \in Workspaces,
         NEW s \in {"configured", "connected"}
  PROVE  /\ [ledger[c] EXCEPT !.workspace = w, !.status = s] \in LedgerRow
         /\ [ledger[c] EXCEPT !.status = s, !.workspace = w] \in LedgerRow
<1>1. ledger[c] \in LedgerRow
  BY DEF TypeOK
<1>2. QED
  BY <1>1 DEF LedgerRow

LEMMA TypeNext == TypeOK /\ [Next]_vars => TypeOK'
<1> SUFFICES ASSUME TypeOK, [Next]_vars PROVE TypeOK'
  OBVIOUS
<1>0. \A r \in Redemptions : /\ Grant(r) \in TokenRow
                             /\ Grant(r).client \in LedgerClients
                             /\ Grant(r).workspace \in Workspaces
                             /\ r \in Tokens
  BY GrantType DEF LedgerClients, Tokens
<1> USE DEF TypeOK, flow, redemption, call, Outcomes, Applied, Resume
<1>1. CASE Tick
  BY <1>1, OAuthAssumption DEF Tick
<1>2. ASSUME NEW c \in Clients, RegisterClient(c) PROVE TypeOK'
  BY <1>2 DEF RegisterClient, LedgerClients, LedgerRow
<1>3. ASSUME NEW k \in Consents, ParseAuthorizationRequest(k) PROVE TypeOK'
  BY <1>3 DEF ParseAuthorizationRequest, ConsentStates
<1>4. ASSUME NEW k \in Consents, NEW o \in Outcomes, IssueAuthorizationCode(k, o)
      PROVE TypeOK'
  <2>1. Expiry(CodeTTL) \in Nat
    BY OAuthAssumption DEF Expiry
  <2>2. QED
    BY <1>4, <2>1 DEF IssueAuthorizationCode, ConsentStates, CodeRow
<1>5. ASSUME NEW r \in Redemptions, CheckCode(r) PROVE TypeOK'
  BY <1>5 DEF CheckCode, Moves, RedeemStates
<1>6. ASSUME NEW r \in Redemptions, CrashRedemption(r) PROVE TypeOK'
  BY <1>6 DEF CrashRedemption, RedeemStates
<1>7. ASSUME NEW r \in Redemptions, NEW o \in Outcomes, ConsumeCode(r, o) PROVE TypeOK'
  BY <1>7 DEF ConsumeCode, Moves, RedeemStates, CodeRow, ClaimRecord
<1>8. ASSUME NEW r \in Redemptions, NEW o \in Outcomes, MintToken(r, o) PROVE TypeOK'
  <2>1. redeeming' \in [Redemptions -> RedeemStates]
    BY <1>8 DEF MintToken, Moves, RedeemStates
  <2>2. /\ Grant(r) \in TokenRow
        /\ Grant(r).client \in LedgerClients
        /\ Grant(r).workspace \in Workspaces
        /\ r \in Tokens
    BY <1>0
  <2>3. [ledger[Grant(r).client] EXCEPT !.workspace = Grant(r).workspace,
           !.status = "connected"] \in LedgerRow
    BY <2>2, LedgerRowUpdate
  <2>4. token' \in [Tokens -> TokenRow] /\ ledger' \in [LedgerClients -> LedgerRow]
    BY <1>8, <2>2, <2>3 DEF MintToken
  <2>5. QED
    BY <1>8, <2>1, <2>4 DEF MintToken
<1>9. ASSUME NEW m \in Mints, NEW o \in Outcomes, MintOwnerToken(m, o) PROVE TypeOK'
  <2>1. m \in LedgerClients /\ m \in Tokens /\ Expiry(TokenTTL) \in Nat
    BY OAuthAssumption DEF Expiry, LedgerClients, Tokens
  <2>2. \A w \in Workspaces : \A scopes \in SUBSET Scopes :
          [status |-> "issued", expires |-> Expiry(TokenTTL), client |-> m,
           workspace |-> w, scopes |-> scopes] \in TokenRow
    BY <2>1 DEF TokenRow
  <2>3. token' \in [Tokens -> TokenRow] /\ ledger' \in [LedgerClients -> LedgerRow]
    <3>1. CASE UNCHANGED <<token, ledger>>
      BY <3>1
    <3>2. ASSUME NEW w \in Workspaces, NEW asked \in SUBSET Scopes,
                 token' = [token EXCEPT ![m] =
                   [status |-> "issued", expires |-> Expiry(TokenTTL), client |-> m,
                    workspace |-> w, scopes |-> asked \union {Read}]],
                 ledger' = [ledger EXCEPT ![m] =
                   [@ EXCEPT !.status = "configured", !.workspace = w]]
          PROVE  token' \in [Tokens -> TokenRow] /\ ledger' \in [LedgerClients -> LedgerRow]
      <4>1. [status |-> "issued", expires |-> Expiry(TokenTTL), client |-> m,
             workspace |-> w, scopes |-> asked \union {Read}] \in TokenRow
        <5>1. asked \union {Read} \in SUBSET Scopes
          BY OAuthAssumption
        <5>2. QED
          BY <2>2, <5>1
      <4>2. [ledger[m] EXCEPT !.status = "configured", !.workspace = w] \in LedgerRow
        BY <2>1, LedgerRowUpdate
      <4>3. QED
        BY <2>1, <3>2, <4>1, <4>2
    <3>3. QED
      BY <1>9, <3>1, <3>2 DEF MintOwnerToken
  <2>4. QED
    BY <1>9, <2>3 DEF MintOwnerToken
<1>10. ASSUME NEW t \in Tokens, RevokeToken(t) PROVE TypeOK'
  BY <1>10 DEF RevokeToken, TokenRow
<1>11. ASSUME NEW m \in Calls, Authenticate(m) PROVE TypeOK'
  BY <1>11 DEF Authenticate, CallMoves, CallStates, TokenRow
<1>12. ASSUME NEW m \in Calls, Serve(m) PROVE TypeOK'
  BY <1>12 DEF Serve, CallMoves, CallStates
<1>13. ASSUME NEW m \in Calls, CrashCall(m) PROVE TypeOK'
  BY <1>13 DEF CrashCall, CallStates
<1>14. ASSUME NEW m \in Calls, NEW o \in Outcomes, Handshake(m, o) PROVE TypeOK'
  <2>1. ledger' \in [LedgerClients -> LedgerRow]
    <3>1. \A c \in LedgerClients :
            [ledger[c] EXCEPT !.handshake = TRUE, !.status = "connected"] \in LedgerRow
      BY DEF LedgerRow
    <3>2. bearer[m] \in Tokens /\ token[bearer[m]].client \in LedgerClients
      BY DEF TokenRow
    <3>3. QED
      BY <1>14, <3>1, <3>2 DEF Handshake
  <2>2. calling' \in [Calls -> CallStates]
    BY <1>14 DEF Handshake, CallMoves, CallStates
  <2>3. QED
    BY <1>14, <2>1, <2>2 DEF Handshake
<1>15. ASSUME NEW m \in Calls, NEW o \in Outcomes, StampToolCall(m, o) PROVE TypeOK'
  BY <1>15 DEF StampToolCall, CallMoves, CallStates, LedgerRow
<1>16. CASE UNCHANGED vars
  BY <1>16 DEF vars
<1>17. QED
  BY <1>1, <1>2, <1>3, <1>4, <1>5, <1>6, <1>7, <1>8, <1>9, <1>10, <1>11, <1>12,
     <1>13, <1>14, <1>15, <1>16 DEF Next

\* Every reachable state is well typed.
THEOREM TypeCorrect == Spec => []TypeOK
  BY TypeInit, TypeNext, PTL DEF Spec

(***************************************************************************)
(* The inductive invariant.  Neither property is inductive: both speak of  *)
(* tokens that exist, and a redemption between its consuming UPDATE and    *)
(* its batch has none.  What makes them true is that such a redemption     *)
(* holds its code as much as a token does, and has passed its checks.      *)
(***************************************************************************)
Present(t) == token[t].status # "absent"
Holds(r) == redeeming[r] = "mint" \/ Present(r)

\* A code row exists only past its consent's INSERT, and an approved request names
\* one of its client's own redirect URIs.
ConsentInv ==
  \A k \in Consents :
    /\ consenting[k] \in {"idle", "issue"} => code[k].status = "absent"
    /\ consenting[k] \in {"issue", "issued"} =>
         consent[k].redirect \in RedirectsOf[consent[k].client]

\* What each redemption has passed, by where it stands.
RedemptionInv ==
  \A r \in Redemptions :
    /\ redeeming[r] \in {"idle", "consume", "mint"} => ~Present(r)
    /\ redeeming[r] \in {"consume", "mint"} \/ Present(r) =>
         consenting[claim[r].code] = "issued" /\ ClaimMatches(r)
    /\ Holds(r) => code[claim[r].code].status = "consumed"

\* One redemption holds a code.
HolderInv ==
  \A r, q \in Redemptions : Holds(r) /\ Holds(q) /\ claim[r].code = claim[q].code => r = q

\* A redeemed token is what its consent granted; an owner's token is written once.
TokenInv ==
  /\ \A r \in Redemptions :
       Present(r) =>
         LET k == consent[claim[r].code] IN
         /\ token[r].client = k.client
         /\ token[r].workspace = k.workspace
         /\ token[r].scopes = NormaliseScopes(k.asked)
  /\ \A m \in Mints : minting[m] = "idle" => ~Present(m)

IInv == ConsentInv /\ RedemptionInv /\ HolderInv /\ TokenInv /\ LedgerHasGrant

LEMMA InvInit == Init => IInv
  BY DEF Init, IInv, ConsentInv, RedemptionInv, HolderInv, TokenInv, LedgerHasGrant,
     Holds, Present, NoToken, Tokens

\* Consent: only code rows and control states of consents move, and a code row
\* appears where no redemption stands yet.
LEMMA ConsentKeepsInv ==
  ASSUME TypeOK, IInv, NEW k \in Consents,
         ParseAuthorizationRequest(k)
           \/ \E o \in Outcomes : IssueAuthorizationCode(k, o)
  PROVE  IInv'
<1> USE DEF IInv, flow, redemption, call
<1>1. UNCHANGED <<ledger, consent, claim, redeeming, token, minting>>
  BY DEF ParseAuthorizationRequest, IssueAuthorizationCode
<1>2. ConsentInv'
  BY DEF ParseAuthorizationRequest, IssueAuthorizationCode, ConsentInv, TypeOK, Resume
<1>3. \A l \in Consents : consenting[l] = "issued" =>
        consenting'[l] = "issued" /\ code'[l] = code[l]
  BY DEF ParseAuthorizationRequest, IssueAuthorizationCode, TypeOK
<1>4. RedemptionInv'
  BY <1>1, <1>3 DEF RedemptionInv, TypeOK, ClaimRecord, Present, Holds, ClaimMatches
<1>5. HolderInv' /\ TokenInv' /\ LedgerHasGrant'
  BY <1>1 DEF HolderInv, TokenInv, LedgerHasGrant, Holds, Present
<1>6. QED
  BY <1>2, <1>4, <1>5

\* The guarded UPDATE makes a holder only of a code that has none.
LEMMA ConsumeKeepsInv ==
  ASSUME TypeOK, IInv, NEW r \in Redemptions, NEW o \in Outcomes, ConsumeCode(r, o)
  PROVE  IInv'
<1> USE DEF IInv, flow, redemption, call, Present, ClaimMatches
<1>1. UNCHANGED <<ledger, consent, consenting, claim, token, minting>>
  BY DEF ConsumeCode
<1>2. claim[r].code \in Consents /\ r \in Tokens
  BY DEF TypeOK, ClaimRecord, Tokens
<1>3. redeeming[r] = "consume" /\ \A q \in Redemptions : q # r => redeeming'[q] = redeeming[q]
  BY DEF ConsumeCode, Moves, TypeOK
<1>4. redeeming'[r] # "idle" /\ redeeming'[r] # "consume"
  BY DEF ConsumeCode, Moves, TypeOK, Resume
<1>5. redeeming'[r] = "mint" =>
        /\ code[claim[r].code].status = "live"
        /\ code'[claim[r].code].status = "consumed"
  BY <1>2 DEF ConsumeCode, Moves, TypeOK, Resume, Applied, CodeRow
<1>6. \A l \in Consents : code[l].status \in {"absent", "consumed"} =>
        code'[l].status = code[l].status
  BY <1>2 DEF ConsumeCode, TypeOK, CodeRow
<1>7. ConsentInv'
  BY <1>1, <1>6 DEF ConsentInv
<1>8. RedemptionInv'
  BY <1>1, <1>2, <1>3, <1>4, <1>5, <1>6 DEF RedemptionInv, Holds, TypeOK, ClaimRecord
<1>9. HolderInv'
  <2>1. \A q \in Redemptions : q # r => (Holds(q)' <=> Holds(q))
    BY <1>1, <1>3 DEF Holds
  <2>2. Holds(r)' => \A q \in Redemptions : Holds(q) => claim[q].code # claim[r].code
    BY <1>1, <1>3, <1>5 DEF Holds, RedemptionInv
  <2>3. QED
    BY <1>1, <2>1, <2>2 DEF HolderInv
<1>10. TokenInv' /\ LedgerHasGrant'
  BY <1>1 DEF TokenInv, LedgerHasGrant
<1>11. QED
  BY <1>7, <1>8, <1>9, <1>10

\* The batch turns its holder's claim into a token, and binds the client with it.
LEMMA MintKeepsInv ==
  ASSUME TypeOK, IInv, NEW r \in Redemptions, NEW o \in Outcomes, MintToken(r, o)
  PROVE  IInv'
<1> USE DEF IInv, flow, redemption, call, Present, ClaimMatches
<1>1. UNCHANGED <<consent, consenting, code, claim, minting>>
  BY DEF MintToken
<1>2. /\ redeeming[r] = "mint" /\ redeeming'[r] \in {"granted", "serverError"}
      /\ \A q \in Redemptions : q # r => redeeming'[q] = redeeming[q]
  BY DEF MintToken, Moves, TypeOK, Resume
<1>3. /\ Grant(r) \in TokenRow /\ r \in Tokens /\ claim[r].code \in Consents
      /\ Grant(r).client \in LedgerClients /\ Grant(r).workspace \in Workspaces
  BY GrantType DEF Tokens, LedgerClients, TypeOK, ClaimRecord
<1>4. ~Present(r) /\ Holds(r)
  BY <1>2 DEF Holds, RedemptionInv
<1>5. \A t \in Tokens : t # r => token'[t] = token[t]
  BY <1>3 DEF MintToken, TypeOK
<1>6. token'[r] = token[r] \/ token'[r] = Grant(r)
  BY <1>3 DEF MintToken, TypeOK
<1>7. \A q \in Redemptions : Holds(q)' => Holds(q)
  BY <1>2, <1>4, <1>5 DEF Holds, Tokens
<1>8. ConsentInv'
  BY <1>1 DEF ConsentInv
<1>9. RedemptionInv'
  <2>1. \A q \in Redemptions : q # r => Present(q)' = Present(q)
    BY <1>5 DEF Tokens
  <2>2. QED
    BY <1>1, <1>2, <1>4, <1>7, <2>1 DEF RedemptionInv
<1>10. HolderInv'
  BY <1>1, <1>7 DEF HolderInv
<1>11. TokenInv'
  <2>1. \A m \in Mints : m # r /\ m \in Tokens
    BY OAuthAssumption DEF Tokens
  <2>2. \A q \in Redemptions : q \in Tokens
    BY DEF Tokens
  <2>3. QED
    BY <1>1, <1>4, <1>5, <1>6, <2>1, <2>2 DEF TokenInv, Grant
<1>12. LedgerHasGrant'
  <2>1. CASE UNCHANGED <<token, ledger>>
    BY <2>1 DEF LedgerHasGrant
  <2>2. ASSUME token' = [token EXCEPT ![r] = Grant(r)],
               ledger' = [ledger EXCEPT ![Grant(r).client] =
                 [@ EXCEPT !.workspace = Grant(r).workspace, !.status = "connected"]]
        PROVE  LedgerHasGrant'
    <3>1. \A c \in LedgerClients : ledger[c] \in LedgerRow
      BY DEF TypeOK
    <3>2. /\ token'[r].status # "absent" /\ token'[r].client = Grant(r).client
          /\ token'[r].workspace = Grant(r).workspace
      BY <1>3, <2>2 DEF TypeOK, Grant
    <3>3. ledger'[Grant(r).client].workspace = Grant(r).workspace
      BY <1>3, <2>2, <3>1 DEF TypeOK, LedgerRow
    <3>4. \A c \in LedgerClients : c # Grant(r).client => ledger'[c] = ledger[c]
      BY <1>3, <2>2 DEF TypeOK
    <3>5. \A t \in Tokens : Present(t) => token'[t] = token[t]
      BY <1>4, <1>5
    <3>6. QED
      BY <1>3, <3>2, <3>3, <3>4, <3>5 DEF LedgerHasGrant
  <2>3. QED
    BY <2>1, <2>2 DEF MintToken
<1>13. QED
  BY <1>8, <1>9, <1>10, <1>11, <1>12

\* An owner's batch writes a token of its own, and binds the client made with it.
LEMMA OwnerMintKeepsInv ==
  ASSUME TypeOK, IInv, NEW m \in Mints, NEW o \in Outcomes, MintOwnerToken(m, o)
  PROVE  IInv'
<1> USE DEF IInv, flow, redemption, call, Present, ClaimMatches
<1>1. UNCHANGED <<consent, consenting, code, claim, redeeming>>
  BY DEF MintOwnerToken
<1>2. /\ m \in Tokens /\ m \in LedgerClients /\ m \notin Redemptions
      /\ \A r \in Redemptions : r \in Tokens
  BY OAuthAssumption DEF Tokens, LedgerClients
<1>3. minting[m] = "idle" /\ ~Present(m)
  BY DEF MintOwnerToken, TokenInv
<1>4. \A n \in Mints : minting'[n] = "idle" => n # m /\ minting[n] = "idle"
  BY DEF MintOwnerToken, TypeOK, Resume
<1>5. \A t \in Tokens : t # m => token'[t] = token[t]
  BY <1>2 DEF MintOwnerToken, TypeOK
<1>6. ConsentInv' /\ RedemptionInv' /\ HolderInv'
  BY <1>1, <1>2, <1>5 DEF ConsentInv, RedemptionInv, HolderInv, Holds
<1>7. TokenInv'
  BY <1>1, <1>2, <1>4, <1>5 DEF TokenInv, Tokens
<1>8. LedgerHasGrant'
  <2>1. CASE UNCHANGED <<token, ledger>>
    BY <2>1 DEF LedgerHasGrant
  <2>2. ASSUME NEW w \in Workspaces, NEW asked \in SUBSET Scopes,
               token' = [token EXCEPT ![m] =
                 [status |-> "issued", expires |-> Expiry(TokenTTL), client |-> m,
                  workspace |-> w, scopes |-> asked \union {Read}]],
               ledger' = [ledger EXCEPT ![m] =
                 [@ EXCEPT !.status = "configured", !.workspace = w]]
        PROVE  LedgerHasGrant'
    <3>1. ledger[m] \in LedgerRow
      BY <1>2 DEF TypeOK
    <3>2. /\ token'[m].status # "absent" /\ token'[m].client = m
          /\ token'[m].workspace = w
      BY <1>2, <2>2 DEF TypeOK
    <3>3. ledger'[m].workspace = w
      BY <1>2, <2>2, <3>1 DEF TypeOK, LedgerRow
    <3>4. \A c \in LedgerClients : c # m => ledger'[c] = ledger[c]
      BY <1>2, <2>2 DEF TypeOK
    <3>5. \A t \in Tokens : Present(t) => token'[t] = token[t]
      BY <1>3, <1>5
    <3>6. QED
      BY <1>2, <3>2, <3>3, <3>4, <3>5 DEF LedgerHasGrant
  <2>3. QED
    BY <2>1, <2>2 DEF MintOwnerToken
<1>9. QED
  BY <1>6, <1>7, <1>8

\* Revocation changes a status, never whose token it is or whether it exists.
LEMMA RevokeKeepsInv ==
  ASSUME TypeOK, IInv, NEW t \in Tokens, RevokeToken(t)
  PROVE  IInv'
<1> USE DEF IInv, flow, redemption, call, Present, ClaimMatches
<1>1. UNCHANGED <<ledger, consent, consenting, code, claim, redeeming, minting>>
  BY DEF RevokeToken
<1>2. \A u \in Tokens : /\ Present(u)' <=> Present(u)
                        /\ token'[u].client = token[u].client
                        /\ token'[u].workspace = token[u].workspace
                        /\ token'[u].scopes = token[u].scopes
  BY DEF RevokeToken, TypeOK, TokenRow
<1>3. \A u \in Redemptions \union Mints : u \in Tokens
  BY DEF Tokens
<1>4. ConsentInv' /\ RedemptionInv' /\ HolderInv' /\ TokenInv'
  BY <1>1, <1>2, <1>3 DEF ConsentInv, RedemptionInv, HolderInv, TokenInv, Holds
<1>5. LedgerHasGrant'
  BY <1>1, <1>2 DEF LedgerHasGrant
<1>6. QED
  BY <1>4, <1>5

\* A step that leaves codes and tokens alone, moves no redemption to where it would
\* need more, and binds no client.
LEMMA BystanderKeepsInv ==
  ASSUME TypeOK, IInv, UNCHANGED <<flow, claim, token, minting>>,
         \A r \in Redemptions :
           \/ redeeming'[r] = redeeming[r]
           \/ redeeming'[r] \in {"denied", "crashed"}
           \/ /\ redeeming[r] = "idle" /\ redeeming'[r] = "consume"
              /\ consenting[claim[r].code] = "issued" /\ ClaimMatches(r),
         \A c \in LedgerClients : ledger'[c].workspace = ledger[c].workspace
  PROVE  IInv'
<1> USE DEF IInv, flow, Present, ClaimMatches
<1>1. ConsentInv' /\ TokenInv' /\ LedgerHasGrant'
  BY DEF ConsentInv, TokenInv, LedgerHasGrant
<1>2. RedemptionInv' /\ HolderInv'
  BY DEF RedemptionInv, HolderInv, Holds
<1>3. QED
  BY <1>1, <1>2

LEMMA InvNext == TypeOK /\ IInv /\ [Next]_vars => IInv'
<1> SUFFICES ASSUME TypeOK, IInv, [Next]_vars PROVE IInv'
  OBVIOUS
<1> USE DEF flow, redemption, call
<1>1. ASSUME NEW k \in Consents,
             ParseAuthorizationRequest(k)
               \/ \E o \in Outcomes : IssueAuthorizationCode(k, o)
      PROVE IInv'
  BY <1>1, ConsentKeepsInv
<1>2. ASSUME NEW r \in Redemptions, CheckCode(r) PROVE IInv'
  BY <1>2, BystanderKeepsInv DEF CheckCode, Moves, TypeOK
<1>3. ASSUME NEW r \in Redemptions, CrashRedemption(r) PROVE IInv'
  BY <1>3, BystanderKeepsInv DEF CrashRedemption, TypeOK
<1>4. ASSUME NEW r \in Redemptions, NEW o \in Outcomes, ConsumeCode(r, o) \/ MintToken(r, o)
      PROVE IInv'
  BY <1>4, ConsumeKeepsInv, MintKeepsInv
<1>5. ASSUME NEW m \in Mints, NEW o \in Outcomes, MintOwnerToken(m, o) PROVE IInv'
  BY <1>5, OwnerMintKeepsInv
<1>6. ASSUME NEW t \in Tokens, RevokeToken(t) PROVE IInv'
  BY <1>6, RevokeKeepsInv
<1>7. ASSUME NEW c \in Clients, RegisterClient(c) PROVE IInv'
  <2>1. \A d \in LedgerClients : ledger'[d].workspace = ledger[d].workspace
    BY <1>7 DEF RegisterClient, TypeOK, LedgerRow, LedgerClients
  <2>2. QED
    BY <1>7, <2>1, BystanderKeepsInv DEF RegisterClient
<1>8. ASSUME NEW m \in Calls, Authenticate(m) \/ Serve(m) \/ CrashCall(m) PROVE IInv'
  BY <1>8, BystanderKeepsInv DEF Authenticate, Serve, CrashCall
<1>9. ASSUME NEW m \in Calls, NEW o \in Outcomes, Handshake(m, o) \/ StampToolCall(m, o)
      PROVE IInv'
  <2>1. \A d \in LedgerClients : ledger[d] \in LedgerRow
    BY DEF TypeOK
  <2>2. token[bearer[m]].client \in LedgerClients
    BY DEF TypeOK, TokenRow
  <2>3. \/ ledger' = ledger
        \/ ledger' = [ledger EXCEPT ![token[bearer[m]].client] =
             [@ EXCEPT !.handshake = TRUE, !.status = "connected"]]
        \/ ledger' = [ledger EXCEPT ![token[bearer[m]].client].toolCall = TRUE]
    BY <1>9 DEF Handshake, StampToolCall
  <2>4. \A d \in LedgerClients :
          [ledger[d] EXCEPT !.handshake = TRUE, !.status = "connected"].workspace
            = ledger[d].workspace
    BY <2>1 DEF LedgerRow
  <2>5. \A d \in LedgerClients : ledger'[d].workspace = ledger[d].workspace
    <3>1. CASE ledger' = ledger
      BY <3>1
    <3>2. CASE ledger' = [ledger EXCEPT ![token[bearer[m]].client] =
                 [@ EXCEPT !.handshake = TRUE, !.status = "connected"]]
      BY <2>2, <2>4, <3>2 DEF TypeOK
    <3>3. CASE ledger' = [ledger EXCEPT ![token[bearer[m]].client].toolCall = TRUE]
      BY <2>1, <2>2, <3>3 DEF TypeOK, LedgerRow
    <3>4. QED
      BY <2>3, <3>1, <3>2, <3>3
  <2>6. QED
    BY <1>9, <2>5, BystanderKeepsInv DEF Handshake, StampToolCall
<1>10. CASE Tick \/ UNCHANGED vars
  BY <1>10, BystanderKeepsInv DEF Tick, vars
<1>11. QED
  BY <1>1, <1>2, <1>3, <1>4, <1>5, <1>6, <1>7, <1>8, <1>9, <1>10 DEF Next

LEMMA InvariantHolds == Spec => [](TypeOK /\ IInv)
  BY TypeInit, TypeNext, InvInit, InvNext, PTL DEF Spec

(***************************************************************************)
(* The safety properties.                                                  *)
(***************************************************************************)
\* However many redemptions of a code race, fail or crash between the SELECT and the
\* batch, one token at most comes of it: each present token holds the code.
THEOREM SingleUse == Spec => []OneTokenPerCode
<1>1. TypeOK /\ IInv => OneTokenPerCode
  BY DEF IInv, HolderInv, Holds, Present, OneTokenPerCode
<1>2. QED
  BY <1>1, InvariantHolds, PTL

\* Every token is the one its consent describes, and no client is bound to a workspace
\* that granted it none.
THEOREM ConsentIsHonoured == Spec => []GrantsFollowConsent
<1>1. TypeOK /\ IInv => GrantsFollowConsent
  <2> SUFFICES ASSUME TypeOK, IInv PROVE TokenFollowsConsent
    BY DEF IInv, GrantsFollowConsent
  <2> SUFFICES ASSUME NEW r \in Redemptions, Present(r)
               PROVE  LET k == claim[r].code IN
                      /\ code[k].status = "consumed"
                      /\ consenting[k] = "issued"
                      /\ claim[r].client = consent[k].client
                      /\ claim[r].redirect \in RedirectsOf[consent[k].client]
                      /\ claim[r].verifier = consent[k].challenge
                      /\ token[r].client = consent[k].client
                      /\ token[r].workspace = consent[k].workspace
                      /\ token[r].scopes \subseteq consent[k].asked \union {Read}
    BY DEF TokenFollowsConsent, Present
  <2>1. /\ claim[r].code \in Consents
        /\ consenting[claim[r].code] = "issued" /\ ClaimMatches(r)
        /\ code[claim[r].code].status = "consumed"
    BY DEF IInv, RedemptionInv, Holds, TypeOK, ClaimRecord
  <2>2. consent[claim[r].code].redirect \in RedirectsOf[consent[claim[r].code].client]
    BY <2>1 DEF IInv, ConsentInv
  <2>3. /\ token[r].client = consent[claim[r].code].client
        /\ token[r].workspace = consent[claim[r].code].workspace
        /\ token[r].scopes \subseteq consent[claim[r].code].asked \union {Read}
    BY DEF IInv, TokenInv, NormaliseScopes
  <2>4. QED
    BY <2>1, <2>2, <2>3 DEF ClaimMatches
<1>2. QED
  BY <1>1, InvariantHolds, PTL

\* Once revoked, a token admits no further call, and whatever runs was admitted before.
THEOREM RevocationStands == Spec => RevocationIsFinal
<1> DEFINE Final ==
      \A m \in Calls :
        token[bearer[m]].status = "revoked" =>
          /\ token'[bearer[m]].status = "revoked"
          /\ calling[m] = "idle" => calling'[m] \in {"idle", "unauthorized"}
          /\ served'[m] = served[m]
<1>1. TypeOK /\ IInv /\ [Next]_vars => Final
  <2> SUFFICES ASSUME TypeOK, IInv, [Next]_vars, NEW m \in Calls,
                      token[bearer[m]].status = "revoked"
               PROVE  /\ token'[bearer[m]].status = "revoked"
                      /\ calling[m] = "idle" => calling'[m] \in {"idle", "unauthorized"}
                      /\ served'[m] = served[m]
    OBVIOUS
  <2> USE DEF flow, redemption, call
  <2>1. bearer[m] \in Tokens /\ Present(bearer[m])
    BY DEF TypeOK, Present
  <2>2. \A r \in Redemptions : redeeming[r] = "mint" => bearer[m] # r
    BY <2>1 DEF IInv, RedemptionInv
  <2>3. \A n \in Mints : minting[n] = "idle" => bearer[m] # n
    BY <2>1 DEF IInv, TokenInv
  <2>4. ASSUME NEW n \in Calls, Authenticate(n)
        PROVE  /\ token' = token
               /\ n # m => calling'[m] = calling[m] /\ served'[m] = served[m]
               /\ n = m => calling'[m] = "unauthorized" /\ served' = served
    BY <2>4 DEF Authenticate, CallMoves, Live, TypeOK
  <2>5. ASSUME NEW n \in Calls,
               Serve(n) \/ CrashCall(n)
                 \/ \E o \in Outcomes : Handshake(n, o) \/ StampToolCall(n, o)
        PROVE  /\ token' = token /\ served' = served
               /\ calling[m] = "idle" => calling'[m] = "idle"
    BY <2>5 DEF Serve, CrashCall, Handshake, StampToolCall, CallMoves, TypeOK
  <2>6. ASSUME NEW r \in Redemptions, NEW o \in Outcomes, MintToken(r, o)
        PROVE  token'[bearer[m]] = token[bearer[m]] /\ UNCHANGED call
    BY <2>1, <2>2, <2>6 DEF MintToken, Moves, TypeOK
  <2>7. ASSUME NEW n \in Mints, NEW o \in Outcomes, MintOwnerToken(n, o)
        PROVE  token'[bearer[m]] = token[bearer[m]] /\ UNCHANGED call
    BY <2>1, <2>3, <2>7 DEF MintOwnerToken, TypeOK
  <2>8. ASSUME NEW t \in Tokens, RevokeToken(t)
        PROVE  token'[bearer[m]] = token[bearer[m]] /\ UNCHANGED call
    BY <2>1, <2>8 DEF RevokeToken, TypeOK
  <2>9. ASSUME NEW r \in Redemptions,
               CheckCode(r) \/ CrashRedemption(r) \/ \E o \in Outcomes : ConsumeCode(r, o)
        PROVE  token' = token /\ UNCHANGED call
    BY <2>9 DEF CheckCode, CrashRedemption, ConsumeCode
  <2>10. ASSUME NEW k \in Consents,
                ParseAuthorizationRequest(k)
                  \/ \E o \in Outcomes : IssueAuthorizationCode(k, o)
         PROVE  token' = token /\ UNCHANGED call
    BY <2>10 DEF ParseAuthorizationRequest, IssueAuthorizationCode
  <2>11. CASE Tick \/ (\E c \in Clients : RegisterClient(c)) \/ UNCHANGED vars
    BY <2>11 DEF Tick, RegisterClient, vars
  <2>12. QED
    BY <2>4, <2>5, <2>6, <2>7, <2>8, <2>9, <2>10, <2>11 DEF Next
<1>2. QED
  BY <1>1, InvariantHolds, PTL DEF Spec, RevocationIsFinal

(***************************************************************************)
(* Searches.  First, natural numbers and their sets.                       *)
(***************************************************************************)
\* Every nonempty set of natural numbers has a least element.
LEMMA Least ==
  ASSUME NEW T \in SUBSET Nat, T # {}
  PROVE  \E n \in T : \A m \in T : ~(m < n)
<1> DEFINE R == OpToRel(<, Nat)
<1>1. \A x, y \in Nat : x < y => <<x, y>> \in R
  BY DEF OpToRel
<1>2. IsWellFoundedOn(R, Nat)
  BY NatLessThanWellFounded
<1> HIDE DEF R
<1>3. \A RR, S, TT : IsWellFoundedOn(RR, S) /\ TT \subseteq S /\ TT # {} =>
        \E x \in TT : \A y \in TT : ~(<<y, x>> \in RR)
  BY WFMin
<1>4. \E x \in T : \A y \in T : ~(<<y, x>> \in R)
  BY <1>2, <1>3
<1>5. QED
  BY <1>1, <1>4

\* Induction over the natural numbers, for a set.
LEMMA SetInduction ==
  ASSUME NEW T, 0 \in T, \A n \in Nat : n \in T => n + 1 \in T
  PROVE  Nat \subseteq T
<1> SUFFICES ASSUME Nat \ T # {} PROVE FALSE
  OBVIOUS
<1>1. PICK n \in Nat \ T : \A m \in Nat \ T : ~(m < n)
  <2>1. Nat \ T \in SUBSET Nat
    OBVIOUS
  <2>2. QED
    BY <2>1, Least
<1>2. n # 0 /\ n - 1 \in Nat /\ n - 1 < n
  OBVIOUS
<1>3. n - 1 \in T
  BY <1>1, <1>2
<1>4. (n - 1) + 1 = n
  OBVIOUS
<1>5. QED
  BY <1>2, <1>3, <1>4


(***************************************************************************)
(* Folds.                                                                  *)
(***************************************************************************)
\* A nonempty set of the first n numbers has a greatest one.
LEMMA Greatest ==
  ASSUME NEW n \in Nat, NEW T \in SUBSET (1..n), T # {}
  PROVE  Max(T) \in T /\ \A k \in T : Max(T) >= k
<1> DEFINE Bounded(m) == \A U \in SUBSET (1..m) : U # {} => \E x \in U : \A y \in U : x >= y
           N == {m \in Nat : Bounded(m)}
<1>1. 0 \in N
  <2>1. \A U \in SUBSET (1..0) : U = {}
    OBVIOUS
  <2>2. QED
    BY <2>1
<1>2. \A m \in Nat : m \in N => m + 1 \in N
  <2> SUFFICES ASSUME NEW m \in Nat, Bounded(m), NEW U \in SUBSET (1..(m + 1)), U # {}
               PROVE  \E x \in U : \A y \in U : x >= y
    OBVIOUS
  <2>1. CASE m + 1 \in U
    BY <2>1
  <2>2. CASE m + 1 \notin U
    <3>1. U \in SUBSET (1..m)
      BY <2>2
    <3>2. QED
      BY <3>1
  <2>3. QED
    BY <2>1, <2>2
<1>3. n \in N
  <2> HIDE DEF N
  <2>1. QED
    BY <1>1, <1>2, SetInduction
<1>4. \E x \in T : \A y \in T : x >= y
  BY <1>3
<1>5. QED
  BY <1>4 DEF Max

\* The sets a fold passes through, with what it has accumulated for each.
Folding(f, F, base, s) ==
  f = [T \in SUBSET DOMAIN s |->
         IF T = {} THEN base ELSE F[<<f[T \ {Max(T)}], s[Max(T)]>>]]

LEMMA FoldingExists ==
  ASSUME NEW X, NEW Y, NEW base \in X, NEW F \in [X \X Y -> X], NEW s \in Seq(Y)
  PROVE  \E f \in [SUBSET DOMAIN s -> X] : Folding(f, F, base, s)
<1> DEFINE Solves(f, n) ==
      /\ f \in [SUBSET (1..n) -> X]
      /\ \A T \in SUBSET (1..n) :
           f[T] = IF T = {} THEN base ELSE F[<<f[T \ {Max(T)}], s[Max(T)]>>]
           N == {n \in Nat : n <= Len(s) => \E f : Solves(f, n)}
<1>1. Len(s) \in Nat /\ DOMAIN s = 1..Len(s) /\ \A i \in 1..Len(s) : s[i] \in Y
  OBVIOUS
<1>2. 0 \in N
  <2>1. Solves([T \in SUBSET (1..0) |-> base], 0)
    OBVIOUS
  <2> HIDE DEF Solves
  <2>2. QED
    BY <2>1
<1>3. \A n \in Nat : n \in N => n + 1 \in N
  <2> SUFFICES ASSUME NEW n \in Nat, n + 1 <= Len(s), \E f : Solves(f, n)
               PROVE  \E f : Solves(f, n + 1)
    <3> HIDE DEF Solves
    <3>1. QED
      BY <1>1
  <2>1. PICK f : Solves(f, n)
    OBVIOUS
  <2> DEFINE g == [T \in SUBSET (1..(n + 1)) |->
                     IF n + 1 \in T THEN F[<<f[T \ {n + 1}], s[n + 1]>>] ELSE f[T]]
  <2>2. \A T \in SUBSET (1..(n + 1)) : T \ {n + 1} \in SUBSET (1..n)
    OBVIOUS
  <2>3. \A T \in SUBSET (1..(n + 1)) : n + 1 \notin T => T \in SUBSET (1..n)
    OBVIOUS
  <2>4. \A T \in SUBSET (1..(n + 1)) : g[T] \in X
    BY <1>1, <2>1, <2>2, <2>3
  <2>5. ASSUME NEW T \in SUBSET (1..(n + 1)), n + 1 \in T PROVE Max(T) = n + 1
    <3>1. Max(T) \in T /\ \A k \in T : Max(T) >= k
      <4>1. \A m \in Nat : \A U \in SUBSET (1..m) :
              U # {} => Max(U) \in U /\ \A k \in U : Max(U) >= k
        BY Greatest
      <4>2. n + 1 \in Nat /\ T # {}
        BY <2>5
      <4>3. QED
        BY <4>1, <4>2
    <3>2. Max(T) \in 1..(n + 1) /\ Max(T) >= n + 1
      BY <2>5, <3>1
    <3>3. QED
      BY <3>2
  <2>6. \A T \in SUBSET (1..n) : g[T] = f[T] /\ T \in SUBSET (1..(n + 1))
    OBVIOUS
  <2>7. ASSUME NEW T \in SUBSET (1..(n + 1))
        PROVE  g[T] = IF T = {} THEN base ELSE F[<<g[T \ {Max(T)}], s[Max(T)]>>]
    <3>1. CASE n + 1 \in T
      BY <2>2, <2>5, <2>6, <3>1
    <3>2. CASE n + 1 \notin T
      <4>1. T \in SUBSET (1..n) /\ g[T] = f[T]
        BY <2>3, <2>6, <3>2
      <4>2. T \ {Max(T)} \in SUBSET (1..n) /\ g[T \ {Max(T)}] = f[T \ {Max(T)}]
        BY <2>6, <4>1
      <4>3. f[T] = IF T = {} THEN base ELSE F[<<f[T \ {Max(T)}], s[Max(T)]>>]
        BY <2>1, <4>1
      <4>4. QED
        BY <4>1, <4>2, <4>3
    <3>3. QED
      BY <3>1, <3>2
  <2>8. g \in [SUBSET (1..(n + 1)) -> X]
    BY <2>4
  <2> HIDE DEF g
  <2>9. Solves(g, n + 1)
    BY <2>7, <2>8
  <2> HIDE DEF Solves
  <2>10. QED
    BY <2>9
<1>4. Len(s) \in N
  <2> HIDE DEF N
  <2>1. QED
    BY <1>1, <1>2, <1>3, SetInduction
<1>5. PICK f : Solves(f, Len(s))
  <2> HIDE DEF Solves
  <2>1. QED
    BY <1>1, <1>4
<1>6. f \in [SUBSET DOMAIN s -> X] /\ Folding(f, F, base, s)
  BY <1>1, <1>5 DEF Folding
<1>7. QED
  BY <1>6

\* The sets that lead to the whole sequence.
LEMMA FirstNumbers ==
  ASSUME NEW n \in Nat \ {0}
  PROVE  Max(1..n) = n /\ (1..n) \ {n} = 1..(n - 1) /\ 1..n # {}
<1>1. n \in 1..n /\ 1..n \in SUBSET (1..n) /\ n \in Nat
  OBVIOUS
<1>2. Max(1..n) \in 1..n /\ \A k \in 1..n : Max(1..n) >= k
  BY <1>1, Greatest
<1>3. Max(1..n) = n
  <2>1. Max(1..n) >= n
    BY <1>1, <1>2
  <2>2. QED
    BY <1>2, <2>1
<1>4. (1..n) \ {n} = 1..(n - 1)
  OBVIOUS
<1>5. QED
  BY <1>1, <1>3, <1>4

\* The first places of a sequence are places of it.
LEMMA FirstPlaces ==
  ASSUME NEW m \in Nat, NEW n \in 1..m
  PROVE  1..n \in SUBSET (1..m) /\ n - 1 \in Nat /\ n \in Nat
<1>1. n \in Nat /\ n - 1 \in Nat /\ n <= m
  OBVIOUS
<1>2. ASSUME NEW k \in 1..n PROVE k \in 1..m
  BY <1>1
<1>3. QED
  BY <1>1, <1>2

(***************************************************************************)
(* Keep.                                                                   *)
(***************************************************************************)
KeepsAlong(at, s, S) ==
  /\ at[0] = <<>>
  /\ \A n \in 1..Len(s) :
       at[n] = IF s[n] \in S THEN Append(at[n - 1], s[n]) ELSE at[n - 1]
  /\ Keep(s, S) = at[Len(s)]

LEMMA KeepSteps ==
  ASSUME NEW Y, NEW s \in Seq(Y), NEW S
  PROVE  \E at : KeepsAlong(at, s, S)
<1>1. Len(s) \in Nat /\ DOMAIN s = 1..Len(s)
  OBVIOUS
<1> DEFINE F == [p \in Seq(Y) \X Y |-> IF p[2] \in S THEN Append(p[1], p[2]) ELSE p[1]]
           Kept(f) == f = [T \in SUBSET DOMAIN s |->
                             IF T = {} THEN <<>>
                             ELSE IF s[Max(T)] \in S
                                  THEN Append(f[T \ {Max(T)}], s[Max(T)])
                                  ELSE f[T \ {Max(T)}]]
           whole == CHOOSE f : Kept(f)
<1>2. Kept(whole)
  <2>1. F \in [Seq(Y) \X Y -> Seq(Y)]
    OBVIOUS
  <2>2. <<>> \in Seq(Y)
    OBVIOUS
  <2>3. PICK f \in [SUBSET DOMAIN s -> Seq(Y)] : Folding(f, F, <<>>, s)
    BY <2>1, <2>2, FoldingExists
  <2>4. ASSUME NEW T \in SUBSET DOMAIN s, T # {}
        PROVE  /\ f[T \ {Max(T)}] \in Seq(Y) /\ s[Max(T)] \in Y
    <3>1. \A m \in Nat : \A U \in SUBSET (1..m) : U # {} => Max(U) \in U
      BY Greatest
    <3>2. Max(T) \in DOMAIN s
      BY <1>1, <2>4, <3>1
    <3>3. QED
      BY <1>1, <3>2
  <2>5. \A T \in SUBSET DOMAIN s : T # {} =>
          F[<<f[T \ {Max(T)}], s[Max(T)]>>] =
            IF s[Max(T)] \in S THEN Append(f[T \ {Max(T)}], s[Max(T)]) ELSE f[T \ {Max(T)}]
    BY <2>4
  <2> HIDE DEF F
  <2>6. Kept(f)
    BY <2>3, <2>5 DEF Folding
  <2>7. QED
    BY <2>6
<1>3. Keep(s, S) = whole[DOMAIN s]
  BY DEF Keep, FoldLeft, MapThenFoldSet
<1> HIDE DEF F, whole
<1> DEFINE at == [n \in Nat |-> whole[1..n]]
<1>4. at[0] = <<>>
  BY <1>1, <1>2
<1>5. ASSUME NEW n \in 1..Len(s)
      PROVE  at[n] = IF s[n] \in S THEN Append(at[n - 1], s[n]) ELSE at[n - 1]
  <2>1. Max(1..n) = n /\ (1..n) \ {n} = 1..(n - 1) /\ 1..n # {}
    <3>1. n \in Nat \ {0}
      BY <1>1
    <3> HIDE DEF at
    <3>2. QED
      BY <3>1, FirstNumbers
  <2>2. 1..n \in SUBSET DOMAIN s /\ n - 1 \in Nat /\ n \in Nat
    BY <1>1, FirstPlaces
  <2>3. QED
    BY <1>2, <2>1, <2>2
<1>6. Keep(s, S) = at[Len(s)]
  BY <1>1, <1>3
<1> HIDE DEF at
<1>7. QED
  BY <1>4, <1>5, <1>6 DEF KeepsAlong

\* It keeps what is in the set, and nothing else.
LEMMA KeepIs ==
  ASSUME NEW Y, NEW s \in Seq(Y), NEW S
  PROVE  /\ Keep(s, S) \in Seq(Y)
         /\ ToSet(Keep(s, S)) = ToSet(s) \intersect S
<1>0. PICK at : KeepsAlong(at, s, S)
  BY KeepSteps
<1>1. /\ at[0] = <<>>
      /\ \A n \in 1..Len(s) :
           at[n] = IF s[n] \in S THEN Append(at[n - 1], s[n]) ELSE at[n - 1]
      /\ Keep(s, S) = at[Len(s)]
  BY <1>0 DEF KeepsAlong
<1> DEFINE Upto(n) == {s[i] : i \in 1..n} \intersect S
           N == {n \in Nat : n <= Len(s) => at[n] \in Seq(Y) /\ ToSet(at[n]) = Upto(n)}
<1>2. Len(s) \in Nat /\ DOMAIN s = 1..Len(s) /\ \A i \in 1..Len(s) : s[i] \in Y
  OBVIOUS
<1>3. \A t \in Seq(Y), y \in Y :
        Append(t, y) \in Seq(Y) /\ ToSet(Append(t, y)) = ToSet(t) \union {y}
  <2> SUFFICES ASSUME NEW t \in Seq(Y), NEW y \in Y
               PROVE  Append(t, y) \in Seq(Y) /\ ToSet(Append(t, y)) = ToSet(t) \union {y}
    OBVIOUS
  <2>1. /\ Append(t, y) \in Seq(Y)
        /\ DOMAIN Append(t, y) = 1..(Len(t) + 1) /\ DOMAIN t = 1..Len(t)
        /\ Append(t, y)[Len(t) + 1] = y /\ \A i \in 1..Len(t) : Append(t, y)[i] = t[i]
    OBVIOUS
  <2>2. Len(t) \in Nat
    OBVIOUS
  <2>3. QED
    BY <2>1, <2>2 DEF ToSet
<1>4. 0 \in N
  <2>1. <<>> \in Seq(Y) /\ ToSet(<<>>) = {}
    BY DEF ToSet
  <2>2. {s[i] : i \in 1..0} = {}
    OBVIOUS
  <2>3. QED
    BY <1>1, <2>1, <2>2
<1>5. \A n \in Nat : n \in N => n + 1 \in N
  <2> SUFFICES ASSUME NEW n \in Nat, n + 1 <= Len(s), at[n] \in Seq(Y), ToSet(at[n]) = Upto(n)
               PROVE  at[n + 1] \in Seq(Y) /\ ToSet(at[n + 1]) = Upto(n + 1)
    <3> HIDE DEF Upto
    <3>1. QED
      BY <1>2
  <2>1. n + 1 \in 1..Len(s) /\ (n + 1) - 1 = n
    BY <1>2
  <2>2. at[n + 1] = IF s[n + 1] \in S THEN Append(at[n], s[n + 1]) ELSE at[n]
    BY <1>1, <2>1
  <2>3. {s[i] : i \in 1..(n + 1)} = {s[i] : i \in 1..n} \union {s[n + 1]}
    <3>1. 1..(n + 1) = (1..n) \union {n + 1}
      OBVIOUS
    <3>2. QED
      BY <3>1
  <2>4. QED
    BY <1>2, <1>3, <2>1, <2>2, <2>3
<1>6. Len(s) \in N
  <2> HIDE DEF N
  <2>1. QED
    BY <1>2, <1>4, <1>5, SetInduction
<1>7. at[Len(s)] \in Seq(Y) /\ ToSet(at[Len(s)]) = Upto(Len(s))
  BY <1>2, <1>6
<1>8. Upto(Len(s)) = ToSet(s) \intersect S
  BY <1>2 DEF ToSet
<1>9. QED
  BY <1>1, <1>7, <1>8

(***************************************************************************)
(* The three passes over the claims.                                       *)
(***************************************************************************)
\* What each pass accumulates, step by step.
PicksAlong(at, q, ranked, units) ==
  /\ at[0] = <<>>
  /\ \A n \in 1..Len(units) : at[n] = Pick(q, ranked, units, at[n - 1], units[n])
  /\ FirstPass(q, ranked, units) = at[Len(units)]

LEMMA FirstPassSteps ==
  ASSUME NEW U, NEW q, NEW ranked, NEW units \in Seq(U)
  PROVE  \E at : PicksAlong(at, q, ranked, units)
<1>1. Len(units) \in Nat /\ DOMAIN units = 1..Len(units) /\ \A i \in 1..Len(units) : units[i] \in U
  OBVIOUS
<1> DEFINE F == [p \in Seq(U) \X U |-> Pick(q, ranked, units, p[1], p[2])]
           Folded(f) == f = [T \in SUBSET DOMAIN units |->
                               IF T = {} THEN <<>>
                               ELSE Pick(q, ranked, units, f[T \ {Max(T)}], units[Max(T)])]
           whole == CHOOSE f : Folded(f)
<1>2. Folded(whole)
  <2>1. F \in [Seq(U) \X U -> Seq(U)]
    BY DEF Pick
  <2>2. PICK f \in [SUBSET DOMAIN units -> Seq(U)] : Folding(f, F, <<>>, units)
    <3>1. <<>> \in Seq(U)
      OBVIOUS
    <3> HIDE DEF F
    <3>2. QED
      BY <2>1, <3>1, FoldingExists
  <2>3. ASSUME NEW T \in SUBSET DOMAIN units, T # {}
        PROVE  f[T \ {Max(T)}] \in Seq(U) /\ units[Max(T)] \in U
    <3>1. \A m \in Nat : \A V \in SUBSET (1..m) : V # {} => Max(V) \in V
      BY Greatest
    <3>2. Max(T) \in DOMAIN units
      BY <1>1, <2>3, <3>1
    <3>3. QED
      BY <1>1, <3>2
  <2>4. \A T \in SUBSET DOMAIN units : T # {} =>
          F[<<f[T \ {Max(T)}], units[Max(T)]>>] =
            Pick(q, ranked, units, f[T \ {Max(T)}], units[Max(T)])
    BY <2>3
  <2> HIDE DEF F
  <2>5. Folded(f)
    BY <2>2, <2>4 DEF Folding
  <2>6. QED
    BY <2>5
<1>3. FirstPass(q, ranked, units) = whole[DOMAIN units]
  BY DEF FirstPass, FoldLeft, MapThenFoldSet
<1> HIDE DEF F, whole
<1> DEFINE at == [n \in Nat |-> whole[1..n]]
<1>4. at[0] = <<>>
  BY <1>1, <1>2
<1>5. ASSUME NEW n \in 1..Len(units)
      PROVE  at[n] = Pick(q, ranked, units, at[n - 1], units[n])
  <2>1. Max(1..n) = n /\ (1..n) \ {n} = 1..(n - 1) /\ 1..n # {}
    <3>1. n \in Nat \ {0}
      BY <1>1
    <3> HIDE DEF at
    <3>2. QED
      BY <3>1, FirstNumbers
  <2>2. 1..n \in SUBSET DOMAIN units /\ n - 1 \in Nat /\ n \in Nat
    BY <1>1, FirstPlaces
  <2>3. QED
    BY <1>2, <2>1, <2>2
<1>6. FirstPass(q, ranked, units) = at[Len(units)]
  BY <1>1, <1>3
<1> HIDE DEF at
<1>7. QED
  BY <1>4, <1>5, <1>6 DEF PicksAlong

RelaxesAlong(at, units, picked) ==
  /\ at[0] = picked
  /\ \A n \in 1..Len(units) : at[n] = PickMore(units, at[n - 1], units[n])
  /\ Relax(units, picked) = at[Len(units)]

LEMMA RelaxSteps ==
  ASSUME NEW U, NEW units \in Seq(U), NEW picked \in Seq(U), ~(Len(picked) >= 2)
  PROVE  \E at : RelaxesAlong(at, units, picked)
<1>1. Len(units) \in Nat /\ DOMAIN units = 1..Len(units) /\ \A i \in 1..Len(units) : units[i] \in U
  OBVIOUS
<1> DEFINE F == [p \in Seq(U) \X U |-> PickMore(units, p[1], p[2])]
           Folded(f) == f = [T \in SUBSET DOMAIN units |->
                               IF T = {} THEN picked
                               ELSE PickMore(units, f[T \ {Max(T)}], units[Max(T)])]
           whole == CHOOSE f : Folded(f)
<1>2. Folded(whole)
  <2>1. F \in [Seq(U) \X U -> Seq(U)]
    BY DEF PickMore
  <2>2. PICK f \in [SUBSET DOMAIN units -> Seq(U)] : Folding(f, F, picked, units)
    <3>1. picked \in Seq(U)
      OBVIOUS
    <3> HIDE DEF F
    <3>2. QED
      BY <2>1, <3>1, FoldingExists
  <2>3. ASSUME NEW T \in SUBSET DOMAIN units, T # {}
        PROVE  f[T \ {Max(T)}] \in Seq(U) /\ units[Max(T)] \in U
    <3>1. \A m \in Nat : \A V \in SUBSET (1..m) : V # {} => Max(V) \in V
      BY Greatest
    <3>2. Max(T) \in DOMAIN units
      BY <1>1, <2>3, <3>1
    <3>3. QED
      BY <1>1, <3>2
  <2>4. \A T \in SUBSET DOMAIN units : T # {} =>
          F[<<f[T \ {Max(T)}], units[Max(T)]>>] =
            PickMore(units, f[T \ {Max(T)}], units[Max(T)])
    BY <2>3
  <2> HIDE DEF F
  <2>5. Folded(f)
    BY <2>2, <2>4 DEF Folding
  <2>6. QED
    BY <2>5
<1>3. Relax(units, picked) = whole[DOMAIN units]
  BY DEF Relax, FoldLeft, MapThenFoldSet
<1> HIDE DEF F, whole
<1> DEFINE at == [n \in Nat |-> whole[1..n]]
<1>4. at[0] = picked
  BY <1>1, <1>2
<1>5. ASSUME NEW n \in 1..Len(units)
      PROVE  at[n] = PickMore(units, at[n - 1], units[n])
  <2>1. Max(1..n) = n /\ (1..n) \ {n} = 1..(n - 1) /\ 1..n # {}
    <3>1. n \in Nat \ {0}
      BY <1>1
    <3> HIDE DEF at
    <3>2. QED
      BY <3>1, FirstNumbers
  <2>2. 1..n \in SUBSET DOMAIN units /\ n - 1 \in Nat /\ n \in Nat
    BY <1>1, FirstPlaces
  <2>3. QED
    BY <1>2, <2>1, <2>2
<1>6. Relax(units, picked) = at[Len(units)]
  BY <1>1, <1>3
<1> HIDE DEF at
<1>7. QED
  BY <1>4, <1>5, <1>6 DEF RelaxesAlong

\* The text that covers a facet is text of the records looked at.
LEMMA CoverIs ==
  ASSUME NEW U, NEW units \in Seq(U), NEW kept \in Seq(U), NEW facet,
         Cover(units, kept, facet) # kept
  PROVE  \E u \in U : /\ Cover(units, kept, facet) = Append(kept, u)
                      /\ facet \in u.covers /\ ~Restates(kept, u)
<1> DEFINE eligible == Eligible(units, kept, facet)
           joined == Keep(eligible, {u \in ToSet(eligible) : u.record \in NamedBy(kept)})
           best == IF joined # <<>> THEN joined[1] ELSE eligible[1]
<1>1. eligible \in Seq(U) /\ \A u \in ToSet(eligible) : facet \in u.covers /\ ~Restates(kept, u)
  BY KeepIs DEF Eligible
<1>2. eligible # <<>> /\ Cover(units, kept, facet) = Append(kept, best)
  BY DEF Cover
<1> HIDE DEF eligible
<1>3. joined \in Seq(U) /\ ToSet(joined) \subseteq ToSet(eligible)
  BY <1>1, KeepIs
<1> HIDE DEF joined
<1>4. \A t \in Seq(U) : t # <<>> => t[1] \in U /\ t[1] \in ToSet(t)
  BY DEF ToSet
<1>5. best \in U /\ best \in ToSet(eligible)
  BY <1>1, <1>2, <1>3, <1>4
<1>6. QED
  BY <1>1, <1>2, <1>5

CoversAlong(at, q, units, picked) ==
  /\ at[0] = picked
  /\ \A n \in 1..Len(q.facets) : at[n] = Cover(units, at[n - 1], q.facets[n])
  /\ CoverFacets(q, units, picked) = at[Len(q.facets)]

LEMMA CoverSteps ==
  ASSUME NEW U, NEW q, NEW units \in Seq(U), NEW picked \in Seq(U),
         NEW G, q.facets \in Seq(G)
  PROVE  \E at : CoversAlong(at, q, units, picked)
<1>0. ASSUME NEW kept \in Seq(U), NEW facet PROVE Cover(units, kept, facet) \in Seq(U)
  <2>1. CASE Cover(units, kept, facet) = kept
    BY <2>1
  <2>2. CASE Cover(units, kept, facet) # kept
    <3>1. PICK u \in U : Cover(units, kept, facet) = Append(kept, u)
      BY <2>2, CoverIs
    <3>2. QED
      BY <3>1
  <2>3. QED
    BY <2>1, <2>2
<1>1. /\ Len(q.facets) \in Nat /\ DOMAIN q.facets = 1..Len(q.facets)
      /\ \A i \in 1..Len(q.facets) : q.facets[i] \in G
  OBVIOUS
<1> DEFINE F == [p \in Seq(U) \X G |-> Cover(units, p[1], p[2])]
           Folded(f) == f = [T \in SUBSET DOMAIN q.facets |->
                               IF T = {} THEN picked
                               ELSE Cover(units, f[T \ {Max(T)}], q.facets[Max(T)])]
           whole == CHOOSE f : Folded(f)
<1>2. Folded(whole)
  <2>1. F \in [Seq(U) \X G -> Seq(U)]
    BY <1>0
  <2>2. PICK f \in [SUBSET DOMAIN q.facets -> Seq(U)] : Folding(f, F, picked, q.facets)
    <3>1. picked \in Seq(U)
      OBVIOUS
    <3> HIDE DEF F
    <3>2. QED
      BY <2>1, <3>1, FoldingExists
  <2>3. ASSUME NEW T \in SUBSET DOMAIN q.facets, T # {}
        PROVE  f[T \ {Max(T)}] \in Seq(U) /\ q.facets[Max(T)] \in G
    <3>1. \A m \in Nat : \A V \in SUBSET (1..m) : V # {} => Max(V) \in V
      BY Greatest
    <3>2. Max(T) \in DOMAIN q.facets
      BY <1>1, <2>3, <3>1
    <3>3. QED
      BY <1>1, <3>2
  <2>4. \A T \in SUBSET DOMAIN q.facets : T # {} =>
          F[<<f[T \ {Max(T)}], q.facets[Max(T)]>>] =
            Cover(units, f[T \ {Max(T)}], q.facets[Max(T)])
    BY <2>3
  <2> HIDE DEF F
  <2>5. Folded(f)
    BY <2>2, <2>4 DEF Folding
  <2>6. QED
    BY <2>5
<1>3. CoverFacets(q, units, picked) = whole[DOMAIN q.facets]
  BY DEF CoverFacets, FoldLeft, MapThenFoldSet
<1> HIDE DEF F, whole
<1> DEFINE at == [n \in Nat |-> whole[1..n]]
<1>4. at[0] = picked
  BY <1>1, <1>2
<1>5. ASSUME NEW n \in 1..Len(q.facets)
      PROVE  at[n] = Cover(units, at[n - 1], q.facets[n])
  <2>1. Max(1..n) = n /\ (1..n) \ {n} = 1..(n - 1) /\ 1..n # {}
    <3>1. n \in Nat \ {0}
      BY <1>1
    <3> HIDE DEF at
    <3>2. QED
      BY <3>1, FirstNumbers
  <2>2. 1..n \in SUBSET DOMAIN q.facets /\ n - 1 \in Nat /\ n \in Nat
    BY <1>1, FirstPlaces
  <2>3. QED
    BY <1>2, <2>1, <2>2
<1>6. CoverFacets(q, units, picked) = at[Len(q.facets)]
  BY <1>1, <1>3
<1> HIDE DEF at
<1>7. QED
  BY <1>4, <1>5, <1>6 DEF CoversAlong

\* What holds of the base, and after each step that finds it, holds of the fold.
LEMMA StepsIn ==
  ASSUME NEW L \in Nat, NEW at, NEW X, at[0] \in X,
         \A n \in 1..L : at[n - 1] \in X => at[n] \in X
  PROVE  at[L] \in X /\ \A n \in 0..L : at[n] \in X
<1> DEFINE N == {n \in Nat : n <= L => at[n] \in X}
<1>1. 0 \in N
  OBVIOUS
<1>2. \A n \in Nat : n \in N => n + 1 \in N
  <2> SUFFICES ASSUME NEW n \in Nat, n + 1 <= L, at[n] \in X PROVE at[n + 1] \in X
    OBVIOUS
  <2>1. n + 1 \in 1..L /\ (n + 1) - 1 = n
    OBVIOUS
  <2>2. QED
    BY <2>1
<1>3. Nat \subseteq N
  <2> HIDE DEF N
  <2>1. QED
    BY <1>1, <1>2, SetInduction
<1>4. QED
  BY <1>3

(***************************************************************************)
(* Claims do not repeat each other.                                        *)
(***************************************************************************)
Distinct(U) ==
  {t \in Seq(U) : \A i, j \in DOMAIN t : i # j => t[i].says \intersect t[j].says = {}}

LEMMA AppendDistinct ==
  ASSUME NEW U, NEW t \in Distinct(U), NEW u \in U, ~Restates(t, u)
  PROVE  Append(t, u) \in Distinct(U)
<1>1. /\ t \in Seq(U) /\ Len(t) \in Nat /\ DOMAIN t = 1..Len(t)
      /\ Append(t, u) \in Seq(U) /\ DOMAIN Append(t, u) = 1..(Len(t) + 1)
      /\ Append(t, u)[Len(t) + 1] = u /\ \A i \in 1..Len(t) : Append(t, u)[i] = t[i]
  BY DEF Distinct
<1>2. \A i \in 1..Len(t) : t[i].says \intersect u.says = {}
  BY <1>1 DEF Restates
<1>3. ASSUME NEW i \in 1..(Len(t) + 1), NEW j \in 1..(Len(t) + 1), i # j
      PROVE  Append(t, u)[i].says \intersect Append(t, u)[j].says = {}
  <2>1. i \in 1..Len(t) \/ i = Len(t) + 1
    BY <1>1
  <2>2. j \in 1..Len(t) \/ j = Len(t) + 1
    BY <1>1
  <2>3. QED
    BY <1>1, <1>2, <1>3, <2>1, <2>2 DEF Distinct
<1>4. QED
  BY <1>1, <1>3 DEF Distinct

LEMMA FirstPassDistinct ==
  ASSUME NEW U, NEW q, NEW ranked, NEW units \in Seq(U)
  PROVE  FirstPass(q, ranked, units) \in Distinct(U)
<1>0. PICK at : PicksAlong(at, q, ranked, units)
  BY FirstPassSteps
<1>1. /\ at[0] = <<>>
      /\ \A n \in 1..Len(units) : at[n] = Pick(q, ranked, units, at[n - 1], units[n])
      /\ FirstPass(q, ranked, units) = at[Len(units)]
  BY <1>0 DEF PicksAlong
<1>2. Len(units) \in Nat /\ \A n \in 1..Len(units) : units[n] \in U
  OBVIOUS
<1>3. at[0] \in Distinct(U)
  BY <1>1 DEF Distinct
<1>4. \A n \in 1..Len(units) : at[n - 1] \in Distinct(U) => at[n] \in Distinct(U)
  BY <1>1, <1>2, AppendDistinct DEF Pick
<1>5. QED
  BY <1>1, <1>2, <1>3, <1>4, StepsIn

LEMMA RelaxDistinct ==
  ASSUME NEW U, NEW units \in Seq(U), NEW picked \in Distinct(U)
  PROVE  Relax(units, picked) \in Distinct(U)
<1>1. CASE Len(picked) >= 2
  BY <1>1 DEF Relax
<1>2. CASE ~(Len(picked) >= 2)
  <2>1. picked \in Seq(U)
    BY DEF Distinct
  <2>0. PICK at : RelaxesAlong(at, units, picked)
    BY <1>2, <2>1, RelaxSteps
  <2>2. /\ at[0] = picked
        /\ \A n \in 1..Len(units) : at[n] = PickMore(units, at[n - 1], units[n])
        /\ Relax(units, picked) = at[Len(units)]
    BY <2>0 DEF RelaxesAlong
  <2>3. Len(units) \in Nat /\ \A n \in 1..Len(units) : units[n] \in U
    OBVIOUS
  <2>4. \A n \in 1..Len(units) : at[n - 1] \in Distinct(U) => at[n] \in Distinct(U)
    BY <2>2, <2>3, AppendDistinct DEF PickMore
  <2>5. QED
    BY <2>2, <2>3, <2>4, StepsIn
<1>3. QED
  BY <1>1, <1>2

LEMMA CoverDistinct ==
  ASSUME NEW U, NEW units \in Seq(U), NEW kept \in Distinct(U), NEW facet
  PROVE  Cover(units, kept, facet) \in Distinct(U)
<1>1. kept \in Seq(U)
  BY DEF Distinct
<1>2. CASE Cover(units, kept, facet) # kept
  <2>1. PICK u \in U : Cover(units, kept, facet) = Append(kept, u) /\ ~Restates(kept, u)
    BY <1>1, <1>2, CoverIs
  <2>2. QED
    BY <2>1, AppendDistinct
<1>3. QED
  BY <1>2

LEMMA CoverFacetsDistinct ==
  ASSUME NEW U, NEW q, NEW units \in Seq(U), NEW picked \in Distinct(U),
         NEW G, q.facets \in Seq(G)
  PROVE  CoverFacets(q, units, picked) \in Distinct(U)
<1>1. picked \in Seq(U)
  BY DEF Distinct
<1>2. PICK at : CoversAlong(at, q, units, picked)
  BY <1>1, CoverSteps
<1>3. Len(q.facets) \in Nat
  OBVIOUS
<1>4. \A n \in 1..Len(q.facets) : at[n - 1] \in Distinct(U) => at[n] \in Distinct(U)
  BY <1>2, CoverDistinct DEF CoversAlong
<1>5. QED
  BY <1>2, <1>3, <1>4, StepsIn DEF CoversAlong

(***************************************************************************)
(* A facet that stays uncovered had nothing to cover it.                   *)
(***************************************************************************)
\* The second sequence goes on where the first ends.
Continues(s, t) == Len(s) <= Len(t) /\ \A i \in 1..Len(s) : t[i] = s[i]

LEMMA CoverContinues ==
  ASSUME NEW U, NEW units \in Seq(U), NEW kept \in Seq(U), NEW facet
  PROVE  Cover(units, kept, facet) \in Seq(U) /\ Continues(kept, Cover(units, kept, facet))
<1>1. \A u \in U : /\ Append(kept, u) \in Seq(U) /\ Len(Append(kept, u)) = Len(kept) + 1
                   /\ \A i \in 1..Len(kept) : Append(kept, u)[i] = kept[i]
  OBVIOUS
<1>2. Len(kept) \in Nat
  OBVIOUS
<1>3. QED
  BY <1>1, <1>2, CoverIs DEF Continues

\* Every later step continues what an earlier one left.
LEMMA StepsContinue ==
  ASSUME NEW U, NEW L \in Nat, NEW at,
         \A n \in 0..L : at[n] \in Seq(U),
         \A n \in 1..L : Continues(at[n - 1], at[n]),
         NEW m \in 0..L
  PROVE  Continues(at[m], at[L])
<1> DEFINE N == {n \in Nat : m + n <= L => Continues(at[m], at[m + n])}
<1>1. 0 \in N
  BY DEF Continues
<1>2. \A n \in Nat : n \in N => n + 1 \in N
  <2> SUFFICES ASSUME NEW n \in Nat, m + (n + 1) <= L, Continues(at[m], at[m + n])
               PROVE  Continues(at[m], at[m + (n + 1)])
    OBVIOUS
  <2>1. /\ m + n \in 0..L /\ m + (n + 1) \in 1..L /\ (m + (n + 1)) - 1 = m + n
        /\ m + (n + 1) \in 0..L
    OBVIOUS
  <2>2. Continues(at[m + n], at[m + (n + 1)])
    BY <2>1
  <2>3. \A k \in 0..L : Len(at[k]) \in Nat
    OBVIOUS
  <2>4. QED
    BY <2>1, <2>2, <2>3 DEF Continues
<1>3. L - m \in N
  <2>1. L - m \in Nat
    OBVIOUS
  <2> HIDE DEF N
  <2>2. QED
    BY <1>1, <1>2, <2>1, SetInduction
<1>4. m + (L - m) = L
  OBVIOUS
<1>5. QED
  BY <1>3, <1>4

\* A stage at which no claim stands yet, when no stage starts one, leaves none at the end.
LEMMA EmptyStays ==
  ASSUME NEW L \in Nat, NEW at, NEW m \in 0..L, at[m] = <<>>,
         \A n \in 1..L : at[n - 1] = <<>> => at[n] = <<>>
  PROVE  at[L] = <<>>
<1> DEFINE N == {n \in Nat : m + n <= L => at[m + n] = <<>>}
<1>1. 0 \in N
  <2>1. m + 0 = m
    OBVIOUS
  <2>2. QED
    BY <2>1
<1>2. \A n \in Nat : n \in N => n + 1 \in N
  <2> SUFFICES ASSUME NEW n \in Nat, n \in N PROVE n + 1 \in N
    OBVIOUS
  <2>1. CASE m + (n + 1) <= L
    <3>1. m + n <= L /\ m + (n + 1) \in 1..L /\ (m + (n + 1)) - 1 = m + n
      BY <2>1
    <3>2. at[m + n] = <<>>
      BY <3>1
    <3>3. at[m + (n + 1)] = <<>>
      BY <3>1, <3>2
    <3>4. n + 1 \in Nat
      OBVIOUS
    <3>5. QED
      BY <3>3, <3>4
  <2>2. CASE ~(m + (n + 1) <= L)
    <3>1. n + 1 \in Nat
      OBVIOUS
    <3>2. QED
      BY <2>2, <3>1
  <2>3. QED
    BY <2>1, <2>2
<1>3. L - m \in N
  <2>1. L - m \in Nat
    OBVIOUS
  <2> HIDE DEF N
  <2>2. QED
    BY <1>1, <1>2, <2>1, SetInduction
<1>4. m + (L - m) = L
  OBVIOUS
<1>5. QED
  BY <1>3, <1>4

\* With no claim to stay with, no unit is eligible and a facet adds none.
LEMMA NothingCovers ==
  ASSUME NEW U, NEW units \in Seq(U), NEW facet
  PROVE  Cover(units, <<>>, facet) = <<>>
<1>1. NamedBy(<<>>) = {} /\ Cited(<<>>) = {}
  BY DEF NamedBy, Cited
<1>2. Eligible(units, <<>>, facet) \in Seq(U) /\ ToSet(Eligible(units, <<>>, facet)) = {}
  BY <1>1, KeepIs DEF Eligible
<1>3. \A t \in Seq(U) : t # <<>> => t[1] \in ToSet(t)
  BY DEF ToSet
<1>4. Eligible(units, <<>>, facet) = <<>>
  BY <1>2, <1>3
<1>5. QED
  BY <1>4 DEF Cover

\* A facet that no claim covers, though there was room for another: no unit of the first
\* claim's record, or of a record it names, covers it without repeating a claim.
LEMMA GapsAreReal ==
  ASSUME NEW U, NEW q, NEW units \in Seq(U), NEW picked \in Seq(U),
         NEW G, q.facets \in Seq(G),
         NEW claims, claims = CoverFacets(q, units, picked),
         claims # <<>>, Len(claims) < 5,
         NEW facet \in ToSet(q.facets), facet \notin Covered(claims),
         NEW u \in ToSet(units), facet \in u.covers, u.score > 0,
         u.record \in {claims[1].record} \union claims[1].names
  PROVE  Restates(claims, u)
<1> DEFINE L == Len(q.facets)
<1>1. PICK at : CoversAlong(at, q, units, picked)
  BY CoverSteps
<1>2. L \in Nat /\ DOMAIN q.facets = 1..L
  OBVIOUS
<1>3. \A n \in 1..L : at[n] = Cover(units, at[n - 1], q.facets[n])
  BY <1>1 DEF CoversAlong
<1>4. at[0] = picked /\ claims = at[L]
  BY <1>1 DEF CoversAlong
<1>5. PICK j \in 1..L : q.facets[j] = facet
  BY <1>2 DEF ToSet
<1> HIDE DEF L
<1>6. \A n \in 0..L : at[n] \in Seq(U)
  <2>1. \A n \in 1..L : at[n - 1] \in Seq(U) => at[n] \in Seq(U)
    BY <1>3, CoverContinues
  <2>2. QED
    BY <1>2, <1>4, <2>1, StepsIn
<1>7. \A n \in 1..L : Continues(at[n - 1], at[n])
  <2> SUFFICES ASSUME NEW n \in 1..L PROVE Continues(at[n - 1], at[n])
    OBVIOUS
  <2>1. n - 1 \in 0..L
    BY <1>2
  <2>2. QED
    BY <1>3, <1>6, <2>1, CoverContinues
<1>8. \A m \in 0..L : Continues(at[m], claims)
  BY <1>2, <1>4, <1>6, <1>7, StepsContinue
<1> DEFINE before == at[j - 1]
           after == at[j]
<1>9. /\ before \in Seq(U) /\ Continues(before, claims) /\ Continues(before, after)
      /\ after \in Seq(U) /\ Continues(after, claims) /\ after = Cover(units, before, facet)
  <2>1. j - 1 \in 0..L /\ j \in 0..L /\ j \in 1..L
    BY <1>2, <1>5
  <2>2. QED
    BY <1>3, <1>5, <1>6, <1>7, <1>8, <2>1
<1>10. before # <<>>
  <2>1. j - 1 \in 0..L /\ L \in Nat
    BY <1>2
  <2>2. \A n \in 1..L : at[n - 1] = <<>> => at[n] = <<>>
    BY <1>3, NothingCovers
  <2>3. before = <<>> => at[L] = <<>>
    BY <2>1, <2>2, EmptyStays
  <2>4. QED
    BY <1>4, <2>3
<1> HIDE DEF before, after
<1>11. /\ Len(before) \in Nat \ {0} /\ DOMAIN before = 1..Len(before)
       /\ Len(claims) \in Nat /\ DOMAIN claims = 1..Len(claims)
       /\ Len(after) \in Nat /\ DOMAIN after = 1..Len(after)
  <2>1. claims \in Seq(U)
    BY <1>2, <1>4, <1>6
  <2>2. QED
    BY <1>9, <1>10, <2>1
<1>12. \A i \in DOMAIN before : i \in DOMAIN claims /\ claims[i] = before[i]
  BY <1>9, <1>11 DEF Continues
<1>13. \A i \in DOMAIN after : i \in DOMAIN claims /\ claims[i] = after[i]
  BY <1>9, <1>11 DEF Continues
<1>14. Len(before) < 5 /\ facet \notin Covered(before) /\ facet \notin Covered(after)
  <2>1. Len(before) <= Len(claims)
    BY <1>9 DEF Continues
  <2>2. QED
    BY <1>11, <1>12, <1>13, <2>1 DEF Covered
<1>15. after = before
  <2> SUFFICES ASSUME after # before PROVE FALSE
    OBVIOUS
  <2>1. PICK v \in U : after = Append(before, v) /\ facet \in v.covers
    BY <1>9, CoverIs
  <2>2. Len(before) + 1 \in DOMAIN after /\ after[Len(before) + 1] = v
    BY <1>9, <2>1
  <2>3. QED
    BY <1>14, <2>1, <2>2 DEF Covered
<1>16. Eligible(units, before, facet) = <<>>
  <2> SUFFICES ASSUME Eligible(units, before, facet) # <<>> PROVE FALSE
    OBVIOUS
  <2>1. \E v : after = Append(before, v)
    <3> DEFINE eligible == Eligible(units, before, facet)
               joined == Keep(eligible, {v \in ToSet(eligible) : v.record \in NamedBy(before)})
    <3>1. ~(Len(before) >= 5)
      BY <1>11, <1>14
    <3>2. after = Append(before, IF joined # <<>> THEN joined[1] ELSE eligible[1])
      BY <1>9, <1>14, <3>1 DEF Cover
    <3> HIDE DEF eligible, joined
    <3>3. QED
      BY <3>2
  <2>2. \A v : Append(before, v) # before
    <3> SUFFICES ASSUME NEW v, Append(before, v) = before PROVE FALSE
      OBVIOUS
    <3>1. Len(Append(before, v)) = Len(before) + 1
      BY <1>9
    <3>2. QED
      BY <1>11, <3>1
  <2>3. QED
    BY <1>15, <2>1, <2>2
<1>17. (u.record \in NamedBy(before) \/ u.record \in Cited(before)) /\ u.score > 0
  <2>1. 1 \in DOMAIN before /\ claims[1] = before[1]
    BY <1>11, <1>12
  <2>2. QED
    BY <2>1 DEF NamedBy, Cited
<1>18. Restates(before, u)
  <2>1. ToSet(<<>>) = {}
    BY DEF ToSet
  <2>2. QED
    BY <1>16, <1>17, <2>1, KeepIs DEF Eligible
<1>19. QED
  BY <1>12, <1>18 DEF Restates

(***************************************************************************)
(* The records an answer looks at.                                         *)
(***************************************************************************)
LEMMA FirstIs ==
  ASSUME NEW Y, NEW s \in Seq(Y), NEW n \in Nat
  PROVE  First(n, s) \in Seq(Y) /\ ToSet(First(n, s)) \subseteq ToSet(s)
<1> DEFINE m == AtMost(n, Len(s))
<1>1. m \in 0..Len(s) /\ Len(s) \in Nat
  BY DEF AtMost
<1> HIDE DEF m
<1>2. /\ SubSeq(s, 1, m) \in Seq(Y)
      /\ DOMAIN SubSeq(s, 1, m) \subseteq DOMAIN s
      /\ \A i \in DOMAIN SubSeq(s, 1, m) : SubSeq(s, 1, m)[i] = s[i]
  BY <1>1
<1>3. ToSet(SubSeq(s, 1, m)) \subseteq ToSet(s)
  BY <1>2 DEF ToSet
<1>4. QED
  BY <1>2, <1>3 DEF First, m

LEMMA PoolIs ==
  ASSUME NEW q, q.ranking \in Seq(Records), NEW retrieved
  PROVE  /\ Pool(q, retrieved) \in Seq(Records)
         /\ ToSet(Pool(q, retrieved)) \subseteq retrieved
<1>1. /\ Relevant(q, retrieved) \in Seq(Records)
      /\ ToSet(Relevant(q, retrieved)) \subseteq retrieved
  BY KeepIs DEF Relevant
<1>2. /\ Keep(q.ranking, retrieved) \in Seq(Records)
      /\ ToSet(Keep(q.ranking, retrieved)) \subseteq retrieved
  BY KeepIs
<1>3. /\ First(3, Keep(q.ranking, retrieved)) \in Seq(Records)
      /\ ToSet(First(3, Keep(q.ranking, retrieved))) \subseteq retrieved
  BY <1>2, FirstIs
<1>4. QED
  BY <1>1, <1>3 DEF Pool

LEMMA RankIs ==
  ASSUME NEW q, q.ranking \in Seq(Records), NEW retrieved, NEW spared
  PROVE  /\ RankEvidence(q, retrieved, spared) \in Seq(Records)
         /\ ToSet(RankEvidence(q, retrieved, spared)) \subseteq retrieved
         /\ spared \subseteq Reserved(q, Pool(q, retrieved)) =>
              spared \subseteq ToSet(RankEvidence(q, retrieved, spared))
<1> DEFINE pool == Pool(q, retrieved)
           reserved == Reserved(q, pool)
<1>1. pool \in Seq(Records) /\ ToSet(pool) \subseteq retrieved
  BY PoolIs
<1>2. reserved \subseteq ToSet(pool)
  BY DEF Reserved, ToSet
<1>3. PICK others : RankEvidence(q, retrieved, spared) = Keep(pool, spared \union others)
  BY DEF RankEvidence
<1> HIDE DEF pool, reserved
<1>4. /\ Keep(pool, spared \union others) \in Seq(Records)
      /\ ToSet(Keep(pool, spared \union others)) = ToSet(pool) \intersect (spared \union others)
  BY <1>1, KeepIs
<1>5. QED
  BY <1>1, <1>2, <1>3, <1>4 DEF pool, reserved

\* Where a reserved record lost its slot, the records looked at are those that kept theirs.
LEMMA RankIsFull ==
  ASSUME NEW q, q.ranking \in Seq(Records), NEW retrieved,
         NEW spared \in Spared(q, retrieved), spared # Reserved(q, Pool(q, retrieved))
  PROVE  /\ ToSet(RankEvidence(q, retrieved, spared)) = spared
         /\ Cardinality(spared) = Slots
<1> DEFINE pool == Pool(q, retrieved)
           reserved == Reserved(q, pool)
           others == Keep(pool, ToSet(pool) \ reserved)
<1>1. pool \in Seq(Records) /\ reserved \subseteq ToSet(pool)
  BY PoolIs DEF Reserved, ToSet
<1>2. spared \subseteq reserved /\ Cardinality(spared) = Slots
  BY DEF Spared, Slices
<1>3. Slots \in Nat
  BY SynthesisAssumption
<1>4. others \in Seq(Records)
  <2> HIDE DEF pool, reserved
  <2>1. QED
    BY <1>1, KeepIs
<1>5. ToSet(First(Slots - Cardinality(spared), others)) = {}
  <2> HIDE DEF others
  <2>1. Slots - Cardinality(spared) = 0
    BY <1>2, <1>3
  <2>2. AtMost(0, Len(others)) = 0
    BY <1>4 DEF AtMost
  <2>3. DOMAIN SubSeq(others, 1, 0) = {}
    BY <1>4
  <2>4. QED
    BY <2>1, <2>2, <2>3 DEF First, ToSet
<1>6. RankEvidence(q, retrieved, spared) =
        Keep(pool, spared \union ToSet(First(Slots - Cardinality(spared), others)))
  BY DEF RankEvidence
<1> HIDE DEF pool, reserved, others
<1>7. RankEvidence(q, retrieved, spared) = Keep(pool, spared)
  BY <1>5, <1>6
<1>8. ToSet(Keep(pool, spared)) = ToSet(pool) \intersect spared
  BY <1>1, KeepIs
<1>9. QED
  BY <1>1, <1>2, <1>7, <1>8

\* The best relevant record of a provider the question names is reserved.
LEMMA ReservedIsHeard ==
  ASSUME NEW q, q.ranking \in Seq(Records), NEW retrieved,
         NEW r \in retrieved, r \in q.relevant, r \in ToSet(q.ranking), ProviderOf[r] \in q.named
  PROVE  \E x \in Reserved(q, Pool(q, retrieved)) : ProviderOf[x] = ProviderOf[r]
<1> DEFINE pool == Relevant(q, retrieved)
<1>1. pool \in Seq(Records) /\ r \in ToSet(pool)
  BY KeepIs DEF Relevant
<1>2. Pool(q, retrieved) = pool
  <2>1. pool # <<>>
    BY <1>1 DEF ToSet
  <2>2. QED
    BY <2>1 DEF Pool
<1> HIDE DEF pool
<1> DEFINE T == {i \in DOMAIN pool : ProviderOf[pool[i]] = ProviderOf[r]}
<1>3. Len(pool) \in Nat /\ DOMAIN pool = 1..Len(pool)
  BY <1>1
<1>4. T \in SUBSET Nat /\ T # {}
  BY <1>1, <1>3 DEF ToSet
<1>5. PICK i \in T : \A j \in T : ~(j < i)
  BY <1>4, Least
<1>6. \A k \in 1..(i - 1) : ProviderOf[pool[k]] # ProviderOf[pool[i]]
  BY <1>3, <1>5
<1>7. pool[i] \in Reserved(q, pool)
  BY <1>5, <1>6 DEF Reserved
<1>8. QED
  BY <1>2, <1>5, <1>7

(***************************************************************************)
(* Contradictions cite what was looked at.                                 *)
(***************************************************************************)
LEMMA HeadIsKept ==
  ASSUME NEW Y, NEW s \in Seq(Y), NEW S, Keep(s, S) # <<>>
  PROVE  Keep(s, S)[1] \in ToSet(s) \intersect S
<1>1. \A t \in Seq(Y) : t # <<>> => t[1] \in ToSet(t)
  BY DEF ToSet
<1>2. QED
  BY <1>1, KeepIs

LEMMA ContradictionsCite ==
  ASSUME NEW q, q.bridges \in Seq(Records), NEW ranked \in Seq(Records)
  PROVE  \A C \in Contradictions(q, ranked) : C \subseteq ToSet(ranked)
<1>1. \A C \in Supersession(ranked) : C \subseteq ToSet(ranked)
  <2> DEFINE S == {r \in ToSet(ranked) :
                     MovedFrom[r] # {} /\ Asserted(r) # {} /\ Stale(ranked, r) # {}}
             moved == Keep(ranked, S)
  <2>1. moved # <<>> => moved[1] \in ToSet(ranked)
    <3> HIDE DEF S
    <3>1. QED
      BY HeadIsKept
  <2>2. Stale(ranked, moved[1]) \subseteq ToSet(ranked)
    BY DEF Stale
  <2>3. Supersession(ranked) =
          IF moved = <<>> THEN {} ELSE {{moved[1]} \union Stale(ranked, moved[1])}
    BY DEF Supersession
  <2> HIDE DEF moved
  <2>4. QED
    BY <2>1, <2>2, <2>3
<1>2. \A C \in DateConflict(q, ranked) : C \subseteq ToSet(ranked)
  BY DEF DateConflict, ToSet
<1>3. \A C \in OpenThoughComplete(q, ranked) : C \subseteq ToSet(ranked)
  <2> DEFINE complete == Keep(ranked, Completes)
             open == Keep(ranked, {r \in StaysOpen : r \notin Completes \/ r = complete[1]})
             tracker == Keep(q.bridges, {r \in ToSet(ranked) :
                          complete[1] = open[1] /\ ProviderOf[r] # ProviderOf[complete[1]]})
  <2>1. complete # <<>> => complete[1] \in ToSet(ranked)
    BY HeadIsKept
  <2>2. open # <<>> => open[1] \in ToSet(ranked)
    BY HeadIsKept
  <2>3. ToSet(First(1, tracker)) \subseteq ToSet(ranked)
    <3>1. \A S \in SUBSET ToSet(ranked) :
            Keep(q.bridges, S) \in Seq(Records) /\ ToSet(Keep(q.bridges, S)) \subseteq ToSet(ranked)
      BY KeepIs
    <3>2. tracker \in Seq(Records) /\ ToSet(tracker) \subseteq ToSet(ranked)
      BY <3>1
    <3> HIDE DEF tracker
    <3>3. QED
      BY <3>2, FirstIs
  <2>4. OpenThoughComplete(q, ranked) =
          IF complete = <<>> \/ open = <<>> THEN {}
          ELSE {{complete[1], open[1]} \union ToSet(First(1, tracker))}
    BY DEF OpenThoughComplete
  <2> HIDE DEF complete, open, tracker
  <2>5. QED
    BY <2>1, <2>2, <2>3, <2>4
<1>4. QED
  BY <1>1, <1>2, <1>3 DEF Contradictions

\* The claims are copied out of the records that were looked at.
LEMMA CandidatesAre ==
  ASSUME NEW q, IsQuestion(q), NEW ranked \in Seq(Records)
  PROVE  LET units == Candidates(q, ranked) IN
         /\ units \in Seq(ToSet(units))
         /\ \A u \in ToSet(units) : u.record \in ToSet(ranked)
         /\ \A i \in DOMAIN q.units :
              q.units[i].record \in ToSet(ranked) => q.units[i] \in ToSet(units)
<1> DEFINE wanted == UNION {UnitsOf(q, r) : r \in ToSet(ranked)}
           units == Candidates(q, ranked)
<1>1. units \in Seq(ToSet(q.units)) /\ ToSet(units) = ToSet(q.units) \intersect wanted
  <2>1. q.units \in Seq(ToSet(q.units)) /\ units = Keep(q.units, wanted)
    BY DEF IsQuestion, Candidates
  <2> HIDE DEF wanted, units
  <2>2. QED
    BY <2>1, KeepIs
<1>2. units \in Seq(ToSet(units))
  <2>1. \A Y, s : s \in Seq(Y) => s \in Seq(ToSet(s))
    BY DEF ToSet
  <2>2. QED
    BY <1>1, <2>1
<1>3. \A u \in wanted : u.record \in ToSet(ranked)
  BY DEF UnitsOf
<1>4. \A i \in DOMAIN q.units : q.units[i].record \in ToSet(ranked) =>
        q.units[i] \in ToSet(q.units) /\ q.units[i] \in wanted
  <2> SUFFICES ASSUME NEW i \in DOMAIN q.units, NEW r \in ToSet(ranked), q.units[i].record = r
               PROVE  q.units[i] \in ToSet(q.units) /\ q.units[i] \in wanted
    OBVIOUS
  <2>1. q.units[i] \in ToSet(q.units)
    BY DEF ToSet
  <2>2. q.units[i] \in UnitsOf(q, r)
    BY DEF UnitsOf
  <2>3. QED
    BY <2>1, <2>2
<1> HIDE DEF wanted, units
<1>5. QED
  BY <1>1, <1>2, <1>3, <1>4 DEF units

LEMMA ClaimsAre ==
  ASSUME NEW q, IsQuestion(q), NEW ranked \in Seq(Records)
  PROVE  Claims(q, ranked) \in Distinct(ToSet(Candidates(q, ranked)))
<1> DEFINE units == Candidates(q, ranked)
           first == FirstPass(q, ranked, units)
<1>1. units \in Seq(ToSet(units)) /\ q.facets \in Seq(ToSet(q.facets))
  BY CandidatesAre DEF IsQuestion
<1>2. first \in Distinct(ToSet(units))
  <2> HIDE DEF units
  <2>1. QED
    BY <1>1, FirstPassDistinct
<1>3. Relax(units, first) \in Distinct(ToSet(units))
  <2> HIDE DEF units, first
  <2>1. QED
    BY <1>1, <1>2, RelaxDistinct
<1>4. CoverFacets(q, units, Relax(units, first)) \in Distinct(ToSet(units))
  <2> HIDE DEF units, first
  <2>1. QED
    BY <1>1, <1>3, CoverFacetsDistinct
<1>5. QED
  BY <1>4 DEF Claims

\* An answer cites records it was given, and no claim of it repeats another.
LEMMA SynthesisCites ==
  ASSUME NEW q, IsQuestion(q), NEW retrieved, NEW spared
  PROVE  LET synthesis == Synthesise(q, retrieved, spared) IN
         /\ Cited(synthesis.claims) \subseteq retrieved
         /\ UNION synthesis.contradictions \subseteq retrieved
         /\ \A i, j \in DOMAIN synthesis.claims :
              i # j => synthesis.claims[i].says \intersect synthesis.claims[j].says = {}
<1> DEFINE ranked == RankEvidence(q, retrieved, spared)
           claims == Claims(q, ranked)
<1>1. ranked \in Seq(Records) /\ ToSet(ranked) \subseteq retrieved
  BY RankIs DEF IsQuestion
<1>2. claims \in Distinct(ToSet(Candidates(q, ranked)))
  <2> HIDE DEF ranked
  <2>1. QED
    BY <1>1, ClaimsAre
<1>3. \A u \in ToSet(Candidates(q, ranked)) : u.record \in ToSet(ranked)
  <2> HIDE DEF ranked
  <2>1. QED
    BY <1>1, CandidatesAre
<1>4. \A C \in Contradictions(q, ranked) : C \subseteq ToSet(ranked)
  <2> HIDE DEF ranked
  <2>1. QED
    BY <1>1, ContradictionsCite DEF IsQuestion
<1>5. /\ Synthesise(q, retrieved, spared).claims = claims
      /\ Synthesise(q, retrieved, spared).contradictions = Contradictions(q, ranked)
  BY DEF Synthesise
<1> HIDE DEF ranked, claims
<1>6. Cited(claims) \subseteq retrieved
  <2>1. \A i \in DOMAIN claims : claims[i] \in ToSet(Candidates(q, ranked))
    BY <1>2 DEF Distinct
  <2>2. QED
    BY <1>1, <1>3, <2>1 DEF Cited
<1>7. UNION Contradictions(q, ranked) \subseteq retrieved
  BY <1>1, <1>4
<1>8. \A i, j \in DOMAIN claims : i # j => claims[i].says \intersect claims[j].says = {}
  BY <1>2 DEF Distinct
<1>9. QED
  BY <1>5, <1>6, <1>7, <1>8

\* A facet is reported missing only if no text of the first claim's records closes it.
LEMMA SynthesisGaps ==
  ASSUME NEW q, IsQuestion(q), NEW retrieved, NEW spared,
         NEW claims, claims = Synthesise(q, retrieved, spared).claims, claims # <<>>, Len(claims) < 5,
         NEW facet \in Synthesise(q, retrieved, spared).missing,
         NEW i \in DOMAIN q.units,
         q.units[i].record \in Synthesise(q, retrieved, spared).considered,
         facet \in q.units[i].covers, q.units[i].score > 0,
         q.units[i].record \in {claims[1].record} \union claims[1].names
  PROVE  Restates(claims, q.units[i])
<1> DEFINE ranked == RankEvidence(q, retrieved, spared)
           units == Candidates(q, ranked)
           first == FirstPass(q, ranked, units)
           picked == Relax(units, first)
<1>1. ranked \in Seq(Records)
  BY RankIs DEF IsQuestion
<1>2. /\ claims = CoverFacets(q, units, picked)
      /\ ToSet(ranked) = Synthesise(q, retrieved, spared).considered
      /\ Synthesise(q, retrieved, spared).missing = Missing(q, claims)
  BY DEF Synthesise, Claims
<1>3. /\ units \in Seq(ToSet(units))
      /\ q.units[i] \in ToSet(units)
  <2>1. q.units[i].record \in ToSet(ranked)
    BY <1>2
  <2> HIDE DEF ranked
  <2>2. QED
    BY <1>1, <2>1, CandidatesAre
<1>4. picked \in Seq(ToSet(units))
  <2> HIDE DEF ranked, units
  <2>1. first \in Distinct(ToSet(units))
    BY <1>3, FirstPassDistinct
  <2> HIDE DEF first
  <2>2. QED
    BY <1>3, <2>1, RelaxDistinct DEF Distinct
<1>5. facet \in ToSet(q.facets) /\ facet \notin Covered(claims)
  BY <1>2 DEF Missing, Uncovered
<1>6. q.facets \in Seq(ToSet(q.facets))
  BY DEF IsQuestion
<1> HIDE DEF ranked, units, first, picked
<1>7. QED
  BY <1>2, <1>3, <1>4, <1>5, <1>6, GapsAreReal

\* A provider the question names is among the records the synthesis looks at, or every one
\* of those is of another provider it names.
LEMMA NamedIsConsidered ==
  ASSUME NEW q, IsQuestion(q), NEW retrieved, NEW spared \in Spared(q, retrieved),
         NEW r \in retrieved, r \in Records, r \in q.relevant, ProviderOf[r] \in q.named,
         NEW considered, considered = Synthesise(q, retrieved, spared).considered
  PROVE  \/ \E x \in considered : ProviderOf[x] = ProviderOf[r]
         \/ /\ Cardinality(considered) = Slots
            /\ \A x \in considered : ProviderOf[x] \in q.named
            /\ \A x, y \in considered : ProviderOf[x] = ProviderOf[y] => x = y
<1> DEFINE pool == Pool(q, retrieved)
<1>1. q.ranking \in Seq(Records) /\ r \in ToSet(q.ranking)
  BY DEF IsQuestion
<1>2. considered = ToSet(RankEvidence(q, retrieved, spared)) /\ spared \subseteq Reserved(q, pool)
  BY DEF Synthesise, Spared, Slices
<1>3. CASE spared = Reserved(q, pool)
  <2>1. PICK x \in Reserved(q, pool) : ProviderOf[x] = ProviderOf[r]
    BY <1>1, ReservedIsHeard
  <2>2. QED
    BY <1>1, <1>2, <1>3, <2>1, RankIs
<1>4. CASE spared # Reserved(q, pool)
  <2>1. considered = spared /\ Cardinality(considered) = Slots
    BY <1>1, <1>2, <1>4, RankIsFull
  <2>2. pool \in Seq(Records)
    BY <1>1, PoolIs
  <2> HIDE DEF pool
  <2>3. \A x \in Reserved(q, pool) : ProviderOf[x] \in q.named
    BY DEF Reserved
  <2>4. ASSUME NEW x \in Reserved(q, pool), NEW y \in Reserved(q, pool),
               ProviderOf[x] = ProviderOf[y]
        PROVE  x = y
    <3>1. PICK i \in DOMAIN pool :
            x = pool[i] /\ \A k \in 1..(i - 1) : ProviderOf[pool[k]] # ProviderOf[pool[i]]
      BY DEF Reserved
    <3>2. PICK j \in DOMAIN pool :
            y = pool[j] /\ \A k \in 1..(j - 1) : ProviderOf[pool[k]] # ProviderOf[pool[j]]
      BY DEF Reserved
    <3>3. i \in Nat \ {0} /\ j \in Nat \ {0}
      BY <2>2
    <3>4. ~(i < j)
      <4>1. i < j => i \in 1..(j - 1)
        BY <3>3
      <4>2. QED
        BY <2>4, <3>1, <3>2, <4>1
    <3>5. ~(j < i)
      <4>1. j < i => j \in 1..(i - 1)
        BY <3>3
      <4>2. QED
        BY <2>4, <3>1, <3>2, <4>1
    <3>6. i = j
      BY <3>3, <3>4, <3>5
    <3>7. QED
      BY <3>1, <3>2, <3>6
  <2>5. QED
    BY <1>2, <2>1, <2>3, <2>4
<1>5. QED
  BY <1>3, <1>4

(***************************************************************************)
(* The inductive invariant of a search.                                    *)
(***************************************************************************)
\* What makes an attribution sound.
Sound(e) ==
  \/ e[2] = Bundled /\ ~FromHydra
  \/ e[2] = Upload /\ e[1] \in scope.documents
  \/ /\ e[2] \in chosen
     /\ \/ Origin[e[1]] = e[2]
        \/ Lineage[e[1]] = "resource" /\ ResourceOf[e[1]] \in snapshot[e[2]]
        \/ ~({Origin[e[1]], e[2]} \subseteq peers)

\* Nothing is kept before the scope was read; what is kept is attributed soundly.
KeptInv ==
  /\ pc \in {"idle", "scope", "resources", "count", "open", "corpus"} => accepted = {}
  /\ \A e \in accepted : Sound(e)

\* The bundled corpus answers only where no connector was read, and the documents of a
\* scope that was read are documents.
ScopeInv ==
  /\ pc = "corpus" => ~FromHydra
  /\ pc \in {"resources", "count", "open", "retrieve", "answered"} /\ ~Public =>
       scope.documents \subseteq Documents

\* Every place that has something of the scope is asked, and none is left unanswered.
LaneInv ==
  FromHydra =>
    /\ pc \in {"retrieve", "answered"} => \A p \in Queried : lane[p] # "off"
    /\ pc = "answered" => \A p \in Places : lane[p] # "asked"

Presented == {e \in accepted : Presentable(e)}

\* The answer is the synthesis of a cut of what was found.
AnswersFrom(found, partial) ==
  \E examined \in Cuts(found) :
    \E spared \in Spared(question, RecordsOf(examined)) :
      answer = AnswerFrom(examined, spared, partial)

AnswerInv ==
  IF pc = "answered" THEN
    \E found \in SUBSET accepted, partial \in BOOLEAN :
      /\ AnswersFrom(found, partial)
      /\ Presented \subseteq found
      /\ FromHydra => found = Presented /\ partial = (\E p \in Places : lane[p] = "failed")
  ELSE answer = NoAnswer

SearchInv == McpTypeOK /\ KeptInv /\ ScopeInv /\ LaneInv /\ AnswerInv

\* Whom a record is attributed to was asked for it.
LEMMA OwnersAsked ==
  ASSUME McpTypeOK, NEW p, NEW r \in Records
  PROVE  Owners(p, r) \subseteq Group(p) /\ Group(p) \subseteq chosen /\ chosen \subseteq Connectors
<1>1. Group(p) \subseteq Asked /\ Asked \subseteq chosen /\ chosen \subseteq Connectors
  BY DEF Group, Asked, McpTypeOK
<1>2. Attested(p, r) \subseteq Group(p)
  BY DEF Attested
<1>3. Lineage[r] \in {"connector", "resource", "none"}
  BY McpAssumption
<1>4. Strict(p, r) \subseteq Group(p)
  BY <1>3 DEF Strict
<1>5. QED
  BY <1>1, <1>2, <1>4 DEF Owners

LEMMA AcceptedTypes ==
  ASSUME McpTypeOK, NEW p, NEW returned \in SUBSET Returnable(p)
  PROVE  Accepted(p, returned) \subseteq Records \X (Connectors \union {Upload, Bundled})
<1>1. returned \subseteq Records
  BY DEF Returnable
<1>2. \A r \in returned : Owners(p, r) # {} => (CHOOSE c \in Owners(p, r) : TRUE) \in Connectors
  BY <1>1, OwnersAsked
<1>3. QED
  BY <1>1, <1>2 DEF Accepted

\* An answer presents evidence that was found.
LEMMA FinalAnswer ==
  ASSUME NEW found, NEW partial, Finalise(found, partial)
  PROVE  /\ DOMAIN answer' = DOMAIN NoAnswer
         /\ answer'.evidence \subseteq answer'.examined
         /\ answer'.examined \subseteq found
BY DEF Finalise, Cuts, Slices, AnswerFrom, NoAnswer

LEMMA McpTypes ==
  McpTypeOK /\ [McpNext]_mcpVars => McpTypeOK'
<1> SUFFICES ASSUME McpTypeOK, [McpNext]_mcpVars PROVE McpTypeOK'
  OBVIOUS
<1> USE DEF McpTypeOK, SearchMoves, rows, input, reads, retrieval, search
<1>1. CASE Ask
  BY <1>1 DEF Ask, PcStates
<1>2. CASE ReadConnectors
  BY <1>2 DEF ReadConnectors, PcStates
<1>3. CASE ReadPublicConnectors
  BY <1>3 DEF ReadPublicConnectors, PcStates
<1>4. CASE ReadDocuments
  BY <1>4 DEF ReadDocuments, PcStates
<1>5. CASE ReadResources
  BY <1>5 DEF ReadResources, PcStates
<1>6. CASE CountPeers
  BY <1>6 DEF CountPeers, PcStates
<1>7. CASE ReadFails
  BY <1>7 DEF ReadFails, PcStates
<1>8. CASE OpenClient
  BY <1>8 DEF OpenClient, PcStates
<1>9. ASSUME NEW p \in Places, NEW returned \in SUBSET Returnable(p), Reply(p, returned)
      PROVE  McpTypeOK'
  <2>1. Accepted(p, returned) \subseteq Records \X (Connectors \union {Upload, Bundled})
    BY AcceptedTypes
  <2>2. accepted' = accepted \union Accepted(p, returned)
    BY <1>9 DEF Reply
  <2>3. QED
    BY <1>9, <2>1, <2>2 DEF Reply
<1>10. ASSUME NEW p \in Places, QueryFails(p) PROVE McpTypeOK'
  BY <1>10 DEF QueryFails
<1>11. CASE Finish
  <2>1. CASE UNCHANGED answer
    BY <1>11, <2>1 DEF Finish, PcStates
  <2>2. CASE Finalise({e \in accepted : Presentable(e)},
                      Partial({p \in Places : lane[p] = "failed"}))
    <3>1. /\ DOMAIN answer' = DOMAIN NoAnswer
          /\ answer'.evidence \subseteq answer'.examined /\ answer'.examined \subseteq accepted
      BY <2>2, FinalAnswer
    <3>2. QED
      BY <1>11, <3>1 DEF Finish, PcStates
  <2>3. QED
    BY <1>11, <2>1, <2>2 DEF Finish
<1>12. CASE SearchCorpus
  <2>1. PICK hits \in SUBSET Records : accepted' = {<<r, Bundled>> : r \in hits}
    BY <1>12 DEF SearchCorpus, Hits, Corpus
  <2>2. accepted' \subseteq Records \X (Connectors \union {Upload, Bundled})
    BY <2>1
  <2>3. /\ DOMAIN answer' = DOMAIN NoAnswer
        /\ answer'.evidence \subseteq answer'.examined /\ answer'.examined \subseteq accepted'
    BY <1>12, FinalAnswer DEF SearchCorpus
  <2>4. pc' \in PcStates
    BY <1>12 DEF SearchCorpus, PcStates
  <2>5. QED
    BY <1>12, <2>2, <2>3, <2>4 DEF SearchCorpus
<1>13. ASSUME NEW s \in Syncs, FindConnector(s) PROVE McpTypeOK'
  BY <1>13 DEF FindConnector, SyncMoves
<1>14. ASSUME NEW s \in Syncs, CallSync(s) PROVE McpTypeOK'
  BY <1>14 DEF CallSync, SyncMoves
<1>15. ASSUME NEW s \in Syncs, NEW o \in Outcomes, StoreSync(s, o) PROVE McpTypeOK'
  BY <1>15 DEF StoreSync, SyncMoves
<1>16. ASSUME NEW c \in Connectors, Verify(c) PROVE McpTypeOK'
  BY <1>16, McpAssumption DEF Verify, Change
<1>17. ASSUME NEW c \in Connectors, NEW x \in Resources, Configure(c, x) PROVE McpTypeOK'
  BY <1>17, McpAssumption DEF Configure, Change
<1>18. CASE UNCHANGED mcpVars
  BY <1>18 DEF mcpVars
<1>19. QED
  BY <1>1, <1>2, <1>3, <1>4, <1>5, <1>6, <1>7, <1>8, <1>9, <1>10, <1>11, <1>12,
     <1>13, <1>14, <1>15, <1>16, <1>17, <1>18 DEF McpNext

\* What was kept stays as it was while the search does not move.
LEMMA SearchStands ==
  ASSUME UNCHANGED search
  PROVE  /\ KeptInv => KeptInv'
         /\ ScopeInv => ScopeInv'
         /\ LaneInv => LaneInv'
         /\ AnswerInv => AnswerInv'
<1> USE DEF search, input, reads, retrieval
<1>1. KeptInv => KeptInv'
  BY DEF KeptInv, Sound, FromHydra, Public
<1>2. ScopeInv => ScopeInv'
  BY DEF ScopeInv, FromHydra, Public
<1>3. LaneInv => LaneInv'
  BY DEF LaneInv, FromHydra, Public, Queried, Group, Asked, Wanted, Narrow, NamedInScope
<1>4. AnswerInv => AnswerInv'
  <2>1. Presented' = Presented /\ FromHydra' = FromHydra /\ Limit' = Limit
    BY DEF Presented, Presentable, Limit, FromHydra, Public, Narrow, NamedInScope
  <2>2. \A found, partial : AnswersFrom(found, partial) => AnswersFrom(found, partial)'
    BY <2>1 DEF AnswersFrom, Cuts, AnswerFrom
  <2>3. QED
    BY <2>1, <2>2 DEF AnswerInv
<1>5. QED
  BY <1>1, <1>2, <1>3, <1>4

LEMMA OthersMove ==
  ASSUME [McpNext]_mcpVars,
         ~Ask, ~ReadConnectors, ~ReadPublicConnectors, ~ReadDocuments, ~ReadResources,
         ~CountPeers, ~ReadFails, ~OpenClient,
         \A p \in Places, returned \in SUBSET Records : ~Reply(p, returned),
         \A p \in Places : ~QueryFails(p),
         ~Finish, ~SearchCorpus
  PROVE  UNCHANGED search
<1>1. \A p \in Places : Returnable(p) \subseteq Records
  BY DEF Returnable
<1>2. ASSUME NEW s \in Syncs, FindConnector(s) \/ CallSync(s) PROVE UNCHANGED search
  BY <1>2 DEF FindConnector, CallSync
<1>3. ASSUME NEW s \in Syncs, NEW o \in Outcomes, StoreSync(s, o) PROVE UNCHANGED search
  BY <1>3 DEF StoreSync
<1>4. ASSUME NEW c \in Connectors, Verify(c) PROVE UNCHANGED search
  BY <1>4 DEF Verify
<1>5. ASSUME NEW c \in Connectors, NEW x \in Resources, Configure(c, x) PROVE UNCHANGED search
  BY <1>5 DEF Configure
<1>6. CASE UNCHANGED mcpVars
  BY <1>6 DEF mcpVars
<1>7. QED
  BY <1>1, <1>2, <1>3, <1>4, <1>5, <1>6 DEF McpNext

\* A reply is attributed to whom it belongs.
LEMMA AttributionSound ==
  ASSUME McpTypeOK, NEW p \in Places, NEW returned \in SUBSET Returnable(p),
         NEW e \in Accepted(p, returned)
  PROVE  Sound(e)
<1>1. CASE e \in {<<r, Upload>> : r \in returned \intersect Wanted(p)}
  BY <1>1 DEF Wanted, Sound
<1>2. CASE e \in {<<r, CHOOSE c \in Owners(p, r) : TRUE>> :
                    r \in {s \in returned : Group(p) # {} /\ Owners(p, s) # {}}}
  <2>1. PICK r \in returned : Owners(p, r) # {} /\ e = <<r, CHOOSE c \in Owners(p, r) : TRUE>>
    BY <1>2
  <2>2. PICK c \in Owners(p, r) : e = <<r, c>>
    BY <2>1
  <2>3. r \in Records
    BY DEF Returnable
  <2>4. c \in Group(p) /\ c \in chosen /\ c \in Connectors
    BY <2>2, <2>3, OwnersAsked
  <2>5. CASE c \in Strict(p, r)
    <3>1. Lineage[r] \in {"connector", "resource", "none"}
      BY <2>3, McpAssumption
    <3>2. \/ Origin[r] = c
          \/ Lineage[r] = "resource" /\ ResourceOf[r] \in snapshot[c]
      <4>1. CASE Lineage[r] = "connector"
        BY <2>5, <4>1 DEF Strict
      <4>2. CASE Lineage[r] = "resource"
        BY <2>5, <4>2 DEF Strict
      <4>3. CASE Lineage[r] = "none"
        BY <2>5, <4>3 DEF Strict
      <4>4. QED
        BY <3>1, <4>1, <4>2, <4>3
    <3>3. QED
      BY <2>2, <2>4, <3>2 DEF Sound
  <2>6. CASE c \in Attested(p, r)
    <3> DEFINE alike == {d \in peers : ConnectorProvider[d] = ConnectorProvider[c]}
    <3>1. Group(p) = {c} /\ Cardinality(alike) = 1
      BY <2>6 DEF Attested
    <3>2. Origin[r] \in Connectors /\ ProviderOf[r] = ConnectorProvider[c]
      BY <2>4, <3>1 DEF Returnable
    <3>3. ConnectorProvider[Origin[r]] = ConnectorProvider[c]
      BY <2>3, <3>2, McpAssumption
    <3>4. IsFiniteSet(alike)
      BY McpAssumption, FS_Subset DEF McpTypeOK
    <3>5. PICK x : alike = {x}
      <4> HIDE DEF alike
      <4>1. QED
        BY <3>1, <3>4, FS_Singleton
    <3>6. Origin[r] \in peers /\ c \in peers => Origin[r] = c
      <4>1. Origin[r] \in peers => Origin[r] \in alike
        BY <3>3
      <4>2. c \in peers => c \in alike
        OBVIOUS
      <4>3. QED
        BY <3>5, <4>1, <4>2
    <3>7. Origin[r] = c \/ ~({Origin[r], c} \subseteq peers)
      BY <3>6
    <3>8. QED
      BY <2>2, <2>4, <3>7 DEF Sound
  <2>7. QED
    BY <2>2, <2>5, <2>6 DEF Owners
<1>3. QED
  BY <1>1, <1>2 DEF Accepted

LEMMA KeptStep ==
  ASSUME McpTypeOK, KeptInv, ScopeInv, [McpNext]_mcpVars
  PROVE  KeptInv'
<1> USE DEF SearchMoves, rows, input, reads, retrieval
<1>1. CASE \/ Ask \/ ReadConnectors \/ ReadPublicConnectors \/ ReadDocuments
           \/ ReadResources \/ CountPeers \/ ReadFails \/ OpenClient
  <2>1. accepted = {}
    BY <1>1 DEF KeptInv, Ask, ReadConnectors, ReadPublicConnectors, ReadDocuments,
       ReadResources, CountPeers, ReadFails, OpenClient
  <2>2. accepted' = accepted
    BY <1>1 DEF Ask, ReadConnectors, ReadPublicConnectors, ReadDocuments,
       ReadResources, CountPeers, ReadFails, OpenClient
  <2>3. QED
    BY <2>1, <2>2 DEF KeptInv
<1>2. ASSUME NEW p \in Places, NEW returned \in SUBSET Returnable(p), Reply(p, returned)
      PROVE  KeptInv'
  <2>1. pc' = "retrieve" /\ accepted' = accepted \union Accepted(p, returned)
    BY <1>2 DEF Reply
  <2>2. \A e \in accepted' : Sound(e)
    BY <2>1, AttributionSound DEF KeptInv
  <2>3. QED
    BY <1>2, <2>1, <2>2 DEF KeptInv, Reply, Sound, FromHydra, Public
<1>3. CASE Finish \/ \E p \in Places : QueryFails(p)
  BY <1>3 DEF KeptInv, Finish, QueryFails, Sound, FromHydra, Public
<1>4. CASE SearchCorpus
  <2>1. pc' = "answered" /\ ~FromHydra' /\ \E hits : accepted' = {<<r, Bundled>> : r \in hits}
    BY <1>4 DEF SearchCorpus, ScopeInv, FromHydra, Public
  <2>2. QED
    BY <2>1 DEF KeptInv, Sound
<1>5. CASE UNCHANGED search
  BY <1>5, SearchStands
<1>6. QED
  BY <1>1, <1>2, <1>3, <1>4, <1>5 DEF McpNext, FindConnector, CallSync, StoreSync, Verify,
     Configure, mcpVars

LEMMA ScopeStep ==
  ASSUME McpTypeOK, ScopeInv, [McpNext]_mcpVars
  PROVE  ScopeInv'
<1> USE DEF SearchMoves, rows, input, reads, retrieval, ScopeInv, FromHydra, Public
<1>1. CASE Ask \/ CountPeers \/ ReadResources \/ OpenClient
  BY <1>1 DEF Ask, CountPeers, ReadResources, OpenClient
<1>2. CASE ReadConnectors
  BY <1>2 DEF ReadConnectors
<1>3. CASE ReadPublicConnectors
  BY <1>3 DEF ReadPublicConnectors
<1>4. CASE ReadDocuments
  BY <1>4 DEF ReadDocuments, McpTypeOK
<1>5. CASE ReadFails
  BY <1>5 DEF ReadFails
<1>6. CASE Finish \/ \E p \in Places : QueryFails(p) \/ \E x \in SUBSET Returnable(p) : Reply(p, x)
  BY <1>6 DEF Finish, QueryFails, Reply
<1>7. CASE SearchCorpus
  BY <1>7 DEF SearchCorpus
<1>8. CASE UNCHANGED search
  BY <1>8, SearchStands
<1>9. QED
  BY <1>1, <1>2, <1>3, <1>4, <1>5, <1>6, <1>7, <1>8 DEF McpNext, FindConnector, CallSync,
     StoreSync, Verify, Configure, mcpVars

LEMMA LaneStep ==
  ASSUME McpTypeOK, ScopeInv, LaneInv, [McpNext]_mcpVars
  PROVE  LaneInv'
<1> USE DEF SearchMoves, rows, input, reads, retrieval, LaneInv
<1>1. CASE \/ Ask \/ ReadConnectors \/ ReadPublicConnectors \/ ReadDocuments
           \/ ReadResources \/ CountPeers \/ ReadFails
  BY <1>1 DEF Ask, ReadConnectors, ReadPublicConnectors, ReadDocuments,
     ReadResources, CountPeers, ReadFails
<1>2. CASE OpenClient
  <2>1. Queried' = Queried /\ Queried \subseteq Places
    BY <1>2 DEF OpenClient, Queried, Group, Asked, Wanted, Narrow, NamedInScope, Public, FromHydra
  <2>2. CASE pc' = "failed"
    BY <2>2
  <2>3. CASE pc' = "retrieve"
    <3>1. lane' = [p \in Places |-> IF p \in Queried THEN "asked" ELSE "off"]
      BY <1>2, <2>3 DEF OpenClient
    <3>2. QED
      BY <2>1, <2>3, <3>1
  <2>4. QED
    BY <1>2, <2>2, <2>3 DEF OpenClient
<1>3. ASSUME NEW p \in Places, QueryFails(p) \/ \E x \in SUBSET Returnable(p) : Reply(p, x)
      PROVE  LaneInv'
  <2>1. /\ pc = "retrieve" /\ pc' = pc /\ UNCHANGED <<input, chosen>>
        /\ \E to \in {"answered", "failed"} : lane' = [lane EXCEPT ![p] = to]
    BY <1>3 DEF QueryFails, Reply
  <2>2. Queried' = Queried /\ FromHydra' = FromHydra /\ Queried \subseteq Places
    BY <2>1 DEF Queried, Group, Asked, Wanted, Narrow, NamedInScope, Public, FromHydra
  <2>3. lane \in [Places -> {"off", "asked", "answered", "failed"}]
    BY DEF McpTypeOK
  <2>4. FromHydra => \A x \in Queried : lane'[x] # "off"
    BY <2>1, <2>2, <2>3
  <2>5. QED
    BY <2>1, <2>2, <2>4
<1>4. CASE Finish
  <2>1. Queried' = Queried /\ FromHydra' = FromHydra
    BY <1>4 DEF Finish, Queried, Group, Asked, Wanted, Narrow, NamedInScope, Public, FromHydra
  <2>2. QED
    BY <1>4, <2>1 DEF Finish
<1>5. CASE SearchCorpus
  BY <1>5 DEF SearchCorpus, ScopeInv, FromHydra, Public
<1>6. CASE UNCHANGED search
  BY <1>6, SearchStands
<1>7. QED
  BY <1>1, <1>2, <1>3, <1>4, <1>5, <1>6 DEF McpNext, FindConnector, CallSync, StoreSync,
     Verify, Configure, mcpVars

LEMMA AnswerIsMade ==
  ASSUME NEW found, NEW partial, Finalise(found, partial), UNCHANGED <<input, chosen>>
  PROVE  AnswersFrom(found, partial)'
<1>1. PICK examined \in Cuts(found) :
      \E spared \in Spared(question, RecordsOf(examined)) :
        answer' = AnswerFrom(examined, spared, partial)
  BY DEF Finalise
<1>2. Limit' = Limit /\ question' = question
  BY DEF input, Limit, Narrow, NamedInScope, FromHydra, Public
<1>3. QED
  BY <1>1, <1>2 DEF AnswersFrom, Cuts, AnswerFrom

LEMMA AnswerStep ==
  ASSUME McpTypeOK, KeptInv, ScopeInv, AnswerInv, [McpNext]_mcpVars
  PROVE  AnswerInv'
<1> USE DEF SearchMoves, rows, input, reads, retrieval
<1>1. CASE \/ Ask \/ ReadConnectors \/ ReadPublicConnectors \/ ReadDocuments
           \/ ReadResources \/ CountPeers \/ ReadFails \/ OpenClient
           \/ \E p \in Places : QueryFails(p) \/ \E x \in SUBSET Returnable(p) : Reply(p, x)
           \/ Finish /\ pc' # "answered"
  <2>1. pc # "answered" /\ pc' # "answered" /\ UNCHANGED answer
    BY <1>1 DEF Ask, ReadConnectors, ReadPublicConnectors, ReadDocuments, ReadResources,
       CountPeers, ReadFails, OpenClient, QueryFails, Reply, Finish
  <2>2. QED
    BY <2>1 DEF AnswerInv
<1>2. CASE Finish /\ pc' = "answered"
  <2> DEFINE partial == Partial({p \in Places : lane[p] = "failed"})
  <2>1. Finalise(Presented, partial)
    BY <1>2 DEF Finish, Presented
  <2>2. partial = (\E p \in Places : lane[p] = "failed")
    BY DEF Partial
  <2>3. /\ Presented' = Presented /\ FromHydra' = FromHydra /\ Presented' \subseteq accepted'
        /\ UNCHANGED <<input, chosen, lane>>
    BY <1>2 DEF Finish, Presented, Presentable, Narrow, NamedInScope, Public, FromHydra
  <2>4. AnswersFrom(Presented, partial)'
    <3> DEFINE presented == Presented
    <3>1. Finalise(presented, partial)
      BY <2>1
    <3>2. UNCHANGED <<input, chosen>>
      BY <2>3
    <3> QED
      BY <2>3, <3>1, <3>2, AnswerIsMade
  <2>5. QED
    BY <1>2, <2>2, <2>3, <2>4 DEF AnswerInv
<1>3. CASE SearchCorpus
  <2>1. ~FromHydra' /\ UNCHANGED <<input, chosen>>
    BY <1>3 DEF SearchCorpus, ScopeInv, FromHydra, Public
  <2>2. Finalise(accepted', FALSE)
    BY <1>3 DEF SearchCorpus
  <2>3. Presented' \subseteq accepted'
    BY DEF Presented
  <2>4. AnswersFrom(accepted, FALSE)'
    BY <2>1, <2>2, AnswerIsMade
  <2>5. QED
    BY <1>3, <2>1, <2>3, <2>4 DEF AnswerInv, SearchCorpus
<1>4. CASE UNCHANGED search
  BY <1>4, SearchStands
<1>5. QED
  BY <1>1, <1>2, <1>3, <1>4 DEF McpNext,
     FindConnector, CallSync, StoreSync, Verify, Configure, mcpVars

\* Every reachable state of a search has what its answer rests on: what was kept, from which
\* scope, by which lane, and what the answer was made of.
THEOREM SearchInvariant == McpSpec => []SearchInv
<1>1. McpInit => SearchInv
  <2> SUFFICES ASSUME McpInit PROVE SearchInv
    OBVIOUS
  <2>1. McpTypeOK
    <3>1. selected \in [Connectors -> SUBSET Resources]
      BY McpAssumption DEF McpInit
    <3>2. QED
      BY <3>1, McpAssumption DEF McpInit, McpTypeOK, PcStates, NoAnswer
  <2>2. QED
    BY <2>1 DEF McpInit, SearchInv, KeptInv, ScopeInv, LaneInv, AnswerInv
<1>2. SearchInv /\ [McpNext]_mcpVars => SearchInv'
  BY McpTypes, KeptStep, ScopeStep, LaneStep, AnswerStep DEF SearchInv
<1>3. QED
  BY <1>1, <1>2, PTL DEF McpSpec

\* What an answered search knows of its answer.
LEMMA AnswerIs ==
  ASSUME SearchInv, Answered
  PROVE  \E examined \in SUBSET accepted :
         \E spared \in Spared(question, RecordsOf(examined)) :
           /\ \A e \in Presented \ examined : Cardinality(examined) = Limit
           /\ FromHydra => /\ examined \subseteq Presented
                           /\ answer.partial = (\E p \in Places : lane[p] = "failed")
           /\ answer.examined = examined
           /\ answer.evidence = {e \in examined : e[1] \in CitedBy(answer)}
           /\ LET synthesis == Synthesise(question, RecordsOf(examined), spared) IN
              /\ answer.claims = synthesis.claims
              /\ answer.contradictions = synthesis.contradictions
              /\ answer.missing = synthesis.missing
              /\ answer.considered = synthesis.considered
<1>1. PICK found \in SUBSET accepted, partial \in BOOLEAN :
        /\ AnswersFrom(found, partial)
        /\ Presented \subseteq found
        /\ FromHydra => found = Presented /\ partial = (\E p \in Places : lane[p] = "failed")
  BY DEF SearchInv, AnswerInv, Answered
<1>2. PICK examined \in Cuts(found) :
      \E spared \in Spared(question, RecordsOf(examined)) :
        answer = AnswerFrom(examined, spared, partial)
  BY <1>1 DEF AnswersFrom
<1>3. PICK spared \in Spared(question, RecordsOf(examined)) :
        answer = AnswerFrom(examined, spared, partial)
  BY <1>2
<1>4. /\ examined \subseteq found
      /\ examined # found => Cardinality(examined) = Limit
  BY <1>2 DEF Cuts, Slices
<1> DEFINE synthesis == Synthesise(question, RecordsOf(examined), spared)
<1>5. answer = [claims |-> synthesis.claims, contradictions |-> synthesis.contradictions,
                missing |-> synthesis.missing, status |-> synthesis.status,
                examined |-> examined, considered |-> synthesis.considered,
                evidence |-> {e \in examined : e[1] \in CitedBy(synthesis)},
                partial |-> partial]
  BY <1>3 DEF AnswerFrom
<1> HIDE DEF synthesis
<1>6. CitedBy(answer) = CitedBy(synthesis)
  BY <1>5 DEF CitedBy
<1>7. /\ answer.evidence = {e \in examined : e[1] \in CitedBy(answer)}
      /\ answer.partial = partial /\ answer.examined = examined
  BY <1>5, <1>6
<1>8. /\ answer.claims = synthesis.claims
      /\ answer.contradictions = synthesis.contradictions
      /\ answer.missing = synthesis.missing
      /\ answer.considered = synthesis.considered
  BY <1>5
<1>9. \A e \in Presented \ examined : Cardinality(examined) = Limit
  BY <1>1, <1>4
<1>10. FromHydra => examined \subseteq Presented
  BY <1>1, <1>4
<1>11. examined \in SUBSET accepted
  BY <1>1, <1>4
<1>12. WITNESS examined \in SUBSET accepted
<1>13. WITNESS spared \in Spared(question, RecordsOf(examined))
<1>14. QED
  BY <1>1, <1>7, <1>8, <1>9, <1>10 DEF synthesis

LEMMA SearchKeepsEvidence == SearchInv => EvidenceIsAskedFor
<1> SUFFICES ASSUME SearchInv, Answered PROVE EvidenceIsAskedFor
  BY DEF EvidenceIsAskedFor, EvidenceIsInScope, LookupsAreExact
<1>1. PICK examined \in SUBSET accepted :
        /\ FromHydra => examined \subseteq Presented
        /\ answer.evidence = {e \in examined : e[1] \in CitedBy(answer)}
  BY AnswerIs
<1>2. EvidenceIsInScope
  BY <1>1 DEF EvidenceIsInScope, SearchInv, KeptInv, Sound
<1>3. LookupsAreExact
  BY <1>1 DEF LookupsAreExact, Presented, Presentable
<1>4. QED
  BY <1>2, <1>3 DEF EvidenceIsAskedFor

LEMMA SearchHearsAll == SearchInv => AbsenceIsReal
<1> SUFFICES ASSUME SearchInv, Answered PROVE AbsenceIsReal
  BY DEF AbsenceIsReal, SilenceIsComplete, GapIsReal
<1>1. PICK retrieved, spared :
        /\ FromHydra => answer.partial = (\E p \in Places : lane[p] = "failed")
        /\ answer.claims = Synthesise(question, retrieved, spared).claims
        /\ answer.missing = Synthesise(question, retrieved, spared).missing
        /\ answer.considered = Synthesise(question, retrieved, spared).considered
  BY AnswerIs
<1>2. SilenceIsComplete
  <2> SUFFICES ASSUME FromHydra, ~answer.partial
               PROVE  /\ \A c \in chosen : lane[PlaceOf[c]] = "answered" \/ c \notin Asked
                      /\ ~Public => \A d \in scope.documents : lane[PlaceOf[d]] = "answered"
    BY DEF SilenceIsComplete
  <2>1. \A p \in Queried : lane[p] = "answered"
    BY <1>1 DEF SearchInv, LaneInv, Answered, McpTypeOK, Queried
  <2>2. ASSUME NEW c \in chosen, c \in Asked PROVE lane[PlaceOf[c]] = "answered"
    <3>1. c \in Group(PlaceOf[c]) /\ PlaceOf[c] \in Places
      BY <2>2 DEF Group, Places, SearchInv, McpTypeOK
    <3>2. QED
      BY <2>1, <3>1 DEF Queried
  <2>3. ASSUME ~Public, NEW d \in scope.documents PROVE lane[PlaceOf[d]] = "answered"
    <3>1. d \in Records
      BY <2>3 DEF SearchInv, ScopeInv, Answered, Documents
    <3>2. d \in Wanted(PlaceOf[d]) /\ PlaceOf[d] \in Places
      BY <2>3, <3>1 DEF Wanted, Places
    <3>3. QED
      BY <2>1, <3>2 DEF Queried
  <2>4. QED
    BY <2>2, <2>3
<1>3. GapIsReal
  <2>1. IsQuestion(question)
    BY McpAssumption DEF SearchInv, McpTypeOK
  <2>2. QED
    BY <1>1, <2>1, SynthesisGaps DEF GapIsReal
<1>4. QED
  BY <1>2, <1>3 DEF AbsenceIsReal

LEMMA SearchClaimsStand == SearchInv => ClaimsStand
<1> SUFFICES ASSUME SearchInv PROVE ClaimsStand
  OBVIOUS
<1>1. McpTypeOK
  BY DEF SearchInv
<1>2. IsQuestion(question)
  BY <1>1, McpAssumption DEF McpTypeOK
<1>3. CASE Answered
  <2>1. PICK examined, spared :
          /\ answer.evidence = {e \in examined : e[1] \in CitedBy(answer)}
          /\ answer.claims = Synthesise(question, RecordsOf(examined), spared).claims
          /\ answer.contradictions =
               Synthesise(question, RecordsOf(examined), spared).contradictions
    BY <1>3, AnswerIs
  <2> DEFINE retrieved == RecordsOf(examined)
             synthesis == Synthesise(question, retrieved, spared)
  <2>2. /\ Cited(synthesis.claims) \subseteq retrieved
        /\ UNION synthesis.contradictions \subseteq retrieved
        /\ \A i, j \in DOMAIN synthesis.claims :
             i # j => synthesis.claims[i].says \intersect synthesis.claims[j].says = {}
    <3> HIDE DEF retrieved
    <3>1. QED
      BY <1>2, SynthesisCites
  <2>3. answer.claims = synthesis.claims /\ answer.contradictions = synthesis.contradictions
    BY <2>1
  <2> HIDE DEF synthesis
  <2>4. CitedBy(answer) \subseteq retrieved
    BY <2>2, <2>3 DEF CitedBy
  <2>5. {e[1] : e \in answer.evidence} = CitedBy(answer)
    BY <2>1, <2>4 DEF RecordsOf
  <2>6. QED
    BY <1>1, <2>2, <2>3, <2>5 DEF ClaimsStand, CitationsResolve, NoRestatement
<1>4. CASE ~Answered
  <2>1. answer.claims = <<>>
    BY <1>4 DEF SearchInv, AnswerInv, Answered, NoAnswer
  <2>2. QED
    BY <1>1, <1>4, <2>1 DEF ClaimsStand, CitationsResolve, NoRestatement
<1>5. QED
  BY <1>3, <1>4

LEMMA SearchHearsNamed == SearchInv => NamedProviderIsHeard
<1> DEFINE heard(r) ==
      \/ \E x \in answer.considered : ProviderOf[x] = ProviderOf[r]
      \/ /\ Cardinality(answer.considered) = Slots
         /\ \A x \in answer.considered : ProviderOf[x] \in question.named
         /\ \A x, y \in answer.considered : ProviderOf[x] = ProviderOf[y] => x = y
<1> SUFFICES ASSUME SearchInv, Answered, NEW e \in accepted,
                    Presentable(e), e[1] \in question.relevant, ProviderOf[e[1]] \in question.named
             PROVE  \/ heard(e[1])
                    \/ e \notin answer.examined /\ Cardinality(answer.examined) = Limit
  BY DEF NamedProviderIsHeard
<1>1. PICK examined \in SUBSET accepted :
      \E spared \in Spared(question, RecordsOf(examined)) :
        /\ \A x \in Presented \ examined : Cardinality(examined) = Limit
        /\ answer.examined = examined
        /\ answer.considered = Synthesise(question, RecordsOf(examined), spared).considered
  BY AnswerIs
<1>2. CASE e \notin examined
  BY <1>1, <1>2 DEF Presented
<1>3. CASE e \in examined
  <2>1. PICK spared \in Spared(question, RecordsOf(examined)) :
          answer.considered = Synthesise(question, RecordsOf(examined), spared).considered
    BY <1>1
  <2>2. e[1] \in RecordsOf(examined)
    BY <1>3 DEF RecordsOf
  <2>3. e[1] \in Records /\ IsQuestion(question)
    BY McpAssumption DEF SearchInv, McpTypeOK
  <2>4. heard(e[1])
    BY <2>1, <2>2, <2>3, NamedIsConsidered
  <2>5. QED
    BY <2>4
<1>4. QED
  BY <1>2, <1>3

\* server.ts:750 and server.ts:829: the evidence of an answer was asked for: it is from the
\* scope of the search, credited to a connector that may be credited with it, and about the
\* record an exact lookup names, however connectors are synced, verified and reconfigured
\* between its reads.
THEOREM EvidenceAskedFor == McpSpec => []EvidenceIsAskedFor
BY SearchInvariant, SearchKeepsEvidence, PTL

\* server.ts:616 and synthesis.ts:1180: what an answer says it did not find is not there to be
\* found: every place in scope was heard, and no text of the records the first claim cites or
\* names would have closed a facet it reports missing, for any question and any ranking.
THEOREM AbsenceReal == McpSpec => []AbsenceIsReal
BY SearchInvariant, SearchHearsAll, PTL

\* server.ts:582 and synthesis.ts:1083: the claims of an answer stand together: what they and
\* its contradictions cite goes with it, nothing else does, and no claim repeats another, in
\* whichever pass each was picked and however many units of text there are.
THEOREM ClaimsStandTogether == McpSpec => []ClaimsStand
BY SearchInvariant, SearchClaimsStand, PTL

\* synthesis.ts:466: a provider the question names is heard if anything relevant of it is among
\* the evidence that is looked at, however many better records of others there are, unless
\* every slot is another named provider's; and where its evidence is not looked at, the limit
\* of server.ts:570 is used up.  For any limits, slots and orders of the evidence.
THEOREM NamedHeard == McpSpec => []NamedProviderIsHeard
BY SearchInvariant, SearchHearsNamed, PTL

(***************************************************************************)
(* The shell of the tab.                                                   *)
(***************************************************************************)
\* What the tab shows and awaits is well typed, whatever the server answers.
LEMMA AnswersTyped ==
  ASSUME TabTypeOK, NEW c \in TabCalls
  PROVE  AnswerTo(c) \in Answers /\ ViewOf(session) \in [kind : Kinds, who : Sessions]
<1>1. ViewOf(session) \in [kind : Kinds, who : Sessions]
  BY DEF ViewOf, Kinds, TabTypeOK
<1>2. c.op \in {"effect", "list", "create", "view"}
  BY DEF TabCalls, Ops
<1>3. adopted[session] \subseteq Refs
  BY DEF TabTypeOK
<1>4. CASE c.op = "view"
  BY <1>1, <1>4 DEF AnswerTo, Answers
<1>5. CASE c.op = "create"
  BY <1>1, <1>5 DEF AnswerTo, Answers
<1>6. CASE c.op \in {"effect", "list"}
  BY <1>1, <1>3, <1>6 DEF AnswerTo, Answers
<1>7. QED
  BY <1>1, <1>2, <1>4, <1>5, <1>6

LEMMA RequestTyped == \A op \in Ops : Request(op) \in TabCalls
<1>1. Failed \in [kind : Kinds, who : Sessions]
  BY DEF Failed, Kinds, Sessions
<1>2. QED
  BY <1>1 DEF Request, TabCalls, Answers

LEMMA TabTypeInit == TabInit => TabTypeOK
<1> SUFFICES ASSUME TabInit PROVE TabTypeOK
  OBVIOUS
<1>1. ViewOf(session) \in [kind : Kinds, who : Sessions]
  BY DEF ViewOf, Kinds, TabInit
<1>2. Failed \in [kind : Kinds, who : Sessions]
  BY DEF Failed, Kinds, Sessions
<1>3. adopted \in [Sessions -> SUBSET Refs]
  BY TabAssumption DEF TabInit
<1>4. view \in [kind : Kinds, who : Sessions]
  BY <1>1, <1>2 DEF TabInit
<1>5. sources \in [who : Sessions, refs : SUBSET Refs]
  BY <1>3, <1>4 DEF TabInit
<1>6. calls \subseteq TabCalls
  BY RequestTyped DEF TabInit, Ops
<1>7. QED
  BY <1>3, <1>4, <1>5, <1>6, TabAssumption DEF TabInit, TabTypeOK, Ready

LEMMA ListedTyped ==
  ASSUME TabTypeOK, NEW c \in calls, Listed(c) \/ Refused(c) \/ TimeOut(c)
  PROVE  TabTypeOK'
<1>1. c \in TabCalls /\ c.answer \in Answers
  BY DEF TabTypeOK, TabCalls
<1>2. CASE Listed(c)
  <2>1. c.answer.view.who \in Sessions /\ c.answer.refs \subseteq Refs
    BY <1>1 DEF Answers
  <2>2. QED
    BY <1>2, <2>1 DEF Listed, TabTypeOK, server, bounds
<1>3. CASE Refused(c)
  BY <1>3 DEF Refused, Rejected, TabTypeOK, server, bounds
<1>4. CASE TimeOut(c)
  <2>1. [c EXCEPT !.live = FALSE] \in TabCalls
    BY <1>1 DEF TabCalls
  <2>2. faults' \in 0 .. MaxFaults
    BY <1>4, TabAssumption DEF TimeOut, TabTypeOK
  <2>3. QED
    BY <1>4, <2>1, <2>2 DEF TimeOut, Rejected, TabTypeOK, server
<1>5. QED
  BY <1>2, <1>3, <1>4

LEMMA TabTypes == TabTypeOK /\ TabNext => TabTypeOK'
<1> SUFFICES ASSUME TabTypeOK, TabNext PROVE TabTypeOK'
  OBVIOUS
<1> USE DEF server, bounds
<1>1. ASSUME NEW s \in Sessions, Switch(s) PROVE TabTypeOK'
  BY <1>1, TabAssumption DEF Switch, TabTypeOK
<1>2. ASSUME NEW c \in calls, ServeTab(c) PROVE TabTypeOK'
  <2>1. c \in TabCalls
    BY DEF TabTypeOK
  <2>2. [c EXCEPT !.answer = AnswerTo(c)] \in TabCalls
    BY <2>1, AnswersTyped DEF TabCalls
  <2>3. calls' \subseteq TabCalls
    BY <1>2, <2>2 DEF ServeTab, TabTypeOK
  <2>4. owned' \subseteq Sessions
    BY <1>2 DEF ServeTab, TabTypeOK
  <2>5. QED
    BY <1>2, <2>3, <2>4 DEF ServeTab, TabTypeOK
<1>3. ASSUME NEW c \in calls, ShowView(c) PROVE TabTypeOK'
  <2>1. c.answer.view \in [kind : Kinds, who : Sessions]
    BY DEF TabTypeOK, TabCalls, Answers
  <2>2. calls' \subseteq TabCalls
    BY <1>3, RequestTyped DEF ShowView, Effects, TabTypeOK, Ops
  <2>3. QED
    BY <1>3, <2>1, <2>2 DEF ShowView, TabTypeOK
<1>4. ASSUME NEW c \in calls, WorkspaceCreated(c) PROVE TabTypeOK'
  BY <1>4, RequestTyped DEF WorkspaceCreated, TabTypeOK, Ops
<1>5. ASSUME NEW c \in calls, Listed(c) \/ Refused(c) \/ TimeOut(c) PROVE TabTypeOK'
  BY <1>5, ListedTyped
<1>6. CASE Reconcile \/ RetryBoot \/ CreateWorkspace
  BY <1>6, RequestTyped DEF Reconcile, RetryBoot, CreateWorkspace, TabTypeOK, Ops
<1>7. QED
  BY <1>1, <1>2, <1>3, <1>4, <1>5, <1>6 DEF TabNext, Deliver

(***************************************************************************)
(* The question screen.                                                    *)
(***************************************************************************)
Screen(st) ==
  [submitted : Prompts \union {NoQuestion}, busy : BOOLEAN,
   result : {NoRun} \union DOMAIN st, turns : Seq(DOMAIN st),
   restored : {NoRun} \union DOMAIN st, link : {NoRun} \union DOMAIN st,
   posts : SUBSET Posts]

Questioning(a) == {p \in a.posts : p.op = "ask"}
Awaited(a) == {p \in Questioning(a) : p.live}
Unserved(a) == {p \in Questioning(a) : p.stage = "sent"}

\* A screen with what was recorded: what it awaits is the answer to the question above it,
\* what it shows is that answer, and the server has room for what it still may record.
Coherent(st, a) ==
  /\ \A p \in Questioning(a) :
       /\ p.question \in Prompts
       /\ p.live => p.question = a.submitted
       /\ p.stage = "answered" => p.run \in DOMAIN st /\ st[p.run].question = p.question
  /\ IF a.busy THEN a.result = NoRun /\ \E p : Awaited(a) = {p} ELSE Awaited(a) = {}
  /\ a.result # NoRun => /\ st[a.result].question = a.submitted
                         /\ a.turns # <<>> /\ Last(a.turns) = a.result
  /\ IsFiniteSet(a.posts)
  /\ Len(st) + Cardinality(Unserved(a)) <= MaxRuns

\* A saved investigation is fetched while nothing is awaited.
Fetching(st, a) == \A p \in a.posts : p.op # "ask" => p.run \in DOMAIN st /\ ~a.busy

AskInv ==
  /\ store \in Seq([of : Sessions, question : Prompts])
  /\ ask \in Screen(store)
  /\ Coherent(store, ask) /\ Fetching(store, ask)
  /\ ~Ready(view) => ~ask.busy

\* The counts of what is not served yet.
LEMMA UnservedIs ==
  ASSUME NEW a, IsFiniteSet(a.posts)
  PROVE  /\ IsFiniteSet(Questioning(a)) /\ IsFiniteSet(Unserved(a))
         /\ Cardinality(Unserved(a)) \in Nat
         /\ Cardinality(Unserved(a)) <= Cardinality(Questioning(a))
<1>1. Questioning(a) \in SUBSET a.posts /\ Unserved(a) \in SUBSET Questioning(a)
  BY DEF Questioning, Unserved
<1>2. IsFiniteSet(Questioning(a))
  BY <1>1, FS_Subset
<1>3. IsFiniteSet(Unserved(a)) /\ Cardinality(Unserved(a)) <= Cardinality(Questioning(a))
  BY <1>1, <1>2, FS_Subset
<1>4. QED
  BY <1>2, <1>3, FS_CardinalityType

\* The effect on busy and result leaves everything else, and its own requests are in order.
LEMMA RenderedKeeps ==
  ASSUME NEW st, DOMAIN st \subseteq Runs, NEW a \in Screen(st), Coherent(st, a)
  PROVE  /\ Rendered(a) \in Screen(st)
         /\ Coherent(st, Rendered(a)) /\ Fetching(st, Rendered(a))
         /\ Rendered(a).busy = a.busy
<1> DEFINE b == Rendered(a)
           restore == Post("restore", NoQuestion, a.link)
<1>1. /\ b.submitted = a.submitted /\ b.busy = a.busy /\ b.result = a.result
      /\ b.turns = a.turns /\ b.link = a.link
  BY DEF Rendered, Screen
<1>2. IF Restores(a) THEN b.restored = a.link /\ b.posts = Inactive(a.posts) \union {restore}
      ELSE b.restored = a.restored /\ b.posts = Inactive(a.posts)
  BY DEF Rendered, Screen
<1>3. Restores(a) => a.link \in DOMAIN st /\ ~a.busy
  BY DEF Restores, Screen
<1>4. restore.op = "restore" /\ restore.run = a.link
  BY DEF Post
<1>5. \A p \in a.posts : p.op \in {"ask", "restore"}
  BY DEF Screen, Posts
<1>6. Questioning(b) = Questioning(a)
  BY <1>2, <1>4, <1>5 DEF Questioning, Inactive
<1>7. Fetching(st, b)
  BY <1>1, <1>2, <1>3, <1>4, <1>5 DEF Fetching, Inactive
<1>8. IsFiniteSet(b.posts)
  <2>1. Inactive(a.posts) \in SUBSET a.posts
    BY DEF Inactive
  <2>2. IsFiniteSet(Inactive(a.posts))
    BY <2>1, FS_Subset DEF Coherent
  <2>3. IsFiniteSet(Inactive(a.posts) \union {restore})
    BY <2>2, FS_AddElement
  <2>4. QED
    BY <1>2, <2>2, <2>3
<1>9. Coherent(st, b)
  BY <1>1, <1>6, <1>8 DEF Coherent, Awaited, Unserved
<1>10. b \in Screen(st)
  <2>1. Restores(a) => restore \in Posts
    BY <1>3 DEF Post, Posts, Runs
  <2>2. b.posts \subseteq Posts
    BY <1>2, <2>1 DEF Inactive, Screen
  <2>3. Inactive(a.posts) \subseteq Posts
    BY DEF Inactive, Screen
  <2>4. QED
    BY <1>3, <2>1, <2>3 DEF Rendered, Screen
<1>11. QED
  BY <1>1, <1>7, <1>9, <1>10

\* A set of one element more at most, or of one element less.
LEMMA OneMore ==
  \A S, T, x : IsFiniteSet(S) /\ T \subseteq S \union {x} =>
    /\ IsFiniteSet(T) /\ Cardinality(S) \in Nat /\ Cardinality(T) \in Nat
    /\ Cardinality(T) <= Cardinality(S) + 1
<1> SUFFICES ASSUME NEW S, NEW T, NEW x, IsFiniteSet(S), T \subseteq S \union {x}
             PROVE  /\ IsFiniteSet(T) /\ Cardinality(S) \in Nat /\ Cardinality(T) \in Nat
                    /\ Cardinality(T) <= Cardinality(S) + 1
  OBVIOUS
<1>1. /\ IsFiniteSet(S \union {x})
      /\ Cardinality(S \union {x}) = IF x \in S THEN Cardinality(S) ELSE Cardinality(S) + 1
  BY FS_AddElement
<1>2. IsFiniteSet(T) /\ Cardinality(T) <= Cardinality(S \union {x})
  BY <1>1, FS_Subset
<1>3. Cardinality(S) \in Nat /\ Cardinality(T) \in Nat
  BY <1>2, FS_CardinalityType
<1>4. QED
  BY <1>1, <1>2, <1>3

LEMMA OneLess ==
  \A S, T, x : IsFiniteSet(S) /\ x \in S /\ T \subseteq S \ {x} =>
    /\ IsFiniteSet(T) /\ Cardinality(S) \in Nat /\ Cardinality(T) \in Nat
    /\ Cardinality(T) + 1 <= Cardinality(S)
<1> SUFFICES ASSUME NEW S, NEW T, NEW x, IsFiniteSet(S), x \in S, T \subseteq S \ {x}
             PROVE  /\ IsFiniteSet(T) /\ Cardinality(S) \in Nat /\ Cardinality(T) \in Nat
                    /\ Cardinality(T) + 1 <= Cardinality(S)
  OBVIOUS
<1>1. IsFiniteSet(S \ {x}) /\ Cardinality(S \ {x}) = Cardinality(S) - 1
  BY FS_RemoveElement
<1>2. IsFiniteSet(T) /\ Cardinality(T) <= Cardinality(S \ {x})
  BY <1>1, FS_Subset
<1>3. Cardinality(S) \in Nat /\ Cardinality(T) \in Nat
  BY <1>2, FS_CardinalityType
<1>4. QED
  BY <1>1, <1>2, <1>3

LEMMA StoredRuns ==
  ASSUME AskInv
  PROVE  /\ DOMAIN store \subseteq Runs /\ DOMAIN store = 1 .. Len(store) /\ Len(store) \in Nat
         /\ Len(store) <= MaxRuns
<1>1. Len(store) \in Nat /\ DOMAIN store = 1 .. Len(store)
  BY DEF AskInv
<1>2. Len(store) <= MaxRuns
  BY <1>1, UnservedIs, AskAssumption DEF AskInv, Coherent
<1>3. QED
  BY <1>1, <1>2, AskAssumption DEF Runs

\* A question that is no longer under way, or is awaited by nobody.
LEMMA FewerUnserved ==
  ASSUME NEW st, Len(st) \in Nat, NEW a, NEW b, Coherent(st, a), IsFiniteSet(b.posts),
         Unserved(b) \subseteq Unserved(a)
  PROVE  Len(st) + Cardinality(Unserved(b)) <= MaxRuns
<1>1. /\ IsFiniteSet(Unserved(a)) /\ Cardinality(Unserved(a)) \in Nat
      /\ Cardinality(Unserved(b)) \in Nat
  BY UnservedIs DEF Coherent
<1>2. Cardinality(Unserved(b)) <= Cardinality(Unserved(a))
  BY <1>1, FS_Subset
<1>3. QED
  BY <1>1, <1>2, AskAssumption DEF Coherent

LEMMA SubmitKeeps ==
  ASSUME AskInv, NEW q \in Prompts, Submit(q)
  PROVE  AskInv'
<1> DEFINE post == Post("ask", q, NoRun)
           a == [ask EXCEPT !.submitted = q, !.busy = TRUE, !.result = NoRun,
                            !.posts = ask.posts \union {post}]
<1>1. ask' = Rendered(a) /\ UNCHANGED <<tabVars, store>> /\ ~ask.busy /\ Ready(view)
  BY DEF Submit
<1>2. ask \in Screen(store) /\ Coherent(store, ask)
  BY DEF AskInv
<1>3. post \in Posts /\ post.op = "ask" /\ post.live /\ post.question = q /\ post.stage = "sent"
  BY DEF Post, Posts
<1>4. /\ a \in Screen(store)
      /\ a.submitted = q /\ a.busy /\ a.result = NoRun /\ a.posts = ask.posts \union {post}
  BY <1>2, <1>3 DEF Screen
<1> HIDE DEF post, a
<1>5. Awaited(ask) = {}
  BY <1>1, <1>2 DEF Coherent
<1>6. Questioning(a) = Questioning(ask) \union {post} /\ Awaited(a) = {post}
  BY <1>3, <1>4, <1>5 DEF Awaited, Questioning
<1>7. IsFiniteSet(a.posts)
  BY <1>2, <1>4, OneMore DEF Coherent
<1>8. Len(store) + Cardinality(Unserved(a)) <= MaxRuns
  <2>1. Unserved(a) = Unserved(ask) \union {post}
    BY <1>3, <1>6 DEF Unserved
  <2>2. Len(store) + Cardinality(Questioning(ask)) < MaxRuns
    BY DEF Submit, Pending, Questioning
  <2>3. /\ IsFiniteSet(Questioning(ask)) /\ IsFiniteSet(Unserved(ask))
        /\ Cardinality(Unserved(ask)) \in Nat
        /\ Cardinality(Unserved(ask)) <= Cardinality(Questioning(ask))
    BY <1>2, UnservedIs DEF Coherent
  <2>4. Cardinality(Unserved(a)) <= Cardinality(Unserved(ask)) + 1
    BY <2>1, <2>3, OneMore
  <2>5. /\ Len(store) \in Nat /\ Cardinality(Questioning(ask)) \in Nat
        /\ Cardinality(Unserved(a)) \in Nat
    BY <1>7, <2>3, StoredRuns, UnservedIs, FS_CardinalityType
  <2>6. QED
    BY <2>2, <2>3, <2>4, <2>5, AskAssumption
<1>9. Coherent(store, a)
  <2>1. \A p \in Questioning(ask) : ~p.live
    BY <1>5 DEF Awaited
  <2>2. QED
    BY <1>2, <1>3, <1>4, <1>6, <1>7, <1>8, <2>1 DEF Coherent
<1>10. QED
  BY <1>1, <1>4, <1>9, RenderedKeeps, StoredRuns DEF AskInv, tabVars

\* The one question that is awaited.
LEMMA AwaitedIs ==
  ASSUME AskInv, NEW p \in ask.posts, p.op = "ask", p.live
  PROVE  /\ ask.busy /\ ask.result = NoRun /\ Awaited(ask) = {p}
         /\ p.question = ask.submitted /\ p.question \in Prompts
<1>1. p \in Awaited(ask) /\ p \in Questioning(ask)
  BY DEF Awaited, Questioning
<1>2. QED
  BY <1>1 DEF AskInv, Coherent

LEMMA AnsweredKeeps ==
  ASSUME AskInv, NEW p \in ask.posts, AskAnswered(p)
  PROVE  AskInv'
<1> DEFINE others == Keep(ask.turns, Runs \ {p.run})
           a == [ask EXCEPT !.busy = FALSE, !.result = p.run, !.link = p.run,
                            !.turns = Append(others, p.run), !.posts = ask.posts \ {p}]
<1>1. ask' = Rendered(a) /\ UNCHANGED <<tabVars, store>>
  BY DEF AskAnswered
<1>2. ask \in Screen(store) /\ Coherent(store, ask)
  BY DEF AskInv
<1>3. /\ ask.busy /\ Awaited(ask) = {p} /\ p.question = ask.submitted
      /\ p.run \in DOMAIN store /\ store[p.run].question = p.question
  BY <1>2, AwaitedIs DEF AskAnswered, Coherent, Questioning
<1>4. others \in Seq(DOMAIN store)
  <2>1. ask.turns \in Seq(DOMAIN store)
    BY <1>2 DEF Screen
  <2>2. QED
    BY <2>1, KeepIs
<1> HIDE DEF others
<1>5. Append(others, p.run) \in Seq(DOMAIN store) /\ Append(others, p.run) # <<>>
      /\ Last(Append(others, p.run)) = p.run
  BY <1>3, <1>4 DEF Last
<1>6. /\ a \in Screen(store)
      /\ a.submitted = ask.submitted /\ ~a.busy /\ a.result = p.run
      /\ a.turns = Append(others, p.run) /\ a.posts = ask.posts \ {p}
  BY <1>2, <1>3, <1>5 DEF Screen
<1> HIDE DEF a
<1>7. /\ Questioning(a) \subseteq Questioning(ask) /\ Unserved(a) \subseteq Unserved(ask)
      /\ Awaited(a) = {}
  BY <1>3, <1>6 DEF Questioning, Awaited, Unserved
<1>8. IsFiniteSet(a.posts)
  BY <1>2, <1>6, FS_RemoveElement DEF Coherent
<1>9. Coherent(store, a)
  <2>1. Len(store) + Cardinality(Unserved(a)) <= MaxRuns
    BY <1>2, <1>7, <1>8, StoredRuns, FewerUnserved
  <2>2. QED
    BY <1>2, <1>3, <1>5, <1>6, <1>7, <1>8, <2>1 DEF Coherent
<1>10. QED
  BY <1>1, <1>6, <1>9, RenderedKeeps, StoredRuns DEF AskInv, tabVars

\* A question that is given up leaves the screen idle; the server may still record it.
LEMMA GivesUpKeeps ==
  ASSUME AskInv, NEW p \in ask.posts, p.op = "ask", p.live,
         NEW rest \in {{}, Orphan(p)}, GivesUp(p, rest), UNCHANGED <<store, view>>
  PROVE  AskInv'
<1> DEFINE a == [ask EXCEPT !.busy = FALSE, !.posts = (ask.posts \ {p}) \union rest]
<1>1. ask' = Rendered(a)
  BY DEF GivesUp
<1>2. ask \in Screen(store) /\ Coherent(store, ask) /\ p \in Posts
  BY DEF AskInv, Screen
<1>3. /\ ask.result = NoRun /\ Awaited(ask) = {p} /\ p.question \in Prompts
  BY AwaitedIs
<1> DEFINE orphan == [p EXCEPT !.live = FALSE]
<1>4. orphan \in Posts /\ orphan.op = "ask" /\ ~orphan.live /\ orphan.question = p.question
      /\ orphan.stage = p.stage
  BY <1>2 DEF Posts
<1>5. rest = {} \/ (p.stage = "sent" /\ rest = {orphan})
  BY DEF Orphan
<1>6. /\ a \in Screen(store)
      /\ a.submitted = ask.submitted /\ ~a.busy /\ a.result = NoRun
      /\ a.posts = (ask.posts \ {p}) \union rest
  BY <1>2, <1>3, <1>4, <1>5 DEF Screen
<1> HIDE DEF a, orphan
<1>7. Questioning(a) = (Questioning(ask) \ {p}) \union rest /\ Awaited(a) = {}
  BY <1>3, <1>4, <1>5, <1>6 DEF Questioning, Awaited
<1>8. IsFiniteSet(a.posts)
  <2>1. a.posts \subseteq ask.posts \union {orphan}
    BY <1>5, <1>6
  <2>2. QED
    BY <1>2, <2>1, OneMore DEF Coherent
<1>9. Len(store) + Cardinality(Unserved(a)) <= MaxRuns
  <2>1. Unserved(a) = (Unserved(ask) \ {p}) \union rest /\ (rest # {} => p \in Unserved(ask))
    BY <1>4, <1>5, <1>7 DEF Unserved, Questioning
  <2>2. IsFiniteSet(Unserved(ask)) /\ Cardinality(Unserved(ask)) \in Nat
    BY <1>2, UnservedIs DEF Coherent
  <2>3. Cardinality(Unserved(a)) <= Cardinality(Unserved(ask)) /\ Cardinality(Unserved(a)) \in Nat
    <3>1. CASE rest = {}
      <4>1. Unserved(a) \subseteq Unserved(ask)
        BY <2>1, <3>1
      <4>2. QED
        BY <2>2, <4>1, FS_Subset, FS_CardinalityType
    <3>2. CASE rest = {orphan} /\ rest # {}
      <4>1. /\ IsFiniteSet(Unserved(ask) \ {p}) /\ Cardinality(Unserved(ask) \ {p}) \in Nat
            /\ Cardinality(Unserved(ask) \ {p}) + 1 <= Cardinality(Unserved(ask))
        BY <2>1, <2>2, <3>2, OneLess
      <4>2. /\ Cardinality(Unserved(a)) \in Nat
            /\ Cardinality(Unserved(a)) <= Cardinality(Unserved(ask) \ {p}) + 1
        BY <2>1, <3>2, <4>1, OneMore
      <4>3. QED
        BY <2>2, <4>1, <4>2
    <3>3. QED
      BY <1>5, <3>1, <3>2
  <2>4. QED
    BY <1>2, <2>2, <2>3, StoredRuns, AskAssumption DEF Coherent
<1>10. Coherent(store, a)
  BY <1>2, <1>3, <1>4, <1>5, <1>6, <1>7, <1>8, <1>9 DEF Coherent, Questioning
<1>11. QED
  BY <1>1, <1>6, <1>10, RenderedKeeps, StoredRuns DEF AskInv, Ready

LEMMA ElementIn == \A S, s, i : s \in Seq(S) /\ i \in DOMAIN s => s[i] \in S
  OBVIOUS

\* The server records a question, or refuses it, for a screen that may have gone.
LEMMA ServeAskKeeps ==
  ASSUME AskInv, TabTypeOK, NEW p \in ask.posts, ServeAsk(p)
  PROVE  AskInv'
<1> DEFINE admitted == session \in owned
           replied == [p EXCEPT !.stage = IF admitted THEN "answered" ELSE "refused",
                                !.run = IF admitted THEN Len(store) + 1 ELSE NoRun]
           kept == IF p.live THEN {replied} ELSE {}
           st == IF admitted THEN Append(store, [of |-> session, question |-> p.question])
                 ELSE store
           a == [ask EXCEPT !.posts = (ask.posts \ {p}) \union kept]
<1>1. /\ store' = st /\ ask' = a /\ UNCHANGED tabVars
      /\ p.op = "ask" /\ p.stage = "sent"
  BY DEF ServeAsk
<1>2. ask \in Screen(store) /\ Coherent(store, ask) /\ p \in Posts /\ Fetching(store, ask)
  BY DEF AskInv, Screen
<1>3. /\ p \in Questioning(ask) /\ p \in Unserved(ask) /\ p.question \in Prompts
      /\ p.live => p.question = ask.submitted /\ Awaited(ask) = {p}
  BY <1>1, <1>2, AwaitedIs DEF Questioning, Unserved, Coherent
<1>4. DOMAIN store = 1 .. Len(store) /\ Len(store) \in Nat /\ DOMAIN store \subseteq Runs
  BY StoredRuns
<1>5. /\ IsFiniteSet(Unserved(ask)) /\ Cardinality(Unserved(ask)) \in Nat
      /\ Len(store) + Cardinality(Unserved(ask)) <= MaxRuns
  BY <1>2, UnservedIs DEF Coherent
<1>6. Len(store) + 1 \in Runs
  <2>1. Cardinality({}) + 1 <= Cardinality(Unserved(ask)) /\ Cardinality({}) \in Nat
    BY <1>3, <1>5, OneLess
  <2>2. QED
    BY <1>4, <1>5, <2>1, AskAssumption DEF Runs
<1>7. /\ st \in Seq([of : Sessions, question : Prompts])
      /\ DOMAIN st = 1 .. Len(st) /\ Len(st) \in Nat
      /\ Len(st) = IF admitted THEN Len(store) + 1 ELSE Len(store)
      /\ DOMAIN store \subseteq DOMAIN st /\ (\A r \in DOMAIN store : st[r] = store[r])
      /\ admitted => Len(store) + 1 \in DOMAIN st /\ st[Len(store) + 1].question = p.question
  <2>1. store \in Seq([of : Sessions, question : Prompts])
    BY DEF AskInv
  <2>2. CASE admitted
    <3>1. session \in Sessions => [of |-> session, question |-> p.question]
                                    \in [of : Sessions, question : Prompts]
      BY <1>3
    <3>2. session \in Sessions
      BY DEF TabTypeOK
    <3>3. QED
      BY <1>3, <1>4, <2>1, <2>2, <3>1, <3>2
  <2>3. CASE ~admitted
    BY <1>4, <2>1, <2>3
  <2>4. QED
    BY <2>2, <2>3
<1>8. /\ replied \in Posts /\ replied.op = "ask" /\ replied.live = p.live
      /\ replied.question = p.question /\ replied.stage # "sent"
      /\ replied.stage = "answered" => replied.run \in DOMAIN st
                                      /\ st[replied.run].question = p.question
  BY <1>1, <1>2, <1>6, <1>7 DEF Posts, NoRun
<1> HIDE DEF replied, st
<1>17. /\ p.live \in BOOLEAN /\ kept \subseteq {replied}
       /\ p.live => kept = {replied}
       /\ ~p.live => kept = {}
  BY <1>2 DEF Posts
<1>9. /\ a.submitted = ask.submitted /\ a.busy = ask.busy /\ a.result = ask.result
      /\ a.turns = ask.turns /\ a.link = ask.link /\ a.restored = ask.restored
      /\ a.posts = (ask.posts \ {p}) \union kept
  BY <1>2 DEF Screen
<1>10. a \in Screen(st)
  <2>1. ask.turns \in Seq(DOMAIN st)
    BY <1>2, <1>7 DEF Screen
  <2>2. (ask.posts \ {p}) \union kept \subseteq Posts
    BY <1>2, <1>8, <1>17 DEF Screen
  <2>3. QED
    BY <1>2, <1>7, <2>1, <2>2 DEF Screen
<1> HIDE DEF a, kept
<1>11. /\ Questioning(a) = (Questioning(ask) \ {p}) \union kept
       /\ Awaited(a) = IF p.live THEN {replied} ELSE Awaited(ask)
       /\ Unserved(a) \subseteq Unserved(ask) \ {p}
  <2>1. Questioning(a) = (Questioning(ask) \ {p}) \union kept
    <3>1. \A r \in kept : r.op = "ask"
      BY <1>8, <1>17
    <3>2. QED
      BY <1>9, <3>1 DEF Questioning
  <2>2. Awaited(a) = IF p.live THEN {replied} ELSE Awaited(ask)
    <3>1. CASE p.live
      BY <1>3, <1>8, <1>17, <2>1, <3>1 DEF Awaited
    <3>2. CASE ~p.live
      BY <1>3, <1>17, <2>1, <3>2 DEF Awaited
    <3>3. QED
      BY <3>1, <3>2
  <2>3. QED
    BY <1>8, <1>17, <2>1, <2>2 DEF Unserved
<1>12. IsFiniteSet(a.posts)
  <2>1. a.posts \subseteq ask.posts \union {replied}
    BY <1>9, <1>17
  <2>2. QED
    BY <1>2, <2>1, OneMore DEF Coherent
<1>13. Len(st) + Cardinality(Unserved(a)) <= MaxRuns
  <2>1. Cardinality(Unserved(a)) \in Nat
        /\ Cardinality(Unserved(a)) + 1 <= Cardinality(Unserved(ask))
    BY <1>3, <1>5, <1>11, OneLess
  <2>2. QED
    BY <1>4, <1>5, <1>7, <2>1, AskAssumption
<1>14. Coherent(st, a)
  <2>1. \A r \in Questioning(a) :
          /\ r.question \in Prompts
          /\ r.live => r.question = a.submitted
          /\ r.stage = "answered" => r.run \in DOMAIN st /\ st[r.run].question = r.question
    <3> SUFFICES ASSUME NEW r \in Questioning(a)
                 PROVE  /\ r.question \in Prompts
                        /\ r.live => r.question = a.submitted
                        /\ r.stage = "answered" => /\ r.run \in DOMAIN st
                                                   /\ st[r.run].question = r.question
      OBVIOUS
    <3>1. CASE r \in Questioning(ask)
      BY <1>2, <1>7, <1>9, <3>1 DEF Coherent
    <3>2. CASE r \in kept
      <4>1. r = replied /\ p.live
        BY <1>17, <3>2
      <4>2. QED
        BY <1>3, <1>8, <1>9, <4>1
    <3>3. QED
      BY <1>11, <3>1, <3>2
  <2>2. IF a.busy THEN a.result = NoRun /\ \E r : Awaited(a) = {r} ELSE Awaited(a) = {}
    BY <1>2, <1>3, <1>9, <1>11 DEF Coherent
  <2>3. a.result # NoRun => /\ st[a.result].question = a.submitted
                            /\ a.turns # <<>> /\ Last(a.turns) = a.result
    BY <1>2, <1>7, <1>9 DEF Coherent, Screen
  <2>4. QED
    BY <1>12, <1>13, <2>1, <2>2, <2>3 DEF Coherent
<1>15. Fetching(st, a)
  BY <1>2, <1>7, <1>8, <1>9, <1>17 DEF Fetching
<1>16. QED
  BY <1>1, <1>7, <1>9, <1>10, <1>14, <1>15 DEF AskInv, tabVars

\* A request to read one investigation leaves the questions alone.
LEMMA QuestionsAlone ==
  ASSUME NEW st, NEW a, Coherent(st, a), NEW b,
         b.submitted = a.submitted, b.busy = a.busy, b.result = a.result, b.turns = a.turns,
         IsFiniteSet(b.posts), Questioning(b) = Questioning(a)
  PROVE  Coherent(st, b)
  BY DEF Coherent, Awaited, Unserved

LEMMA FetchKeeps ==
  ASSUME AskInv, NEW p \in ask.posts, ServeRestore(p) \/ NotRestored(p)
  PROVE  AskInv'
<1> DEFINE mine == session \in owned /\ store[p.run].of = session
           replied == [p EXCEPT !.stage = IF mine THEN "answered" ELSE "refused"]
<1>1. PICK kept \in {{}, {replied}} :
        ask' = [ask EXCEPT !.posts = (ask.posts \ {p}) \union kept]
  BY DEF ServeRestore, NotRestored
<1>2. ask \in Screen(store) /\ Coherent(store, ask) /\ p \in Posts /\ Fetching(store, ask)
  BY DEF AskInv, Screen
<1>3. p.op = "restore" /\ UNCHANGED <<store, view>>
  BY DEF ServeRestore, NotRestored, tabVars
<1>4. replied \in Posts /\ replied.op = "restore" /\ replied.run = p.run
  BY <1>2, <1>3 DEF Posts
<1> HIDE DEF replied
<1> DEFINE a == [ask EXCEPT !.posts = (ask.posts \ {p}) \union kept]
<1>5. /\ a.submitted = ask.submitted /\ a.busy = ask.busy /\ a.result = ask.result
      /\ a.turns = ask.turns /\ a.posts = (ask.posts \ {p}) \union kept
      /\ a \in Screen(store)
  BY <1>2, <1>4 DEF Screen
<1>6. ask' = a
  BY <1>1
<1> HIDE DEF a
<1>7. Questioning(a) = Questioning(ask)
  BY <1>3, <1>4, <1>5 DEF Questioning
<1>8. IsFiniteSet(a.posts)
  <2>1. a.posts \subseteq ask.posts \union {replied}
    BY <1>5
  <2>2. QED
    BY <1>2, <2>1, OneMore DEF Coherent
<1>9. Coherent(store, a)
  BY <1>2, <1>5, <1>7, <1>8, QuestionsAlone
<1>10. Fetching(store, a)
  BY <1>2, <1>3, <1>4, <1>5 DEF Fetching
<1>11. QED
  BY <1>3, <1>5, <1>6, <1>9, <1>10 DEF AskInv, Ready

\* A saved investigation is shown with the question it answers.
LEMMA RestoredKeeps ==
  ASSUME AskInv, NEW p \in ask.posts, Restored(p)
  PROVE  AskInv'
<1> DEFINE a == [ask EXCEPT !.result = p.run, !.submitted = store[p.run].question,
                            !.turns = <<p.run>>, !.posts = ask.posts \ {p}]
<1>1. ask' = Rendered(a) /\ UNCHANGED <<tabVars, store>> /\ p.op = "restore"
  BY DEF Restored
<1>2. ask \in Screen(store) /\ Coherent(store, ask) /\ Fetching(store, ask)
  BY DEF AskInv
<1>3. p.run \in DOMAIN store /\ ~ask.busy
  BY <1>1, <1>2 DEF Fetching
<1>4. store[p.run].question \in Prompts
  <2>1. store \in Seq([of : Sessions, question : Prompts])
    BY DEF AskInv
  <2>2. store[p.run] \in [of : Sessions, question : Prompts]
    BY <1>3, <2>1, ElementIn
  <2>3. QED
    BY <2>2
<1>5. <<p.run>> \in Seq(DOMAIN store) /\ <<p.run>> # <<>> /\ Last(<<p.run>>) = p.run
  BY <1>3 DEF Last
<1>6. /\ a \in Screen(store)
      /\ a.submitted = store[p.run].question /\ ~a.busy /\ a.result = p.run
      /\ a.turns = <<p.run>> /\ a.posts = ask.posts \ {p}
  BY <1>2, <1>3, <1>4, <1>5 DEF Screen
<1> HIDE DEF a
<1>7. Questioning(a) = Questioning(ask) /\ Awaited(a) = {}
  <2>1. Questioning(a) = Questioning(ask)
    BY <1>1, <1>6 DEF Questioning
  <2>2. QED
    BY <1>2, <1>3, <2>1 DEF Awaited, Coherent
<1>8. IsFiniteSet(a.posts)
  <2>1. a.posts \subseteq ask.posts \union {p}
    BY <1>6
  <2>2. QED
    BY <1>2, <2>1, OneMore DEF Coherent
<1>9. Coherent(store, a)
  <2>1. Awaited(ask) = {}
    BY <1>2, <1>3 DEF Coherent
  <2>2. \A r \in Questioning(a) : ~r.live
    BY <1>7 DEF Awaited
  <2>3. Unserved(a) = Unserved(ask)
    BY <1>7 DEF Unserved
  <2>4. QED
    BY <1>2, <1>5, <1>6, <1>7, <1>8, <2>2, <2>3 DEF Coherent
<1>10. QED
  BY <1>1, <1>6, <1>9, RenderedKeeps, StoredRuns DEF AskInv, tabVars

\* A screen that has just been put in the tab, over the requests an earlier one left.
LEMMA MountedKeeps ==
  ASSUME NEW st, DOMAIN st \subseteq Runs, NEW a \in Screen(st), Coherent(st, a),
         Awaited(a) = {}, NEW link \in {NoRun} \union DOMAIN st
  PROVE  /\ Blank(link, a.posts) \in Screen(st)
         /\ Coherent(st, Blank(link, a.posts))
         /\ Rendered(Blank(link, a.posts)) \in Screen(st)
         /\ Coherent(st, Rendered(Blank(link, a.posts)))
         /\ Fetching(st, Rendered(Blank(link, a.posts)))
         /\ ~Rendered(Blank(link, a.posts)).busy
<1> DEFINE b == Blank(link, a.posts)
<1>1. /\ b.submitted = NoQuestion /\ ~b.busy /\ b.result = NoRun /\ b.posts = a.posts
  BY DEF Blank
<1>2. b \in Screen(st)
  <2>1. <<>> \in Seq(DOMAIN st)
    OBVIOUS
  <2>2. QED
    BY <2>1 DEF Blank, Screen
<1> HIDE DEF b
<1>3. Questioning(b) = Questioning(a)
  BY <1>1 DEF Questioning
<1>4. \A p \in Questioning(a) : ~p.live
  BY DEF Awaited
<1>5. Coherent(st, b)
  BY <1>1, <1>3, <1>4 DEF Coherent, Awaited, Unserved
<1>6. QED
  BY <1>1, <1>2, <1>5, RenderedKeeps DEF b

\* The question of a screen that is left is awaited by nobody.
LEMMA UnmountedKeeps ==
  ASSUME AskInv
  PROVE  Unmounted \in Screen(store) /\ Coherent(store, Unmounted) /\ Fetching(store, Unmounted)
         /\ ~Unmounted.busy
<1> DEFINE sent == Unserved(ask)
           F == [p \in sent |-> [p EXCEPT !.live = FALSE]]
           a == Unmounted
<1>1. ask \in Screen(store) /\ Coherent(store, ask)
  BY DEF AskInv
<1>2. a = Blank(ask.link, Abandoned(ask.posts)) /\ Abandoned(ask.posts) = {F[p] : p \in sent}
  BY DEF Unmounted, Abandoned, Unserved, Questioning
<1>3. /\ a.submitted = NoQuestion /\ ~a.busy /\ a.result = NoRun
      /\ a.posts = {F[p] : p \in sent}
  BY <1>2 DEF Blank
<1>4. IsFiniteSet(sent) /\ Cardinality(sent) \in Nat
  BY <1>1, UnservedIs DEF Coherent
<1>5. \A p \in sent : /\ F[p] \in Posts /\ F[p].op = "ask" /\ ~F[p].live /\ F[p].stage = "sent"
                      /\ F[p].question \in Prompts
  <2> SUFFICES ASSUME NEW p \in sent
               PROVE  /\ F[p] \in Posts /\ F[p].op = "ask" /\ ~F[p].live /\ F[p].stage = "sent"
                      /\ F[p].question \in Prompts
    OBVIOUS
  <2>1. p \in Posts /\ p.op = "ask" /\ p.stage = "sent" /\ p.question \in Prompts
    BY <1>1 DEF Unserved, Questioning, Screen, Coherent
  <2>2. F[p] = [p EXCEPT !.live = FALSE]
    OBVIOUS
  <2>3. QED
    BY <2>1, <2>2 DEF Posts
<1>6. /\ IsFiniteSet(a.posts) /\ Cardinality(a.posts) \in Nat
      /\ Cardinality(a.posts) <= Cardinality(sent)
  <2>1. F \in Surjection(sent, a.posts)
    BY <1>3 DEF Surjection
  <2>2. QED
    BY <1>4, <2>1, FS_Surjection, FS_CardinalityType
<1> HIDE DEF F, sent
<1>7. a \in Screen(store)
  <2>1. a.posts \subseteq Posts /\ a.posts = Abandoned(ask.posts)
    BY <1>2, <1>3, <1>5
  <2>2. <<>> \in Seq(DOMAIN store) /\ ask.link \in {NoRun} \union DOMAIN store
    BY <1>1 DEF Screen
  <2>3. QED
    BY <1>2, <2>1, <2>2 DEF Blank, Screen
<1> HIDE DEF a
<1>8. Questioning(a) = a.posts /\ Awaited(a) = {} /\ Unserved(a) = a.posts
  BY <1>3, <1>5 DEF Questioning, Awaited, Unserved
<1>9. Len(store) + Cardinality(a.posts) <= MaxRuns
  BY <1>1, <1>4, <1>6, StoredRuns, AskAssumption DEF Coherent, sent
<1>10. Coherent(store, a)
  BY <1>3, <1>5, <1>6, <1>8, <1>9 DEF Coherent
<1>11. Fetching(store, a)
  BY <1>3, <1>5 DEF Fetching
<1>12. QED
  BY <1>3, <1>7, <1>10, <1>11 DEF a

\* A screen rendered with the page.
LEMMA AskStarts ==
  ASSUME TabInit, AskInit
  PROVE  AskInv
<1>1. store \in Seq([of : Sessions, question : Prompts]) /\ Len(store) <= MaxRuns
      /\ Len(store) \in Nat
  <2>1. CASE store = <<>>
    <3>1. <<>> \in Seq([of : Sessions, question : Prompts]) /\ Len(<<>>) = 0
      OBVIOUS
    <3>2. 0 <= MaxRuns /\ 0 \in Nat
      BY AskAssumption
    <3>3. QED
      BY <2>1, <3>1, <3>2
  <2>2. ASSUME NEW s \in Sessions, NEW q \in Prompts, store = <<[of |-> s, question |-> q]>>
        PROVE  /\ store \in Seq([of : Sessions, question : Prompts])
               /\ Len(store) <= MaxRuns /\ Len(store) \in Nat
    <3>1. [of |-> s, question |-> q] \in [of : Sessions, question : Prompts]
      OBVIOUS
    <3>2. \A r : r \in [of : Sessions, question : Prompts] =>
            <<r>> \in Seq([of : Sessions, question : Prompts]) /\ Len(<<r>>) = 1
      OBVIOUS
    <3>3. Len(store) = 1 /\ store \in Seq([of : Sessions, question : Prompts])
      BY <2>2, <3>1, <3>2
    <3>4. QED
      BY <3>3, AskAssumption
  <2>3. store = <<>> \/ \E s \in Sessions, q \in Prompts : store = <<[of |-> s, question |-> q]>>
    BY DEF AskInit
  <2>4. QED
    BY <2>1, <2>2, <2>3
<1>2. PICK link \in {NoRun} \union DOMAIN store :
        ask = IF Ready(view) THEN Rendered(Blank(link, {})) ELSE Blank(link, {})
  BY DEF AskInit
<1> DEFINE a == Blank(link, {})
<1>3. /\ a.submitted = NoQuestion /\ ~a.busy /\ a.result = NoRun /\ a.posts = {}
  BY DEF Blank
<1>4. a \in Screen(store)
  <2>1. <<>> \in Seq(DOMAIN store)
    OBVIOUS
  <2>2. QED
    BY <2>1 DEF Blank, Screen
<1> HIDE DEF a
<1>5. Questioning(a) = {} /\ Awaited(a) = {} /\ Unserved(a) = {}
  BY <1>3 DEF Questioning, Awaited, Unserved
<1>6. Coherent(store, a)
  BY <1>1, <1>3, <1>5, FS_EmptySet, AskAssumption DEF Coherent
<1>7. DOMAIN store \subseteq Runs
  BY <1>1, AskAssumption DEF Runs
<1>8. /\ Rendered(a) \in Screen(store) /\ Coherent(store, Rendered(a))
      /\ Fetching(store, Rendered(a)) /\ ~Rendered(a).busy
  BY <1>3, <1>4, <1>6, <1>7, RenderedKeeps
<1>9. Fetching(store, a)
  BY <1>3 DEF Fetching
<1>10. QED
  BY <1>1, <1>2, <1>3, <1>4, <1>6, <1>8, <1>9 DEF AskInv, a

LEMMA AskSteps ==
  ASSUME AskInv, TabTypeOK, AskNext
  PROVE  AskInv'
<1>1. ASSUME NEW q \in Prompts, Submit(q) PROVE AskInv'
  BY <1>1, SubmitKeeps
<1>2. ASSUME NEW p \in ask.posts, ServeAsk(p) PROVE AskInv'
  BY <1>2, ServeAskKeeps
<1>3. ASSUME NEW p \in ask.posts, ServeRestore(p) \/ NotRestored(p) PROVE AskInv'
  BY <1>3, FetchKeeps
<1>4. ASSUME NEW p \in ask.posts, AskAnswered(p) PROVE AskInv'
  BY <1>4, AnsweredKeeps
<1>5. ASSUME NEW p \in ask.posts, AskRefused(p) \/ Cancel(p) \/ AskTimesOut(p) PROVE AskInv'
  <2>1. PICK rest \in {{}, Orphan(p)} : GivesUp(p, rest)
    BY <1>5 DEF AskRefused, Cancel, AskTimesOut
  <2>2. p.op = "ask" /\ p.live /\ UNCHANGED <<store, view>>
    BY <1>5 DEF AskRefused, Cancel, AskTimesOut, tabVars
  <2>3. QED
    BY <2>1, <2>2, GivesUpKeeps
<1>6. ASSUME NEW p \in ask.posts, Restored(p) PROVE AskInv'
  BY <1>6, RestoredKeeps
<1>7. QED
  BY <1>1, <1>2, <1>3, <1>4, <1>5, <1>6 DEF AskNext

\* The tab's other steps put the screen in and take it away.
LEMMA AskScreenStays ==
  ASSUME AskInv, tab = "ask", Screens
  PROVE  AskInv'
<1>1. UNCHANGED store /\ DOMAIN store \subseteq Runs
  BY StoredRuns DEF Screens, askVars
<1>2. ask \in Screen(store) /\ Coherent(store, ask) /\ ask.link \in {NoRun} \union DOMAIN store
  BY DEF AskInv, Screen
<1>3. CASE Appears
  <2>1. ask' = Rendered(Blank(ask.link, ask.posts)) /\ ~Ready(view)
    BY <1>3 DEF Screens, Mounted, Appears
  <2>2. Awaited(ask) = {}
    BY <2>1 DEF AskInv, Coherent
  <2>3. QED
    BY <1>1, <1>2, <2>1, <2>2, MountedKeeps DEF AskInv
<1>4. CASE ~Appears /\ Disappears
  <2>1. ask' = Unmounted
    BY <1>4 DEF Screens
  <2>2. QED
    BY <1>1, <2>1, UnmountedKeeps DEF AskInv
<1>5. CASE ~Appears /\ ~Disappears
  <2>1. ask' = ask
    BY <1>5 DEF Screens
  <2>2. ~Ready(view') => ~ask.busy
    BY <1>5 DEF Disappears, AskInv
  <2>3. QED
    BY <1>1, <2>1, <2>2 DEF AskInv, Ready
<1>6. QED
  BY <1>3, <1>4, <1>5

\* What the screen promises follows.
LEMMA AskHolds ==
  ASSUME AskInv
  PROVE  AskTypeOK /\ AnswerMatchesQuestion /\ WaitsForOneAnswer
<1>1. /\ store \in Seq([of : Sessions, question : Prompts])
      /\ ask \in Screen(store) /\ Coherent(store, ask)
  BY DEF AskInv
<1>2. AskTypeOK
  BY <1>1, StoredRuns DEF AskTypeOK, Screen
<1>3. AnswerMatchesQuestion
  BY <1>1 DEF Coherent, AnswerMatchesQuestion
<1>4. Awaited(ask) = {p \in ask.posts : p.op = "ask" /\ p.live}
  BY DEF Awaited, Questioning
<1>5. Cardinality(Awaited(ask)) <= 1 /\ (ask.busy <=> Awaited(ask) # {})
      /\ (ask.busy => ask.result = NoRun)
  <2>1. CASE ask.busy
    <3>1. PICK p : Awaited(ask) = {p}
      BY <1>1, <2>1 DEF Coherent
    <3>2. Cardinality({p}) = 1
      BY FS_Singleton
    <3>3. QED
      BY <1>1, <2>1, <3>1, <3>2 DEF Coherent
  <2>2. CASE ~ask.busy
    <3>1. Awaited(ask) = {} /\ Cardinality({}) = 0
      BY <1>1, <2>2, FS_EmptySet DEF Coherent
    <3>2. QED
      BY <2>2, <3>1
  <2>3. QED
    BY <2>1, <2>2
<1>6. QED
  BY <1>2, <1>3, <1>4, <1>5 DEF WaitsForOneAnswer

(***************************************************************************)
(* The approvals screen.                                                   *)
(***************************************************************************)
Desk ==
  [shown : SUBSET RowsShown, selected : RowsShown \union {NoRow}, confirmed : BOOLEAN,
   composing : BOOLEAN, seeded : BOOLEAN, busy : 0 .. Composing, posts : SUBSET DeskCalls]

DeskSent(post, d) == [d EXCEPT !.posts = d.posts \union {post}]
Drafts(d) == {p \in d.posts : p.op = "propose" /\ p.stage = "sent"}

\* What the screen sends: a brief's draft with the brief's id, an approval of what was ticked,
\* and no draft that the server has no room for.
Meant(ps, rv, d) ==
  /\ d \in Desk
  /\ \A p \in d.posts :
       /\ p.op = "propose" => p.text \in Texts /\ (p.brief => p.keyed)
       /\ p.op = "approve" => p.id \in rv
  /\ d.confirmed => d.selected.id \in rv
  /\ IsFiniteSet(d.posts)
  /\ Len(ps) + Cardinality(Drafts(d)) <= MaxProposals

Ledger == Seq([brief : BOOLEAN, keyed : BOOLEAN, text : Texts, status : Statuses])

DeskInv ==
  /\ proposals \in Ledger /\ reviewed \subseteq Ids
  /\ Meant(proposals, reviewed, desk)
  /\ \A i \in DOMAIN proposals : proposals[i].brief => proposals[i].keyed
  /\ \A i, j \in DOMAIN proposals :
       proposals[i].keyed /\ proposals[j].keyed /\ proposals[i].text = proposals[j].text => i = j
  /\ NothingUnreviewed

LEMMA DraftsAre ==
  ASSUME NEW d, IsFiniteSet(d.posts)
  PROVE  IsFiniteSet(Drafts(d)) /\ Cardinality(Drafts(d)) \in Nat
<1>1. Drafts(d) \in SUBSET d.posts
  BY DEF Drafts
<1>2. QED
  BY <1>1, FS_Subset, FS_CardinalityType

\* Fewer requests, or others for the same things, are meant too.
LEMMA StillMeant ==
  ASSUME NEW ps, Len(ps) \in Nat, NEW rv, NEW d, Meant(ps, rv, d), NEW b \in Desk,
         IsFiniteSet(b.posts),
         \A q \in b.posts : q.op = "list" \/ \E p \in d.posts :
           q.op = p.op /\ q.text = p.text /\ q.brief = p.brief /\ q.keyed = p.keyed
           /\ q.id = p.id,
         Cardinality(Drafts(b)) <= Cardinality(Drafts(d)),
         b.confirmed => d.confirmed /\ b.selected = d.selected
  PROVE  Meant(ps, rv, b)
<1>1. Cardinality(Drafts(b)) \in Nat /\ Cardinality(Drafts(d)) \in Nat
  BY DraftsAre DEF Meant
<1>2. Len(ps) + Cardinality(Drafts(b)) <= MaxProposals
  BY <1>1, DeskAssumption DEF Meant
<1>3. \A q \in b.posts :
        /\ q.op = "propose" => q.text \in Texts /\ (q.brief => q.keyed)
        /\ q.op = "approve" => q.id \in rv
  BY DEF Meant
<1>4. b.confirmed => b.selected.id \in rv
  BY DEF Meant
<1>5. QED
  BY <1>2, <1>3, <1>4 DEF Meant

LEMMA FieldsMeant ==
  ASSUME NEW ps, Len(ps) \in Nat, NEW rv, NEW d, Meant(ps, rv, d), NEW b \in Desk,
         b.posts = d.posts,
         b.confirmed => d.confirmed /\ b.selected = d.selected
  PROVE  Meant(ps, rv, b)
<1>1. Drafts(b) = Drafts(d)
  BY DEF Drafts
<1>2. Cardinality(Drafts(b)) <= Cardinality(Drafts(d)) /\ IsFiniteSet(b.posts)
  BY <1>1, DraftsAre DEF Meant
<1>3. QED
  BY <1>2, StillMeant

LEMMA DeskRequestsTyped ==
  /\ \A after \in {"nothing", "refresh", "propose", "approve", "failure"} :
       List(after) \in DeskCalls
  /\ \A brief, keyed \in BOOLEAN, text \in Texts : Propose(brief, keyed, text) \in DeskCalls
  /\ \A id \in Ids : Approval(id) \in DeskCalls
<1>1. ASSUME NEW after \in {"nothing", "refresh", "propose", "approve", "failure"}
      PROVE  List(after) \in DeskCalls
  BY DEF List, DeskCalls
<1>2. ASSUME NEW brief \in BOOLEAN, NEW keyed \in BOOLEAN, NEW text \in Texts
      PROVE  Propose(brief, keyed, text) \in DeskCalls
  BY DEF Propose, List, DeskCalls
<1>3. ASSUME NEW id \in Ids PROVE Approval(id) \in DeskCalls
  BY DEF Approval, List, DeskCalls
<1>4. QED
  BY <1>1, <1>2, <1>3

\* A request that is over.
LEMMA WithoutMeant ==
  ASSUME NEW ps, Len(ps) \in Nat, NEW rv, NEW d, Meant(ps, rv, d), NEW p
  PROVE  Meant(ps, rv, [d EXCEPT !.posts = d.posts \ {p}])
<1> DEFINE b == [d EXCEPT !.posts = d.posts \ {p}]
<1>1. d \in Desk /\ IsFiniteSet(d.posts)
  BY DEF Meant
<1>2. /\ b \in Desk /\ b.posts = d.posts \ {p} /\ b.confirmed = d.confirmed
      /\ b.selected = d.selected
  BY <1>1 DEF Desk
<1> HIDE DEF b
<1>3. b.posts \in SUBSET d.posts /\ Drafts(b) \in SUBSET Drafts(d)
  BY <1>2 DEF Drafts
<1>4. IsFiniteSet(b.posts) /\ Cardinality(Drafts(b)) <= Cardinality(Drafts(d))
  BY <1>1, <1>3, DraftsAre, FS_Subset
<1>5. QED
  BY <1>2, <1>3, <1>4, StillMeant DEF b

\* A request for the list, on top of what is meant.
LEMMA ListMeant ==
  ASSUME NEW ps, Len(ps) \in Nat, NEW rv, NEW d, Meant(ps, rv, d),
         NEW after \in {"nothing", "refresh", "propose", "approve", "failure"}
  PROVE  Meant(ps, rv, [d EXCEPT !.posts = d.posts \union {List(after)}])
<1> DEFINE b == [d EXCEPT !.posts = d.posts \union {List(after)}]
<1>1. d \in Desk /\ IsFiniteSet(d.posts)
  BY DEF Meant
<1>2. List(after) \in DeskCalls /\ List(after).op = "list"
  BY DeskRequestsTyped DEF List
<1>3. /\ b \in Desk /\ b.posts = d.posts \union {List(after)} /\ b.confirmed = d.confirmed
      /\ b.selected = d.selected
  BY <1>1, <1>2 DEF Desk
<1> HIDE DEF b
<1>4. Drafts(b) = Drafts(d) /\ b.posts \subseteq d.posts \union {List(after)}
  BY <1>2, <1>3 DEF Drafts
<1>5. IsFiniteSet(b.posts) /\ Cardinality(Drafts(b)) <= Cardinality(Drafts(d))
  <2>1. IsFiniteSet(b.posts)
    BY <1>1, <1>4, OneMore
  <2>2. Cardinality(Drafts(d)) \in Nat /\ Cardinality(Drafts(b)) = Cardinality(Drafts(d))
    BY <1>1, <1>4, DraftsAre
  <2>3. QED
    BY <2>1, <2>2
<1>6. QED
  BY <1>2, <1>3, <1>5, StillMeant DEF b

\* A request that was served, or that its screen no longer awaits.
LEMMA ReplacedMeant ==
  ASSUME NEW ps, Len(ps) \in Nat, NEW rv, NEW d, Meant(ps, rv, d), NEW p \in d.posts,
         NEW q \in DeskCalls, q.op = p.op, q.text = p.text, q.brief = p.brief,
         q.keyed = p.keyed, q.id = p.id, q.stage = "sent" => p.stage = "sent"
  PROVE  Meant(ps, rv, [d EXCEPT !.posts = (d.posts \ {p}) \union {q}])
<1> DEFINE b == [d EXCEPT !.posts = (d.posts \ {p}) \union {q}]
<1>1. d \in Desk /\ IsFiniteSet(d.posts)
  BY DEF Meant
<1>2. /\ b \in Desk /\ b.posts = (d.posts \ {p}) \union {q} /\ b.confirmed = d.confirmed
      /\ b.selected = d.selected
  BY <1>1 DEF Desk
<1> HIDE DEF b
<1>3. IsFiniteSet(b.posts)
  <2>1. b.posts \subseteq d.posts \union {q}
    BY <1>2
  <2>2. QED
    BY <1>1, <2>1, OneMore
<1>4. Cardinality(Drafts(b)) <= Cardinality(Drafts(d))
  <2>1. IsFiniteSet(Drafts(d)) /\ Cardinality(Drafts(d)) \in Nat
    BY <1>1, DraftsAre
  <2>2. CASE p \in Drafts(d)
    <3>1. /\ IsFiniteSet(Drafts(d) \ {p}) /\ Cardinality(Drafts(d) \ {p}) \in Nat
          /\ Cardinality(Drafts(d) \ {p}) + 1 <= Cardinality(Drafts(d))
      BY <2>1, <2>2, OneLess
    <3>2. Drafts(b) \subseteq (Drafts(d) \ {p}) \union {q}
      BY <1>2 DEF Drafts
    <3>3. /\ Cardinality(Drafts(b)) \in Nat
          /\ Cardinality(Drafts(b)) <= Cardinality(Drafts(d) \ {p}) + 1
      BY <3>1, <3>2, OneMore
    <3>4. QED
      BY <2>1, <3>1, <3>3
  <2>3. CASE p \notin Drafts(d)
    <3>1. Drafts(b) \in SUBSET Drafts(d)
      BY <1>2, <2>3 DEF Drafts
    <3>2. QED
      BY <2>1, <3>1, FS_Subset
  <2>4. QED
    BY <2>2, <2>3
<1>5. \A r \in b.posts : r.op = "list" \/ \E s \in d.posts :
        r.op = s.op /\ r.text = s.text /\ r.brief = s.brief /\ r.keyed = s.keyed /\ r.id = s.id
  BY <1>2
<1>6. QED
  BY <1>2, <1>3, <1>4, <1>5, StillMeant DEF b

LEMMA FreshMeant ==
  ASSUME NEW ps, Len(ps) \in Nat, NEW rv, NEW d, Meant(ps, rv, d), NEW seeded \in BOOLEAN,
         NEW posts \in SUBSET DeskCalls, IsFiniteSet(posts),
         Cardinality({p \in posts : p.op = "propose" /\ p.stage = "sent"})
           <= Cardinality(Drafts(d)),
         \A q \in posts : \E p \in d.posts :
           q.op = p.op /\ q.text = p.text /\ q.brief = p.brief /\ q.keyed = p.keyed
           /\ q.id = p.id
  PROVE  Meant(ps, rv, Fresh(seeded, posts))
<1> DEFINE b == Fresh(seeded, posts)
<1>1. List("nothing") \in DeskCalls /\ List("nothing").op = "list"
  BY DeskRequestsTyped DEF List
<1>2. b.posts = posts \union {List("nothing")} /\ ~b.confirmed
  BY DEF Fresh
<1>3. b \in Desk
  <2>1. posts \union {List("nothing")} \in SUBSET DeskCalls
    BY <1>1
  <2>2. 0 \in 0 .. Composing
    BY DeskAssumption DEF Composing
  <2>3. QED
    BY <2>1, <2>2 DEF Fresh, Desk
<1> HIDE DEF b
<1>4. Drafts(b) = {p \in posts : p.op = "propose" /\ p.stage = "sent"}
  BY <1>1, <1>2 DEF Drafts
<1>5. IsFiniteSet(b.posts)
  <2>1. b.posts \subseteq posts \union {List("nothing")}
    BY <1>2
  <2>2. QED
    BY <2>1, OneMore
<1>6. \A q \in b.posts : q.op = "list" \/ \E p \in d.posts :
        q.op = p.op /\ q.text = p.text /\ q.brief = p.brief /\ q.keyed = p.keyed /\ q.id = p.id
  BY <1>1, <1>2
<1>7. QED
  BY <1>2, <1>3, <1>4, <1>5, <1>6, StillMeant DEF b

\* The screen that replaces the one that had the brief: the old one's writes go on.
LEMMA SeedUsedMeant ==
  ASSUME NEW ps, Len(ps) \in Nat, NEW rv, NEW d, Meant(ps, rv, d)
  PROVE  Meant(ps, rv, SeedUsed(d))
<1> DEFINE sent == {p \in d.posts : p.op # "list" /\ p.stage = "sent"}
           F == [p \in sent |-> [p EXCEPT !.live = FALSE]]
           posts == Orphaned(d.posts)
<1>1. d \in Desk /\ IsFiniteSet(d.posts) /\ d.posts \subseteq DeskCalls
  BY DEF Meant, Desk
<1>2. posts = {F[p] : p \in sent}
  BY DEF Orphaned
<1>3. \A p \in sent : /\ F[p] \in DeskCalls /\ F[p].op = p.op /\ F[p].text = p.text
                      /\ F[p].brief = p.brief /\ F[p].keyed = p.keyed /\ F[p].id = p.id
                      /\ F[p].stage = p.stage
  <2> SUFFICES ASSUME NEW p \in sent
               PROVE  /\ F[p] \in DeskCalls /\ F[p].op = p.op /\ F[p].text = p.text
                      /\ F[p].brief = p.brief /\ F[p].keyed = p.keyed /\ F[p].id = p.id
                      /\ F[p].stage = p.stage
    OBVIOUS
  <2>1. p \in DeskCalls /\ F[p] = [p EXCEPT !.live = FALSE]
    BY <1>1
  <2>2. QED
    BY <2>1 DEF DeskCalls
<1>4. IsFiniteSet(sent)
  <2>1. sent \in SUBSET d.posts
    OBVIOUS
  <2>2. QED
    BY <1>1, <2>1, FS_Subset
<1>5. IsFiniteSet(posts)
  <2>1. F \in Surjection(sent, posts)
    BY <1>2 DEF Surjection
  <2>2. QED
    BY <1>4, <2>1, FS_Surjection
<1> HIDE DEF F, posts
<1>6. Cardinality({p \in posts : p.op = "propose" /\ p.stage = "sent"}) <= Cardinality(Drafts(d))
  <2> DEFINE G == [p \in Drafts(d) |-> F[p]]
             T == {p \in posts : p.op = "propose" /\ p.stage = "sent"}
  <2>0. Drafts(d) = {p \in sent : p.op = "propose" /\ p.stage = "sent"}
    BY DEF Drafts
  <2>1. Drafts(d) \subseteq sent /\ T = {F[p] : p \in Drafts(d)}
    <3> HIDE DEF sent
    <3>1. QED
      BY <1>2, <1>3, <2>0
  <2>2. T = {G[p] : p \in Drafts(d)}
    BY <2>1
  <2>3. G \in Surjection(Drafts(d), T)
    <3> HIDE DEF T, F
    <3>1. QED
      BY <2>2 DEF Surjection
  <2>4. IsFiniteSet(Drafts(d))
    BY <1>1, DraftsAre
  <2> HIDE DEF T, G
  <2>5. Cardinality(T) <= Cardinality(Drafts(d))
    BY <2>3, <2>4, FS_Surjection
  <2>6. QED
    BY <2>5 DEF T
<1>7. CASE d.seeded
  <2>1. posts \in SUBSET DeskCalls
    <3> HIDE DEF sent
    <3>1. QED
      BY <1>2, <1>3
  <2>2. \A q \in posts : \E p \in d.posts :
          q.op = p.op /\ q.text = p.text /\ q.brief = p.brief /\ q.keyed = p.keyed /\ q.id = p.id
    <3>1. \A p \in sent : p \in d.posts
      OBVIOUS
    <3> HIDE DEF sent
    <3>2. QED
      BY <1>2, <1>3, <3>1
  <2> HIDE DEF posts, sent, F
  <2>3. Meant(ps, rv, Fresh(FALSE, posts))
    BY <1>5, <1>6, <2>1, <2>2, FreshMeant
  <2>4. SeedUsed(d) = Fresh(FALSE, posts)
    BY <1>7 DEF SeedUsed, posts
  <2>5. QED
    BY <2>3, <2>4
<1>8. CASE ~d.seeded
  <2> DEFINE b == [d EXCEPT !.composing = FALSE]
  <2>1. /\ b \in Desk /\ b.posts = d.posts /\ b.confirmed = d.confirmed
        /\ b.selected = d.selected
    BY <1>1 DEF Desk
  <2> HIDE DEF b
  <2>2. Meant(ps, rv, b)
    BY <2>1, FieldsMeant
  <2>3. SeedUsed(d) = b
    BY <1>8 DEF SeedUsed, b
  <2>4. QED
    BY <2>2, <2>3
<1>9. QED
  BY <1>1, <1>7, <1>8 DEF Desk

LEMMA ClosedMeant ==
  ASSUME NEW ps, Len(ps) \in Nat, NEW rv, NEW d, Meant(ps, rv, d),
         NEW row \in RowsShown \union {NoRow}
  PROVE  /\ Meant(ps, rv, Show(d, row))
         /\ Meant(ps, rv, Finished(d))
         /\ Meant(ps, rv, Finished(Show(d, row)))
         /\ Meant(ps, rv, SeedUsed(Finished([d EXCEPT !.composing = FALSE])))
<1>1. \A c : Meant(ps, rv, c) => Meant(ps, rv, Finished(c)) /\ Meant(ps, rv, Show(c, row))
             /\ Meant(ps, rv, [c EXCEPT !.composing = FALSE])
  <2> SUFFICES ASSUME NEW c, Meant(ps, rv, c)
               PROVE  Meant(ps, rv, Finished(c)) /\ Meant(ps, rv, Show(c, row))
                      /\ Meant(ps, rv, [c EXCEPT !.composing = FALSE])
    OBVIOUS
  <2>1. c \in Desk
    BY DEF Meant
  <2>2. /\ Finished(c) \in Desk /\ Finished(c).posts = c.posts
        /\ Finished(c).confirmed = c.confirmed /\ Finished(c).selected = c.selected
    BY <2>1, DeskAssumption DEF Finished, Desk, Composing
  <2>3. Show(c, row) \in Desk /\ Show(c, row).posts = c.posts /\ ~Show(c, row).confirmed
    BY <2>1 DEF Show, Desk
  <2> DEFINE b == [c EXCEPT !.composing = FALSE]
  <2>4. b \in Desk /\ b.posts = c.posts /\ b.confirmed = c.confirmed /\ b.selected = c.selected
    BY <2>1 DEF Desk
  <2> HIDE DEF b
  <2>5. Meant(ps, rv, b)
    BY <2>4, FieldsMeant
  <2>6. QED
    BY <2>2, <2>3, <2>5, FieldsMeant DEF b
<1>2. QED
  BY <1>1, SeedUsedMeant

\* The screen's own steps leave the ledger and the ticks alone.
LEMMA LedgerStays ==
  ASSUME DeskInv, UNCHANGED <<proposals, reviewed>>,
         Meant(proposals, reviewed, desk')
  PROVE  DeskInv'
<1>1. Meant(proposals, reviewed, desk)'
  OBVIOUS
<1>2. QED
  BY <1>1 DEF DeskInv, NothingUnreviewed

LEMMA DeskIs ==
  ASSUME DeskInv
  PROVE  /\ desk \in Desk /\ Meant(proposals, reviewed, desk) /\ Len(proposals) \in Nat
         /\ DOMAIN proposals = 1 .. Len(proposals) /\ Len(proposals) <= MaxProposals
         /\ IsFiniteSet(desk.posts) /\ desk.posts \subseteq DeskCalls
<1>1. /\ Meant(proposals, reviewed, desk) /\ Len(proposals) \in Nat
      /\ DOMAIN proposals = 1 .. Len(proposals)
  BY DEF DeskInv, Ledger
<1>2. desk \in Desk /\ IsFiniteSet(desk.posts) /\ desk.posts \subseteq DeskCalls
  BY <1>1 DEF Meant, Desk
<1>3. Len(proposals) <= MaxProposals
  BY <1>1, DraftsAre, DeskAssumption DEF Meant
<1>4. QED
  BY <1>1, <1>2, <1>3

LEMMA ComposerKeeps ==
  ASSUME DeskInv, OpenComposer \/ CloseComposer \/ CloseReview \/ RefreshProposals
  PROVE  DeskInv'
<1>1. Meant(proposals, reviewed, desk) /\ Len(proposals) \in Nat /\ desk \in Desk
  BY DeskIs
<1>2. CASE OpenComposer
  <2> DEFINE b == [desk EXCEPT !.composing = TRUE]
  <2>1. /\ b \in Desk /\ b.posts = desk.posts /\ b.confirmed = desk.confirmed
        /\ b.selected = desk.selected
    BY <1>1 DEF Desk
  <2>2. desk' = b /\ UNCHANGED <<proposals, reviewed>>
    BY <1>2 DEF OpenComposer
  <2> HIDE DEF b
  <2>3. QED
    BY <1>1, <2>1, <2>2, FieldsMeant, LedgerStays
<1>3. CASE CloseComposer
  BY <1>1, <1>3, SeedUsedMeant, LedgerStays DEF CloseComposer
<1>4. CASE CloseReview
  BY <1>1, <1>4, ClosedMeant, LedgerStays DEF CloseReview
<1>5. CASE RefreshProposals
  <2>1. desk' = [desk EXCEPT !.posts = desk.posts \union {List("refresh")}]
        /\ UNCHANGED <<proposals, reviewed>>
    BY <1>5 DEF RefreshProposals, DeskSends
  <2>2. QED
    BY <1>1, <2>1, ListMeant, LedgerStays
<1>6. QED
  BY <1>2, <1>3, <1>4, <1>5

LEMMA CreateKeeps ==
  ASSUME DeskInv, NEW text \in Texts, CreateProposal(text)
  PROVE  DeskInv'
<1> DEFINE post == Propose(desk.seeded, desk.seeded, text)
           b == [desk EXCEPT !.busy = Composing, !.posts = desk.posts \union {post}]
<1>1. /\ Meant(proposals, reviewed, desk) /\ Len(proposals) \in Nat /\ desk \in Desk
      /\ IsFiniteSet(desk.posts)
  BY DeskIs
<1>2. /\ post \in DeskCalls /\ post.op = "propose" /\ post.text = text
      /\ post.brief = desk.seeded /\ post.keyed = desk.seeded
  BY <1>1, DeskRequestsTyped DEF Propose, List, Desk
<1> HIDE DEF post
<1>3. UNCHANGED <<proposals, reviewed>> /\ desk' = b
  <2> DEFINE w == [desk EXCEPT !.busy = Composing]
  <2>1. desk' = DeskSent(post, w) /\ UNCHANGED <<proposals, reviewed>>
    BY DEF CreateProposal, DeskSends, post, DeskSent
  <2>2. DeskSent(post, w) = b
    BY <1>1 DEF DeskSent, Desk
  <2>3. QED
    BY <2>1, <2>2
<1>4. /\ b \in Desk /\ b.posts = desk.posts \union {post} /\ b.confirmed = desk.confirmed
      /\ b.selected = desk.selected
  <2>1. Composing \in 0 .. Composing
    BY DeskAssumption DEF Composing
  <2>2. QED
    BY <1>1, <1>2, <2>1 DEF Desk
<1> HIDE DEF b
<1>5. IsFiniteSet(b.posts)
  BY <1>1, <1>4, OneMore
<1>6. Len(proposals) + Cardinality(Drafts(b)) <= MaxProposals
  <2>1. Len(proposals) + Cardinality({p \in desk.posts : p.op = "propose"}) < MaxProposals
    BY DEF CreateProposal, Unsealed
  <2> DEFINE D == {p \in desk.posts : p.op = "propose"}
  <2>2. IsFiniteSet(D) /\ Cardinality(D) \in Nat
    <3>1. D \in SUBSET desk.posts
      OBVIOUS
    <3>2. QED
      BY <1>1, <3>1, FS_Subset, FS_CardinalityType
  <2>3. Drafts(b) \subseteq D \union {post}
    BY <1>4 DEF Drafts
  <2>4. Cardinality(Drafts(b)) \in Nat /\ Cardinality(Drafts(b)) <= Cardinality(D) + 1
    BY <2>2, <2>3, OneMore
  <2>5. QED
    BY <1>1, <2>1, <2>2, <2>4, DeskAssumption
<1>7. \A q \in b.posts :
        /\ q.op = "propose" => q.text \in Texts /\ (q.brief => q.keyed)
        /\ q.op = "approve" => q.id \in reviewed
  BY <1>1, <1>2, <1>4 DEF Meant
<1>8. Meant(proposals, reviewed, b)
  BY <1>1, <1>4, <1>5, <1>6, <1>7 DEF Meant
<1>9. QED
  BY <1>3, <1>8, LedgerStays

\* The review: a tick is of the row on screen, and an approval of the row that was ticked.
LEMMA ReviewKeeps ==
  ASSUME DeskInv, (\E row \in RowsShown : Review(row)) \/ Confirm \/ Approve
  PROVE  DeskInv'
<1>1. /\ Meant(proposals, reviewed, desk) /\ Len(proposals) \in Nat /\ desk \in Desk
      /\ IsFiniteSet(desk.posts)
  BY DeskIs
<1>2. ASSUME NEW row \in RowsShown, Review(row) PROVE DeskInv'
  BY <1>1, <1>2, ClosedMeant, LedgerStays DEF Review
<1>3. Undecided => desk.selected \in RowsShown /\ desk.selected.id \in Ids
  BY <1>1 DEF Undecided, Desk, RowsShown, NoRow
<1>4. CASE Confirm
  <2> DEFINE b == [desk EXCEPT !.confirmed = TRUE]
             rv == reviewed \union {desk.selected.id}
  <2>1. /\ b \in Desk /\ b.posts = desk.posts /\ b.selected = desk.selected
    BY <1>1 DEF Desk
  <2>2. desk' = b /\ reviewed' = rv /\ UNCHANGED proposals /\ desk.selected.id \in Ids
    BY <1>3, <1>4 DEF Confirm
  <2> HIDE DEF b
  <2>3. Drafts(b) = Drafts(desk)
    BY <2>1 DEF Drafts
  <2>4. Meant(proposals, rv, b)
    BY <1>1, <2>1, <2>3 DEF Meant
  <2>5. Meant(proposals, reviewed, desk)'
    BY <2>2, <2>4
  <2>6. QED
    BY <2>2, <2>5 DEF DeskInv, NothingUnreviewed
<1>5. CASE Approve
  <2> DEFINE post == Approval(desk.selected.id)
             b == [desk EXCEPT !.busy = desk.selected.id, !.posts = desk.posts \union {post}]
  <2>1. /\ post \in DeskCalls /\ post.op = "approve" /\ post.id = desk.selected.id
        /\ desk.confirmed /\ desk.selected.id \in Ids
    BY <1>3, <1>5, DeskRequestsTyped DEF Approve, Approval, List
  <2> HIDE DEF post
  <2>2. UNCHANGED <<proposals, reviewed>> /\ desk' = b
    <3> DEFINE w == [desk EXCEPT !.busy = desk.selected.id]
    <3>1. desk' = DeskSent(post, w) /\ UNCHANGED <<proposals, reviewed>>
      BY <1>5 DEF Approve, DeskSends, post, DeskSent
    <3>2. DeskSent(post, w) = b
      BY <1>1 DEF DeskSent, Desk
    <3>3. QED
      BY <3>1, <3>2
  <2>3. /\ b \in Desk /\ b.posts = desk.posts \union {post} /\ b.confirmed = desk.confirmed
        /\ b.selected = desk.selected
    <3>1. desk.selected.id \in 0 .. Composing
      BY <2>1, DeskAssumption DEF Composing, Ids
    <3>2. QED
      BY <1>1, <2>1, <3>1 DEF Desk
  <2> HIDE DEF b
  <2>4. IsFiniteSet(b.posts)
    BY <1>1, <2>3, OneMore
  <2>5. Drafts(b) = Drafts(desk)
    BY <2>1, <2>3 DEF Drafts
  <2>6. Meant(proposals, reviewed, b)
    BY <1>1, <2>1, <2>3, <2>4, <2>5 DEF Meant
  <2>7. QED
    BY <2>2, <2>6, LedgerStays
<1>6. QED
  BY <1>2, <1>4, <1>5

\* What an answer is followed by.
LEMMA DeliveredKeeps ==
  ASSUME DeskInv, NEW p \in desk.posts, Succeeded(p) \/ ShowProposals(p)
  PROVE  DeskInv'
<1>1. /\ Meant(proposals, reviewed, desk) /\ Len(proposals) \in Nat /\ desk \in Desk
      /\ p \in DeskCalls
  BY DeskIs
<1> DEFINE w == Without(p)
<1>2. Meant(proposals, reviewed, w) /\ w \in Desk
  BY <1>1, WithoutMeant DEF Without, Meant
<1> HIDE DEF w
<1>3. CASE Succeeded(p)
  <2>1. p.op \in {"propose", "approve"} /\ UNCHANGED <<proposals, reviewed>>
    BY <1>1, <1>3 DEF Succeeded, DeskCalls
  <2>2. desk' = [w EXCEPT !.posts = w.posts \union {List(p.op)}]
    BY <1>3 DEF Succeeded, DeskSends, w
  <2>3. QED
    BY <1>1, <1>2, <2>1, <2>2, ListMeant, LedgerStays
<1>4. CASE ShowProposals(p)
  <2> DEFINE d == [w EXCEPT !.shown = p.shown]
  <2>1. desk' = ThenClose(p, d) /\ UNCHANGED <<proposals, reviewed>>
    BY <1>4 DEF ShowProposals, w
  <2>2. /\ d \in Desk /\ d.posts = w.posts /\ d.confirmed = w.confirmed
        /\ d.selected = w.selected
    BY <1>1, <1>2 DEF Desk, DeskCalls
  <2> HIDE DEF d
  <2>3. Meant(proposals, reviewed, d)
    BY <1>1, <1>2, <2>2, FieldsMeant
  <2>4. p.after \in {"nothing", "refresh", "propose", "approve", "failure"}
    BY <1>1 DEF DeskCalls
  <2>5. CASE p.after \in {"nothing", "refresh"}
    <3>1. ThenClose(p, d) = d
      BY <2>5 DEF ThenClose
    <3>2. QED
      BY <2>1, <2>3, <3>1, LedgerStays
  <2>6. CASE p.after = "propose"
    <3>1. ThenClose(p, d) = SeedUsed(Finished([d EXCEPT !.composing = FALSE]))
      BY <2>6 DEF ThenClose
    <3>2. QED
      BY <1>1, <2>1, <2>3, <3>1, ClosedMeant, LedgerStays
  <2>7. CASE p.after \in {"approve", "failure"}
    <3>1. ThenClose(p, d) = Finished(Show(d, NoRow))
      BY <2>7 DEF ThenClose
    <3>2. QED
      BY <1>1, <2>1, <2>3, <3>1, ClosedMeant, LedgerStays
  <2>8. QED
    BY <2>4, <2>5, <2>6, <2>7
<1>5. QED
  BY <1>3, <1>4

LEMMA FailureKeeps ==
  ASSUME DeskInv, NEW p \in desk.posts, Fails(p), UNCHANGED <<proposals, reviewed>>
  PROVE  DeskInv'
<1> DEFINE late == [p EXCEPT !.live = FALSE]
           expected == IF p.op # "list" /\ p.stage = "sent" THEN {late} ELSE {}
           rest == [desk EXCEPT !.posts = (desk.posts \ {p}) \union expected]
<1>1. /\ Meant(proposals, reviewed, desk) /\ Len(proposals) \in Nat /\ desk \in Desk
      /\ p \in DeskCalls
  BY DeskIs
<1>2. Meant(proposals, reviewed, rest) /\ rest \in Desk
  <2>1. /\ late \in DeskCalls /\ late.op = p.op /\ late.text = p.text /\ late.brief = p.brief
        /\ late.keyed = p.keyed /\ late.id = p.id /\ late.stage = p.stage
    BY <1>1 DEF DeskCalls
  <2> HIDE DEF late
  <2>2. CASE expected = {late}
    <3>1. rest = [desk EXCEPT !.posts = (desk.posts \ {p}) \union {late}]
      BY <2>2
    <3> HIDE DEF rest, expected
    <3>2. Meant(proposals, reviewed, rest)
      BY <1>1, <2>1, <3>1, ReplacedMeant
    <3>3. QED
      BY <3>2 DEF Meant
  <2>3. CASE expected = {}
    <3>1. rest = [desk EXCEPT !.posts = desk.posts \ {p}]
      BY <2>3
    <3> HIDE DEF rest, expected
    <3>2. Meant(proposals, reviewed, rest)
      BY <1>1, <3>1, WithoutMeant
    <3>3. QED
      BY <3>2 DEF Meant
  <2>4. QED
    BY <2>2, <2>3
<1>3. \/ desk' = [rest EXCEPT !.posts = rest.posts \union {List("failure")}]
      \/ desk' = Finished(Show(rest, NoRow))
      \/ desk' = Finished(rest)
      \/ desk' = rest
  <2> HIDE DEF rest, expected
  <2>1. CASE p.op = "approve" \/ p.after = "approve"
    BY <2>1 DEF Fails, DeskSends, rest, expected
  <2>2. CASE ~(p.op = "approve" \/ p.after = "approve") /\ p.after = "failure"
    BY <2>2 DEF Fails, rest, expected
  <2>3. CASE /\ ~(p.op = "approve" \/ p.after = "approve") /\ p.after # "failure"
             /\ p.op = "propose" \/ p.after = "propose"
    BY <2>3 DEF Fails, rest, expected
  <2>4. CASE /\ ~(p.op = "approve" \/ p.after = "approve") /\ p.after # "failure"
             /\ ~(p.op = "propose" \/ p.after = "propose")
    BY <2>4 DEF Fails, rest, expected
  <2>5. QED
    BY <2>1, <2>2, <2>3, <2>4
<1> HIDE DEF rest
<1>4. /\ Meant(proposals, reviewed, [rest EXCEPT !.posts = rest.posts \union {List("failure")}])
      /\ Meant(proposals, reviewed, Finished(Show(rest, NoRow)))
      /\ Meant(proposals, reviewed, Finished(rest))
  BY <1>1, <1>2, ListMeant, ClosedMeant
<1>5. QED
  BY <1>2, <1>3, <1>4, LedgerStays

\* The server's answer to a request that something may still wait for.
LEMMA RepliedMeant ==
  ASSUME DeskInv, NEW p \in desk.posts, p.stage = "sent", NEW ok \in BOOLEAN,
         NEW shown \in SUBSET RowsShown, DeskReply(p, ok, shown)
  PROVE  /\ Meant(proposals, reviewed, desk')
         /\ Drafts(desk') \subseteq Drafts(desk) \ {p}
<1> DEFINE replied == [p EXCEPT !.stage = IF ok THEN "answered" ELSE "refused", !.shown = shown]
           kept == IF p.live THEN {replied} ELSE {}
           b == [desk EXCEPT !.posts = (desk.posts \ {p}) \union kept]
<1>1. /\ Meant(proposals, reviewed, desk) /\ Len(proposals) \in Nat /\ desk \in Desk
      /\ p \in DeskCalls
  BY DeskIs
<1>2. desk' = b
  BY DEF DeskReply
<1>3. /\ replied \in DeskCalls /\ replied.op = p.op /\ replied.text = p.text
      /\ replied.brief = p.brief /\ replied.keyed = p.keyed /\ replied.id = p.id
      /\ replied.stage # "sent"
  BY <1>1 DEF DeskCalls
<1> HIDE DEF replied
<1>4. kept = {replied} \/ kept = {}
  OBVIOUS
<1>5. b.posts = (desk.posts \ {p}) \union kept
  BY <1>1 DEF Desk
<1>6. Meant(proposals, reviewed, b)
  <2> HIDE DEF kept
  <2>1. CASE kept = {replied}
    <3>1. b = [desk EXCEPT !.posts = (desk.posts \ {p}) \union {replied}]
      BY <2>1
    <3> HIDE DEF b
    <3>2. QED
      BY <1>1, <1>3, <3>1, ReplacedMeant
  <2>2. CASE kept = {}
    <3>1. b = [desk EXCEPT !.posts = desk.posts \ {p}]
      BY <2>2
    <3> HIDE DEF b
    <3>2. QED
      BY <1>1, <3>1, WithoutMeant
  <2>3. QED
    BY <1>4, <2>1, <2>2
<1> HIDE DEF b, kept
<1>7. Drafts(b) \subseteq Drafts(desk) \ {p}
  BY <1>3, <1>4, <1>5 DEF Drafts
<1>8. QED
  BY <1>2, <1>6, <1>7

LEMMA ServeDeskKeeps ==
  ASSUME DeskInv, NEW p \in desk.posts, ServeDesk(p)
  PROVE  DeskInv'
<1> DEFINE shown == {[id |-> i, status |-> proposals[i].status] : i \in DOMAIN proposals}
<1>1. shown \in SUBSET RowsShown
  <2> SUFFICES ASSUME NEW i \in DOMAIN proposals
               PROVE  [id |-> i, status |-> proposals[i].status] \in RowsShown
    OBVIOUS
  <2>1. i \in Ids
    BY DeskIs, DeskAssumption DEF Ids
  <2>2. proposals[i] \in [brief : BOOLEAN, keyed : BOOLEAN, text : Texts, status : Statuses]
    BY ElementIn DEF DeskInv, Ledger
  <2>3. QED
    BY <2>1, <2>2 DEF RowsShown
<1>2. DeskReply(p, TRUE, shown) /\ p.stage = "sent" /\ UNCHANGED <<proposals, reviewed>>
  BY DEF ServeDesk
<1> HIDE DEF shown
<1>3. QED
  BY <1>1, <1>2, RepliedMeant, LedgerStays

LEMMA ServeProposeKeeps ==
  ASSUME DeskInv, NEW p \in desk.posts, ServePropose(p)
  PROVE  DeskInv'
<1> DEFINE new == [brief |-> p.brief, keyed |-> p.keyed, text |-> p.text, status |-> "proposed"]
<1>1. /\ Meant(proposals, reviewed, desk) /\ Len(proposals) \in Nat /\ p \in DeskCalls
      /\ DOMAIN proposals = 1 .. Len(proposals) /\ IsFiniteSet(desk.posts)
  BY DeskIs
<1>2. /\ p.op = "propose" /\ p.stage = "sent" /\ UNCHANGED reviewed
      /\ Meant(proposals, reviewed, desk') /\ Drafts(desk') \subseteq Drafts(desk) \ {p}
  <2>1. DeskReply(p, TRUE, {}) /\ p.op = "propose" /\ p.stage = "sent" /\ UNCHANGED reviewed
    BY DEF ServePropose
  <2>2. {} \in SUBSET RowsShown /\ TRUE \in BOOLEAN
    OBVIOUS
  <2>3. QED
    BY <2>1, <2>2, RepliedMeant
<1>3. p.text \in Texts /\ (p.brief => p.keyed)
  BY <1>1, <1>2 DEF Meant
<1>4. CASE Sealed(p)
  <2>1. UNCHANGED proposals
    BY <1>4 DEF ServePropose
  <2>2. QED
    BY <1>2, <2>1, LedgerStays
<1>5. CASE ~Sealed(p)
  <2>1. proposals' = Append(proposals, new)
    BY <1>5 DEF ServePropose
  <2>2. new \in [brief : BOOLEAN, keyed : BOOLEAN, text : Texts, status : Statuses]
    BY <1>1, <1>3 DEF DeskCalls, Statuses
  <2>3. /\ new.brief = p.brief /\ new.keyed = p.keyed /\ new.text = p.text
        /\ new.status = "proposed"
    OBVIOUS
  <2> HIDE DEF new
  <2>4. /\ proposals' \in Ledger /\ Len(proposals') = Len(proposals) + 1
        /\ DOMAIN proposals' = 1 .. Len(proposals) + 1
        /\ \A i \in DOMAIN proposals : proposals'[i] = proposals[i]
        /\ proposals'[Len(proposals) + 1] = new
    BY <1>1, <2>1, <2>2 DEF DeskInv, Ledger
  <2>5. \A i \in DOMAIN proposals' : i \in DOMAIN proposals \/ i = Len(proposals) + 1
    BY <1>1, <2>4
  <2>6. Meant(proposals', reviewed', desk')
    <3>1. p \in Drafts(desk)
      BY <1>2 DEF Drafts
    <3>2. IsFiniteSet(Drafts(desk))
      BY <1>1, DraftsAre
    <3>3. /\ Cardinality(Drafts(desk)) \in Nat /\ Cardinality(Drafts(desk')) \in Nat
          /\ Cardinality(Drafts(desk')) + 1 <= Cardinality(Drafts(desk))
      BY <1>2, <3>1, <3>2, OneLess
    <3>4. Len(proposals) + Cardinality(Drafts(desk)) <= MaxProposals
      BY <1>1 DEF Meant
    <3>5. Len(proposals') + Cardinality(Drafts(desk')) <= MaxProposals
      BY <1>1, <2>4, <3>3, <3>4, DeskAssumption
    <3>6. QED
      BY <1>2, <3>5 DEF Meant
  <2>7. \A i \in DOMAIN proposals' : proposals'[i].brief => proposals'[i].keyed
    BY <1>3, <2>3, <2>4, <2>5 DEF DeskInv
  <2>8. \A i, j \in DOMAIN proposals' :
          proposals'[i].keyed /\ proposals'[j].keyed /\ proposals'[i].text = proposals'[j].text
          => i = j
    <3>1. \A i \in DOMAIN proposals : ~(p.keyed /\ proposals[i].keyed /\ proposals[i].text = p.text)
      BY <1>5 DEF Sealed
    <3> SUFFICES ASSUME NEW i \in DOMAIN proposals', NEW j \in DOMAIN proposals',
                        proposals'[i].keyed, proposals'[j].keyed,
                        proposals'[i].text = proposals'[j].text
                 PROVE  i = j
      OBVIOUS
    <3>2. CASE i \in DOMAIN proposals /\ j \in DOMAIN proposals
      BY <2>4, <3>2 DEF DeskInv
    <3>3. CASE i \in DOMAIN proposals /\ j = Len(proposals) + 1
      BY <2>3, <2>4, <3>1, <3>3
    <3>4. CASE j \in DOMAIN proposals /\ i = Len(proposals) + 1
      BY <2>3, <2>4, <3>1, <3>4
    <3>5. QED
      BY <2>5, <3>2, <3>3, <3>4
  <2>9. \A i \in DOMAIN proposals' : proposals'[i].status # "proposed" => i \in reviewed'
    BY <1>2, <2>3, <2>4, <2>5 DEF DeskInv, NothingUnreviewed
  <2>10. reviewed' \subseteq Ids
    BY <1>2 DEF DeskInv
  <2>11. QED
    BY <2>4, <2>6, <2>7, <2>8, <2>9, <2>10 DEF DeskInv, NothingUnreviewed
<1>6. QED
  BY <1>4, <1>5

LEMMA ServeApproveKeeps ==
  ASSUME DeskInv, NEW p \in desk.posts, NEW outcome \in Statuses, ServeApprove(p, outcome)
  PROVE  DeskInv'
<1> DEFINE acted == proposals[p.id].status \in {"executed", "failed"}
<1>1. /\ Meant(proposals, reviewed, desk) /\ Len(proposals) \in Nat /\ p \in DeskCalls
      /\ DOMAIN proposals = 1 .. Len(proposals) /\ IsFiniteSet(desk.posts)
  BY DeskIs
<1>2. /\ p.op = "approve" /\ p.stage = "sent" /\ UNCHANGED reviewed
      /\ Meant(proposals, reviewed, desk')
  <2>1. /\ DeskReply(p, acted \/ outcome # "failed", {})
        /\ p.op = "approve" /\ p.stage = "sent" /\ UNCHANGED reviewed
    BY DEF ServeApprove
  <2>2. {} \in SUBSET RowsShown /\ (acted \/ outcome # "failed") \in BOOLEAN
    OBVIOUS
  <2>3. QED
    BY <2>1, <2>2, RepliedMeant
<1>3. p.id \in reviewed
  BY <1>1, <1>2 DEF Meant
<1>4. CASE acted
  <2>1. UNCHANGED proposals
    BY <1>4 DEF ServeApprove
  <2>2. QED
    BY <1>2, <2>1, LedgerStays
<1>5. CASE ~acted
  <2>1. proposals' = [proposals EXCEPT ![p.id].status = outcome]
    BY <1>5 DEF ServeApprove
  <2>2. /\ proposals' \in Ledger /\ Len(proposals') = Len(proposals)
        /\ DOMAIN proposals' = DOMAIN proposals
        /\ \A i \in DOMAIN proposals :
             /\ proposals'[i].brief = proposals[i].brief
             /\ proposals'[i].keyed = proposals[i].keyed
             /\ proposals'[i].text = proposals[i].text
             /\ proposals'[i].status # proposals[i].status => i = p.id
    <3> DEFINE R == [brief : BOOLEAN, keyed : BOOLEAN, text : Texts, status : Statuses]
    <3>1. proposals \in Seq(R)
      BY DEF DeskInv, Ledger
    <3>2. \A r \in R : /\ [r EXCEPT !.status = outcome] \in R
                       /\ [r EXCEPT !.status = outcome].brief = r.brief
                       /\ [r EXCEPT !.status = outcome].keyed = r.keyed
                       /\ [r EXCEPT !.status = outcome].text = r.text
      OBVIOUS
    <3> HIDE DEF R
    <3>3. /\ DOMAIN proposals' = DOMAIN proposals
          /\ \A i \in DOMAIN proposals :
               proposals'[i] = IF i = p.id THEN [proposals[i] EXCEPT !.status = outcome]
                               ELSE proposals[i]
      BY <2>1
    <3>4. \A i \in DOMAIN proposals :
            /\ proposals'[i] \in R
            /\ proposals'[i].brief = proposals[i].brief
            /\ proposals'[i].keyed = proposals[i].keyed
            /\ proposals'[i].text = proposals[i].text
            /\ proposals'[i].status # proposals[i].status => i = p.id
      <4>1. \A i \in DOMAIN proposals : proposals[i] \in R
        BY <3>1, ElementIn
      <4>2. QED
        BY <3>2, <3>3, <4>1
    <3>5. proposals' = [i \in 1 .. Len(proposals) |-> proposals'[i]]
      <4>1. proposals' = [i \in DOMAIN proposals' |-> proposals'[i]]
        BY <2>1
      <4>2. QED
        BY <1>1, <3>3, <4>1
    <3>6. proposals' \in [1 .. Len(proposals) -> R]
      BY <1>1, <3>4, <3>5
    <3>7. proposals' \in Seq(R) /\ Len(proposals') = Len(proposals)
      BY <1>1, <3>6
    <3>8. QED
      BY <3>3, <3>4, <3>7 DEF Ledger, R
  <2>3. Meant(proposals', reviewed', desk')
    BY <1>2, <2>2 DEF Meant
  <2>4. \A i \in DOMAIN proposals' : proposals'[i].status # "proposed" => i \in reviewed'
    BY <1>2, <1>3, <2>2 DEF DeskInv, NothingUnreviewed
  <2>5. /\ \A i \in DOMAIN proposals' : proposals'[i].brief => proposals'[i].keyed
        /\ \A i, j \in DOMAIN proposals' :
             proposals'[i].keyed /\ proposals'[j].keyed /\ proposals'[i].text = proposals'[j].text
             => i = j
    BY <2>2 DEF DeskInv
  <2>6. reviewed' \subseteq Ids
    BY <1>2 DEF DeskInv
  <2>7. QED
    BY <2>2, <2>3, <2>4, <2>5, <2>6 DEF DeskInv, NothingUnreviewed
<1>6. QED
  BY <1>4, <1>5

LEMMA DeskStarts ==
  ASSUME DeskInit
  PROVE  DeskInv
<1>1. PICK seeded \in BOOLEAN : desk = Fresh(seeded, {})
  BY DEF DeskInit
<1>2. proposals = <<>> /\ reviewed = {} /\ proposals \in Ledger /\ Len(proposals) = 0
  BY DEF DeskInit, Ledger
<1>3. List("nothing") \in DeskCalls /\ List("nothing").op = "list"
  BY DeskRequestsTyped DEF List
<1>4. desk.posts = {List("nothing")} /\ ~desk.confirmed
  BY <1>1 DEF Fresh
<1>5. desk \in Desk
  <2>1. {} \union {List("nothing")} \in SUBSET DeskCalls
    BY <1>3
  <2>2. 0 \in 0 .. Composing
    BY DeskAssumption DEF Composing
  <2>3. QED
    BY <1>1, <2>1, <2>2 DEF Fresh, Desk
<1>6. Drafts(desk) = {} /\ Cardinality({}) = 0 /\ IsFiniteSet(desk.posts)
  <2>1. Drafts(desk) = {}
    BY <1>3, <1>4 DEF Drafts
  <2>2. QED
    <3>1. IsFiniteSet({List("nothing")})
      BY FS_Singleton
    <3>2. QED
      BY <1>4, <2>1, <3>1, FS_EmptySet
<1>7. Meant(proposals, reviewed, desk)
  <2>1. Len(proposals) + Cardinality(Drafts(desk)) <= MaxProposals
    BY <1>2, <1>6, DeskAssumption
  <2>2. QED
    BY <1>3, <1>4, <1>5, <1>6, <2>1 DEF Meant
<1>8. DOMAIN proposals = {}
  BY <1>2
<1>9. QED
  BY <1>2, <1>7, <1>8 DEF DeskInv, NothingUnreviewed

LEMMA DeskSteps ==
  ASSUME DeskInv, DeskNext
  PROVE  DeskInv'
<1>1. ASSUME NEW p \in desk.posts, DeskRefused(p) \/ DeskTimesOut(p) PROVE DeskInv'
  <2>1. Fails(p) /\ UNCHANGED <<proposals, reviewed>>
    BY <1>1 DEF DeskRefused, DeskTimesOut
  <2>2. QED
    BY <2>1, FailureKeeps
<1>2. ASSUME NEW p \in desk.posts,
             \/ ServeDesk(p) \/ ServePropose(p) \/ Succeeded(p) \/ ShowProposals(p)
             \/ \E outcome \in Statuses : ServeApprove(p, outcome)
      PROVE  DeskInv'
  BY <1>2, ServeDeskKeeps, ServeProposeKeeps, DeliveredKeeps, ServeApproveKeeps
<1>3. ASSUME NEW text \in Texts, CreateProposal(text) PROVE DeskInv'
  BY <1>3, CreateKeeps
<1>4. CASE (\E row \in RowsShown : Review(row)) \/ Confirm \/ Approve
  BY <1>4, ReviewKeeps
<1>5. CASE OpenComposer \/ CloseComposer \/ CloseReview \/ RefreshProposals
  BY <1>5, ComposerKeeps
<1>6. QED
  BY <1>1, <1>2, <1>3, <1>4, <1>5 DEF DeskNext

LEMMA DeskHolds ==
  ASSUME DeskInv
  PROVE  DeskTypeOK /\ SeededDraftIsOneProposal /\ NothingUnreviewed
<1>1. DeskTypeOK
  BY DeskIs DEF DeskTypeOK, DeskInv, Ledger, Desk
<1>2. QED
  BY <1>1 DEF DeskInv, SeededDraftIsOneProposal

(***************************************************************************)
(* The import dialog.                                                      *)
(***************************************************************************)
Dialogs ==
  [phase : Phases, offered : SUBSET Refs, picked : SUBSET Refs, pending : BOOLEAN,
   of : Sessions, posts : SUBSET DialogCalls]

\* One request at a time, in its phase; an import that was answered is in the workspace.
RequestsInPhase ==
  /\ \A p, q \in dialog.posts : p.live /\ q.live => p = q
  /\ \A p \in dialog.posts :
       /\ p.live => dialog.phase = IF p.op = "import" THEN "submitting" ELSE "loading"
       /\ ~p.live => p.op = "import" /\ p.stage = "sent"
       /\ p.live /\ p.op = "import" =>
            /\ p.refs = dialog.picked
            /\ p.stage = "answered" => dialog.picked \subseteq adopted[p.of]

\* What the dialog says is imported was: only the sources behind it are still to be read.
ImportStands ==
  /\ dialog.phase = "refreshing" => dialog.pending
  /\ dialog.phase \in {"closed", "loading", "open"} => ~dialog.pending
  /\ dialog.pending => dialog.picked \subseteq adopted[dialog.of]

\* One list is awaited, and it was read after the import.
ListsAwaited ==
  /\ \A c, d \in calls : c.op = "list" /\ d.op = "list" => c = d
  /\ \A c \in calls : c.op = "list" =>
       /\ dialog.phase \in {"closed", "refreshing"}
       /\ /\ dialog.phase = "refreshing" /\ c.answer.stage = "answered"
          /\ c.answer.view.who = dialog.of
          => dialog.picked \subseteq c.answer.refs

DialogInv == dialog \in Dialogs /\ RequestsInPhase /\ ImportStands /\ ListsAwaited

LEMMA DialogIs ==
  ASSUME DialogInv
  PROVE  /\ dialog.phase \in Phases /\ dialog.picked \subseteq Refs /\ dialog.pending \in BOOLEAN
         /\ dialog.posts \subseteq DialogCalls
         /\ \A p \in dialog.posts : /\ p \in DialogCalls /\ p.op \in {"available", "import"}
                                    /\ p.live \in BOOLEAN
                                    /\ p.stage \in {"sent", "answered", "refused"}
  BY DEF DialogInv, Dialogs, DialogCalls

\* A dialog that is gone leaves requests that nobody awaits.
LEMMA ClosedKeeps ==
  ASSUME DialogInv, NEW posts \in SUBSET DialogCalls, dialog' = Closed(posts), UNCHANGED adopted,
         \A p \in posts : ~p.live /\ p.op = "import" /\ p.stage = "sent",
         \A c, d \in calls' : c.op = "list" /\ d.op = "list" => c = d
  PROVE  DialogInv'
<1>1. /\ dialog'.phase = "closed" /\ ~dialog'.pending /\ dialog'.posts = posts
      /\ dialog' \in Dialogs
  BY DEF Closed, Dialogs, Phases, Sessions
<1>2. RequestsInPhase'
  BY <1>1 DEF RequestsInPhase
<1>3. ImportStands' /\ ListsAwaited'
  BY <1>1 DEF ImportStands, ListsAwaited
<1>4. QED
  BY <1>1, <1>2, <1>3 DEF DialogInv

\* The owner's steps between a dialog that is idle and one that has sent something.
LEMMA LoadKeeps ==
  ASSUME DialogInv, dialog.phase \in {"closed", "failed"}, Load, UNCHANGED <<adopted, calls>>,
         \A c \in calls : c.op # "list"
  PROVE  DialogInv'
<1> DEFINE post == Sent("available", {})
<1>1. post \in DialogCalls /\ post.op = "available" /\ post.live
  BY DEF Sent, DialogCalls, Sessions
<1> HIDE DEF post
<1>2. /\ dialog'.phase = "loading" /\ ~dialog'.pending /\ dialog'.picked = dialog.picked
      /\ dialog'.of = dialog.of /\ dialog'.posts = dialog.posts \union {post}
      /\ dialog' \in Dialogs
  <2>1. dialog' = [dialog EXCEPT !.phase = "loading", !.pending = FALSE,
                                 !.posts = dialog.posts \union {post}]
    BY DEF Load, post
  <2>2. dialog \in Dialogs /\ "loading" \in Phases
    BY DEF DialogInv, Phases
  <2>3. QED
    BY <1>1, <2>1, <2>2 DEF Dialogs
<1>3. \A p \in dialog.posts : ~p.live
  BY DEF DialogInv, RequestsInPhase
<1>4. RequestsInPhase'
  BY <1>1, <1>2, <1>3 DEF RequestsInPhase, DialogInv
<1>5. ImportStands' /\ ListsAwaited'
  BY <1>2 DEF ImportStands, ListsAwaited
<1>6. QED
  BY <1>2, <1>4, <1>5 DEF DialogInv

LEMMA OpenKeeps ==
  ASSUME DialogInv, Open
  PROVE  DialogInv'
<1>1. /\ dialog.phase \in {"closed", "failed"} /\ Load /\ UNCHANGED <<adopted, calls>>
      /\ \A c \in calls : c.op # "list"
  BY DEF Open, tabVars, server
<1>2. QED
  BY <1>1, LoadKeeps

LEMMA CloseKeeps ==
  ASSUME DialogInv, Close
  PROVE  DialogInv'
<1> DEFINE rest == {p \in dialog.posts : ~p.live}
<1>1. /\ dialog' = Closed(rest) /\ UNCHANGED <<adopted, calls>>
  BY DEF Close, tabVars, server
<1>2. rest \in SUBSET DialogCalls /\ \A p \in rest : ~p.live /\ p.op = "import" /\ p.stage = "sent"
  BY DialogIs DEF DialogInv, RequestsInPhase
<1>3. \A c, d \in calls' : c.op = "list" /\ d.op = "list" => c = d
  BY <1>1 DEF DialogInv, ListsAwaited
<1> HIDE DEF rest
<1>4. QED
  BY <1>1, <1>2, <1>3, ClosedKeeps

LEMMA ImportKeeps ==
  ASSUME DialogInv, Import
  PROVE  DialogInv'
<1> DEFINE post == Sent("import", dialog.picked)
<1>1. /\ post \in DialogCalls /\ post.op = "import" /\ post.live /\ post.stage = "sent"
      /\ post.refs = dialog.picked
  BY DialogIs DEF Sent, DialogCalls, Sessions
<1> HIDE DEF post
<1>2. /\ dialog'.phase = "submitting" /\ dialog'.pending = dialog.pending
      /\ dialog'.picked = dialog.picked
      /\ dialog'.of = dialog.of /\ dialog'.posts = dialog.posts \union {post}
      /\ dialog' \in Dialogs /\ UNCHANGED <<adopted, calls>>
      /\ dialog.phase \in {"open", "failed"}
  <2>1. /\ dialog' = [dialog EXCEPT !.phase = "submitting",
                                    !.posts = dialog.posts \union {post}]
        /\ UNCHANGED <<adopted, calls>> /\ dialog.phase \in {"open", "failed"}
    BY DEF Import, post, tabVars, server
  <2>2. dialog \in Dialogs /\ "submitting" \in Phases
    BY DEF DialogInv, Phases
  <2>3. QED
    BY <1>1, <2>1, <2>2 DEF Dialogs
<1>3. \A p \in dialog.posts : ~p.live
  BY <1>2 DEF DialogInv, RequestsInPhase
<1>4. RequestsInPhase'
  BY <1>1, <1>2, <1>3 DEF RequestsInPhase, DialogInv
<1>5. ImportStands'
  BY <1>2 DEF ImportStands, DialogInv
<1>6. ListsAwaited'
  BY <1>2 DEF ListsAwaited, DialogInv
<1>7. QED
  BY <1>2, <1>4, <1>5, <1>6 DEF DialogInv

LEMMA PickKeeps ==
  ASSUME DialogInv, NEW refs \in SUBSET Refs, PickRefs(refs)
  PROVE  DialogInv'
<1>1. /\ dialog'.phase = "open" /\ dialog'.pending = dialog.pending
      /\ dialog'.of = dialog.of /\ dialog'.posts = dialog.posts
      /\ dialog' \in Dialogs /\ UNCHANGED <<adopted, calls>> /\ dialog.phase = "open"
  BY DEF PickRefs, DialogInv, Dialogs, tabVars, server
<1>2. \A p \in dialog.posts : ~p.live
  BY <1>1 DEF DialogInv, RequestsInPhase
<1>3. RequestsInPhase'
  BY <1>1, <1>2 DEF RequestsInPhase, DialogInv
<1>4. ImportStands' /\ ListsAwaited'
  BY <1>1 DEF ImportStands, ListsAwaited, DialogInv
<1>5. QED
  BY <1>1, <1>3, <1>4 DEF DialogInv

\* A list that is asked for when none is awaited is the one that is.
LEMMA FirstList ==
  ASSUME \A c \in calls : c.op # "list", calls' = calls \union {Request("list")},
         dialog'.phase = "refreshing"
  PROVE  ListsAwaited'
<1>1. Request("list").op = "list" /\ Request("list").answer.stage = "sent"
  BY DEF Request
<1>2. \A c \in calls' : c.op = "list" => c = Request("list") /\ c.answer.stage = "sent"
  BY <1>1
<1>3. QED
  BY <1>2 DEF ListsAwaited

LEMMA RecoverKeeps ==
  ASSUME DialogInv, Recover
  PROVE  DialogInv'
<1>1. \A c \in calls : c.op # "list"
  BY DEF Recover, DialogInv, ListsAwaited
<1>2. dialog.phase = "failed" /\ UNCHANGED adopted
  BY DEF Recover, server
<1>3. CASE ~dialog.pending
  BY <1>1, <1>2, <1>3, LoadKeeps DEF Recover
<1>4. CASE dialog.pending
  <2>1. /\ dialog'.phase = "refreshing" /\ dialog'.pending /\ dialog'.picked = dialog.picked
        /\ dialog'.of = dialog.of /\ dialog'.posts = dialog.posts /\ dialog' \in Dialogs
    BY <1>4, DialogIs DEF Recover, DialogInv, Dialogs, Phases
  <2>2. calls' = calls \union {Request("list")}
    BY <1>4 DEF Recover
  <2>3. \A p \in dialog.posts : ~p.live
    BY <1>2 DEF DialogInv, RequestsInPhase
  <2>4. RequestsInPhase'
    BY <2>1, <2>3 DEF RequestsInPhase, DialogInv
  <2>5. ImportStands'
    BY <1>2, <1>4, <2>1 DEF ImportStands, DialogInv
  <2>6. ListsAwaited'
    BY <1>1, <2>1, <2>2, FirstList
  <2>7. QED
    BY <2>1, <2>4, <2>5, <2>6 DEF DialogInv
<1>5. QED
  BY <1>3, <1>4

LEMMA ImportedKeeps ==
  ASSUME DialogInv, NEW p \in dialog.posts, Imported(p)
  PROVE  DialogInv'
<1>1. /\ p.op = "import" /\ p.live /\ p.stage = "answered" /\ UNCHANGED adopted
      /\ calls' = calls \union {Request("list")} /\ p.of \in Sessions
  BY DialogIs DEF Imported, server, DialogCalls
<1>2. dialog.phase = "submitting" /\ dialog.picked \subseteq adopted[p.of]
  BY <1>1 DEF DialogInv, RequestsInPhase
<1>3. /\ dialog'.phase = "refreshing" /\ dialog'.pending /\ dialog'.picked = dialog.picked
      /\ dialog'.of = p.of /\ dialog'.posts = dialog.posts \ {p} /\ dialog' \in Dialogs
  <2>1. dialog \in Dialogs /\ "refreshing" \in Phases
    BY DEF DialogInv, Phases
  <2>2. dialog' = [dialog EXCEPT !.phase = "refreshing", !.pending = TRUE, !.of = p.of,
                                 !.posts = dialog.posts \ {p}]
    BY DEF Imported
  <2>3. QED
    BY <1>1, <2>1, <2>2 DEF Dialogs
<1>4. \A q \in dialog'.posts : ~q.live
  BY <1>1, <1>3 DEF DialogInv, RequestsInPhase
<1>5. RequestsInPhase'
  BY <1>3, <1>4 DEF RequestsInPhase, DialogInv
<1>6. ImportStands'
  BY <1>1, <1>2, <1>3 DEF ImportStands
<1>7. ListsAwaited'
  <2>1. \A c \in calls : c.op # "list"
    BY <1>2 DEF DialogInv, ListsAwaited
  <2>2. QED
    BY <1>1, <1>3, <2>1, FirstList
<1>8. QED
  BY <1>3, <1>5, <1>6, <1>7 DEF DialogInv

LEMMA OfferKeeps ==
  ASSUME DialogInv, NEW p \in dialog.posts, Offer(p)
  PROVE  DialogInv'
<1>1. p.op = "available" /\ p.live /\ p.refs \subseteq Refs /\ UNCHANGED <<adopted, calls>>
  BY DialogIs DEF Offer, DialogInv, RequestsInPhase, DialogCalls, tabVars, server
<1>2. dialog.phase = "loading"
  BY <1>1 DEF DialogInv, RequestsInPhase
<1>3. /\ dialog'.phase = "open" /\ dialog'.pending = dialog.pending
      /\ dialog'.posts = dialog.posts \ {p} /\ dialog' \in Dialogs
  <2>1. dialog \in Dialogs /\ "open" \in Phases
    BY DEF DialogInv, Phases
  <2>2. dialog' = [dialog EXCEPT !.phase = "open", !.offered = p.refs, !.picked = {},
                                 !.posts = dialog.posts \ {p}]
    BY DEF Offer
  <2>3. QED
    BY <1>1, <2>1, <2>2 DEF Dialogs
<1>4. \A q \in dialog'.posts : ~q.live
  BY <1>1, <1>3 DEF DialogInv, RequestsInPhase
<1>5. RequestsInPhase'
  BY <1>3, <1>4 DEF RequestsInPhase, DialogInv
<1>6. ImportStands' /\ ListsAwaited'
  BY <1>1, <1>2, <1>3 DEF ImportStands, ListsAwaited, DialogInv
<1>7. QED
  BY <1>3, <1>5, <1>6 DEF DialogInv

\* A request that failed, whether or not the server may still act on it.
LEMMA FailsKeeps ==
  ASSUME DialogInv, NEW p \in dialog.posts, NEW rest, FailsWith(p, rest),
         UNCHANGED <<adopted, calls>>, p.live,
         rest = {} \/ (p.op = "import" /\ p.stage = "sent" /\ rest = {[p EXCEPT !.live = FALSE]})
  PROVE  DialogInv'
<1> DEFINE late == [p EXCEPT !.live = FALSE]
<1>1. p \in DialogCalls /\ late \in DialogCalls /\ late.op = p.op /\ ~late.live
      /\ late.stage = p.stage
  BY DialogIs DEF DialogCalls
<1> HIDE DEF late
<1>2. \A q \in rest : q \in DialogCalls /\ ~q.live /\ q.op = "import" /\ q.stage = "sent"
  BY <1>1 DEF late
<1>3. /\ dialog'.phase = "failed" /\ dialog'.pending = dialog.pending
      /\ dialog'.picked = dialog.picked /\ dialog'.of = dialog.of
      /\ dialog'.posts = (dialog.posts \ {p}) \union rest /\ dialog' \in Dialogs
  <2>1. dialog \in Dialogs /\ "failed" \in Phases
    BY DEF DialogInv, Phases
  <2>2. dialog' = [dialog EXCEPT !.phase = "failed",
                                 !.offered = IF p.op = "available" THEN {} ELSE dialog.offered,
                                 !.posts = (dialog.posts \ {p}) \union rest]
    BY DEF FailsWith
  <2>3. (dialog.posts \ {p}) \union rest \subseteq DialogCalls
    BY <1>2, DialogIs
  <2>4. QED
    BY <2>1, <2>2, <2>3 DEF Dialogs
<1>4. \A q \in dialog'.posts : ~q.live /\ q.op = "import" /\ q.stage = "sent"
  BY <1>2, <1>3 DEF DialogInv, RequestsInPhase
<1>5. RequestsInPhase'
  BY <1>4 DEF RequestsInPhase
<1>6. ImportStands'
  BY <1>3 DEF ImportStands, DialogInv
<1>7. ListsAwaited'
  BY <1>3 DEF ListsAwaited, DialogInv, RequestsInPhase
<1>8. QED
  BY <1>3, <1>5, <1>6, <1>7 DEF DialogInv

LEMMA DialogFailureKeeps ==
  ASSUME DialogInv, NEW p \in dialog.posts, DialogRefused(p) \/ DialogTimesOut(p)
  PROVE  DialogInv'
<1>1. p.live
  BY DEF DialogRefused, DialogTimesOut, DialogInv, RequestsInPhase
<1>2. UNCHANGED <<adopted, calls>>
  BY DEF DialogRefused, DialogTimesOut, tabVars, server
<1>3. CASE DialogRefused(p)
  BY <1>1, <1>2, <1>3, FailsKeeps DEF DialogRefused
<1>4. CASE DialogTimesOut(p)
  <2> DEFINE rest == IF p.op = "import" /\ p.stage = "sent" THEN {[p EXCEPT !.live = FALSE]} ELSE {}
  <2>1. FailsWith(p, rest)
    BY <1>4 DEF DialogTimesOut
  <2>2. rest = {} \/ (p.op = "import" /\ p.stage = "sent" /\ rest = {[p EXCEPT !.live = FALSE]})
    OBVIOUS
  <2> HIDE DEF rest
  <2>3. QED
    BY <1>1, <1>2, <2>1, <2>2, FailsKeeps
<1>5. QED
  BY <1>3, <1>4

\* The server lists what may be adopted.
LEMMA ServeAvailableKeeps ==
  ASSUME DialogInv, NEW p \in dialog.posts, ServeAvailable(p)
  PROVE  DialogInv'
<1> DEFINE replied == [p EXCEPT !.stage = IF Owner THEN "answered" ELSE "refused",
                                !.refs = IF Owner THEN Refs \ adopted[session] ELSE {}]
<1>1. p.op = "available" /\ p.live /\ dialog.phase = "loading" /\ UNCHANGED <<adopted, calls>>
  BY DEF ServeAvailable, DialogInv, RequestsInPhase, tabVars, server
<1>2. replied \in DialogCalls /\ replied.op = "available" /\ replied.live
  BY <1>1, DialogIs DEF DialogCalls
<1> HIDE DEF replied
<1>3. /\ dialog'.phase = "loading" /\ dialog'.pending = dialog.pending
      /\ dialog'.picked = dialog.picked /\ dialog'.of = dialog.of
      /\ dialog'.posts = (dialog.posts \ {p}) \union {replied} /\ dialog' \in Dialogs
  <2>1. dialog' = [dialog EXCEPT !.posts = (dialog.posts \ {p}) \union {replied}]
    BY DEF ServeAvailable, replied
  <2>2. dialog \in Dialogs
    BY DEF DialogInv
  <2>3. QED
    BY <1>1, <1>2, <2>1, <2>2 DEF Dialogs
<1>4. \A q \in dialog.posts : q.live => q = p
  BY <1>1 DEF DialogInv, RequestsInPhase
<1>5. RequestsInPhase'
  BY <1>1, <1>2, <1>3, <1>4 DEF RequestsInPhase, DialogInv
<1>6. ImportStands' /\ ListsAwaited'
  BY <1>1, <1>3 DEF ImportStands, ListsAwaited, DialogInv
<1>7. QED
  BY <1>3, <1>5, <1>6 DEF DialogInv

\* The server adopts what was sent, for the session it is asked by.
LEMMA ServeImportKeeps ==
  ASSUME DialogInv, TabTypeOK, NEW p \in dialog.posts, ServeImport(p)
  PROVE  DialogInv' /\ TabTypeOK'
<1> DEFINE replied == [p EXCEPT !.stage = IF Owner THEN "answered" ELSE "refused",
                                !.of = session]
           kept == IF p.live THEN {replied} ELSE {}
<1>1. /\ p.op = "import" /\ p.stage = "sent" /\ UNCHANGED calls /\ p \in DialogCalls
      /\ p.refs \subseteq Refs /\ p.live \in BOOLEAN /\ session \in Sessions
  BY DialogIs DEF ServeImport, TabTypeOK, DialogCalls
<1>2. /\ replied \in DialogCalls /\ replied.op = "import" /\ replied.live = p.live
      /\ replied.refs = p.refs /\ replied.of = session /\ replied.stage # "sent"
      /\ replied.stage = "answered" => Owner
  BY <1>1 DEF DialogCalls
<1> HIDE DEF replied
<1>3. /\ adopted' \in [Sessions -> SUBSET Refs]
      /\ \A s \in Sessions : adopted[s] \subseteq adopted'[s]
      /\ Owner => p.refs \subseteq adopted'[session]
  <2>1. CASE Owner
    BY <1>1, <2>1 DEF ServeImport, TabTypeOK
  <2>2. CASE ~Owner
    BY <2>2 DEF ServeImport, TabTypeOK
  <2>3. QED
    BY <2>1, <2>2
<1>4. TabTypeOK'
  BY <1>3 DEF ServeImport, TabTypeOK, bounds
<1>5. /\ p.live => kept = {replied}
      /\ ~p.live => kept = {}
      /\ kept \subseteq {replied}
  BY <1>1
<1>6. /\ dialog'.phase = dialog.phase /\ dialog'.pending = dialog.pending
      /\ dialog'.picked = dialog.picked /\ dialog'.of = dialog.of
      /\ dialog'.posts = (dialog.posts \ {p}) \union kept /\ dialog' \in Dialogs
  <2>1. dialog' = [dialog EXCEPT !.posts = (dialog.posts \ {p}) \union kept]
    BY DEF ServeImport, replied
  <2>2. dialog \in Dialogs
    BY DEF DialogInv
  <2> HIDE DEF kept
  <2>3. QED
    BY <1>2, <1>5, <2>1, <2>2 DEF Dialogs
<1> HIDE DEF kept
<1>7. p.live => dialog.phase = "submitting" /\ p.refs = dialog.picked
  BY <1>1 DEF DialogInv, RequestsInPhase
<1>8. \A q \in dialog.posts : q \in DialogCalls /\ q.of \in Sessions
  BY DialogIs DEF DialogCalls
<1>9. RequestsInPhase'
  <2>1. \A q \in dialog'.posts : q.live =>
          (q = replied /\ p.live) \/ (q \in dialog.posts /\ q # p)
    BY <1>2, <1>5, <1>6
  <2>2. p.live => \A q \in dialog.posts : q.live => q = p
    BY DEF DialogInv, RequestsInPhase
  <2>3. \A q, r \in dialog'.posts : q.live /\ r.live => q = r
    BY <1>1, <2>1, <2>2 DEF DialogInv, RequestsInPhase
  <2>4. ASSUME NEW q \in dialog'.posts
        PROVE  /\ q.live => dialog'.phase = IF q.op = "import" THEN "submitting" ELSE "loading"
               /\ ~q.live => q.op = "import" /\ q.stage = "sent"
               /\ q.live /\ q.op = "import" =>
                    /\ q.refs = dialog'.picked
                    /\ q.stage = "answered" => dialog'.picked \subseteq adopted'[q.of]
    <3>1. CASE q \in kept
      <4>1. q = replied /\ p.live
        BY <1>1, <1>5, <3>1
      <4>2. QED
        BY <1>2, <1>3, <1>6, <1>7, <4>1
    <3>2. CASE q \in dialog.posts
      BY <1>3, <1>6, <1>8, <3>2 DEF DialogInv, RequestsInPhase
    <3>3. QED
      BY <1>6, <3>1, <3>2
  <2>5. QED
    BY <2>3, <2>4 DEF RequestsInPhase
<1>10. ImportStands'
  <2>1. dialog.of \in Sessions
    BY DEF DialogInv, Dialogs
  <2>2. QED
    BY <1>3, <1>6, <2>1 DEF ImportStands, DialogInv
<1>11. ListsAwaited'
  BY <1>1, <1>6 DEF ListsAwaited, DialogInv
<1>12. QED
  BY <1>4, <1>6, <1>9, <1>10, <1>11 DEF DialogInv

\* The list the dialog awaits, when it comes or fails.
LEMMA RefreshKeeps ==
  ASSUME DialogInv, NEW c \in calls, Refreshed(c) \/ NotRefreshed(c)
  PROVE  DialogInv'
<1>1. c.op = "list" /\ UNCHANGED adopted
  BY DEF Refreshed, NotRefreshed, Listed, Refused, TimeOut, Rejected, server
<1>2. calls' = calls \ {c}
  BY <1>1 DEF Refreshed, NotRefreshed, Listed, Refused, TimeOut
<1>3. \A d \in calls' : d.op # "list"
  BY <1>1, <1>2 DEF DialogInv, ListsAwaited
<1>4. ListsAwaited'
  BY <1>3 DEF ListsAwaited
<1>5. dialog.phase # "refreshing" => DialogInv'
  <2> SUFFICES ASSUME dialog.phase # "refreshing" PROVE DialogInv'
    OBVIOUS
  <2>1. dialog' = dialog
    <3>1. CASE Refreshed(c)
      BY <3>1 DEF Refreshed
    <3>2. CASE NotRefreshed(c)
      BY <3>2 DEF NotRefreshed, DialogInv, Dialogs
    <3>3. QED
      BY <3>1, <3>2
  <2>2. QED
    BY <1>1, <1>4, <2>1 DEF DialogInv, RequestsInPhase, ImportStands
<1>6. CASE dialog.phase = "refreshing" /\ Refreshed(c)
  <2>1. dialog' = Closed(dialog.posts)
    BY <1>6 DEF Refreshed
  <2>2. \A p \in dialog.posts : ~p.live /\ p.op = "import" /\ p.stage = "sent"
    BY <1>6 DEF DialogInv, RequestsInPhase
  <2>3. QED
    BY <1>1, <1>3, <2>1, <2>2, DialogIs, ClosedKeeps
<1>7. CASE dialog.phase = "refreshing" /\ NotRefreshed(c)
  <2>1. /\ dialog'.phase = "failed" /\ dialog'.pending = dialog.pending
        /\ dialog'.picked = dialog.picked /\ dialog'.of = dialog.of
        /\ dialog'.posts = dialog.posts /\ dialog' \in Dialogs
    BY <1>7 DEF NotRefreshed, DialogInv, Dialogs, Phases
  <2>2. \A p \in dialog.posts : ~p.live
    BY <1>7 DEF DialogInv, RequestsInPhase
  <2>3. RequestsInPhase'
    BY <2>1, <2>2 DEF RequestsInPhase, DialogInv
  <2>4. ImportStands'
    BY <1>1, <2>1 DEF ImportStands, DialogInv
  <2>5. QED
    BY <1>4, <2>1, <2>3, <2>4 DEF DialogInv
<1>8. QED
  BY <1>5, <1>6, <1>7

LEMMA DialogSteps ==
  ASSUME DialogInv, TabTypeOK, DialogNext
  PROVE  DialogInv'
<1>1. ASSUME NEW c \in calls, Refreshed(c) \/ NotRefreshed(c) PROVE DialogInv'
  BY <1>1, RefreshKeeps
<1>2. ASSUME NEW p \in dialog.posts,
             \/ ServeAvailable(p) \/ ServeImport(p) \/ Offer(p) \/ Imported(p)
             \/ DialogRefused(p) \/ DialogTimesOut(p)
      PROVE  DialogInv'
  BY <1>2, ServeAvailableKeeps, ServeImportKeeps, OfferKeeps, ImportedKeeps,
     DialogFailureKeeps
<1>3. ASSUME NEW refs \in SUBSET Refs, PickRefs(refs) PROVE DialogInv'
  BY <1>3, PickKeeps
<1>4. CASE Open \/ Close \/ Import \/ Recover
  BY <1>4, OpenKeeps, CloseKeeps, ImportKeeps, RecoverKeeps
<1>5. QED
  BY <1>1, <1>2, <1>3, <1>4 DEF DialogNext

\* The dialog's steps leave the tab well typed.
LEMMA DialogTabTypes ==
  ASSUME DialogInv, TabTypeOK, DialogNext
  PROVE  TabTypeOK'
<1>1. ASSUME NEW c \in calls, Refreshed(c) \/ NotRefreshed(c) PROVE TabTypeOK'
  BY <1>1, ListedTyped DEF Refreshed, NotRefreshed
<1>2. ASSUME NEW p \in dialog.posts, ServeImport(p) PROVE TabTypeOK'
  BY <1>2, ServeImportKeeps
<1>3. ASSUME NEW p \in dialog.posts, ServeAvailable(p) \/ Offer(p) \/ DialogRefused(p)
      PROVE  TabTypeOK'
  BY <1>3 DEF ServeAvailable, Offer, DialogRefused, TabTypeOK, tabVars, server, bounds
<1>4. ASSUME NEW p \in dialog.posts, DialogTimesOut(p) PROVE TabTypeOK'
  <2>1. faults' \in 0 .. MaxFaults
    BY <1>4, TabAssumption DEF DialogTimesOut, TabTypeOK
  <2>2. QED
    BY <1>4, <2>1 DEF DialogTimesOut, TabTypeOK, server
<1>5. ASSUME NEW p \in dialog.posts, Imported(p) PROVE TabTypeOK'
  BY <1>5, RequestTyped DEF Imported, TabTypeOK, server, bounds, Ops
<1>6. CASE Recover
  BY <1>6, RequestTyped DEF Recover, TabTypeOK, server, bounds, Ops
<1>7. ASSUME NEW refs \in SUBSET Refs, PickRefs(refs) PROVE TabTypeOK'
  BY <1>7 DEF PickRefs, TabTypeOK, tabVars, server, bounds
<1>8. CASE Open \/ Close \/ Import
  BY <1>8 DEF Open, Close, Import, TabTypeOK, tabVars, server, bounds
<1>9. QED
  BY <1>1, <1>2, <1>3, <1>4, <1>5, <1>6, <1>7, <1>8 DEF DialogNext

\* The tab's own steps answer the list that is awaited, and add none.
LEMMA ListsStay ==
  ASSUME DialogInv, TabTypeOK, TabNext
  PROVE  /\ UNCHANGED adopted
         /\ \A c, d \in calls' : c.op = "list" /\ d.op = "list" => c = d
         /\ dialog' = dialog => ListsAwaited'
<1>1. ASSUME NEW c \in calls, ServeTab(c)
      PROVE  /\ UNCHANGED adopted
             /\ \A d, e \in calls' : d.op = "list" /\ e.op = "list" => d = e
             /\ dialog' = dialog => ListsAwaited'
  <2> DEFINE replied == [c EXCEPT !.answer = AnswerTo(c)]
  <2>1. /\ UNCHANGED adopted /\ c \in TabCalls /\ calls' \subseteq (calls \ {c}) \union {replied}
        /\ replied.op = c.op /\ replied.answer = AnswerTo(c)
    BY <1>1 DEF ServeTab, TabTypeOK, TabCalls
  <2>2. c.op = "list" => /\ AnswerTo(c).view.who = session
                         /\ AnswerTo(c).refs = adopted[session]
    BY DEF AnswerTo, ViewOf
  <2> HIDE DEF replied
  <2>3. \A d, e \in calls' : d.op = "list" /\ e.op = "list" => d = e
    BY <2>1 DEF DialogInv, ListsAwaited
  <2>4. ASSUME NEW d \in calls', d.op = "list"
        PROVE  /\ dialog.phase \in {"closed", "refreshing"}
               /\ /\ dialog.phase = "refreshing" /\ d.answer.stage = "answered"
                  /\ d.answer.view.who = dialog.of
                  => dialog.picked \subseteq d.answer.refs
    <3>1. CASE d \in calls
      BY <2>4, <3>1 DEF DialogInv, ListsAwaited
    <3>2. CASE d = replied
      <4>1. c.op = "list"
        BY <2>1, <2>4, <3>2
      <4>2. dialog.phase \in {"closed", "refreshing"}
        BY <4>1 DEF DialogInv, ListsAwaited
      <4>3. dialog.phase = "refreshing" => dialog.picked \subseteq adopted[dialog.of]
        BY DEF DialogInv, ImportStands
      <4>4. QED
        BY <2>1, <2>2, <3>2, <4>1, <4>2, <4>3
    <3>3. QED
      BY <2>1, <3>1, <3>2
  <2>5. QED
    BY <2>1, <2>3, <2>4 DEF ListsAwaited
<1>2. CASE /\ UNCHANGED adopted
           /\ \A c \in calls' : c.op = "list" => c \in calls
  <2>1. \A c, d \in calls' : c.op = "list" /\ d.op = "list" => c = d
    BY <1>2 DEF DialogInv, ListsAwaited
  <2>2. dialog' = dialog => ListsAwaited'
    BY <1>2, <2>1 DEF DialogInv, ListsAwaited
  <2>3. QED
    BY <1>2, <2>1, <2>2
<1>3. ASSUME NEW c \in calls, Deliver(c) \/ (c.op # "list" /\ TimeOut(c))
      PROVE  /\ UNCHANGED adopted
             /\ \A d \in calls' : d.op = "list" => d \in calls
  <2>1. Request("effect").op = "effect" /\ Request("view").op = "view"
    BY DEF Request
  <2>2. CASE ShowView(c)
    BY <2>1, <2>2 DEF ShowView, Effects, server
  <2>3. CASE WorkspaceCreated(c)
    BY <2>1, <2>3 DEF WorkspaceCreated, server
  <2>4. CASE Listed(c) \/ Refused(c)
    BY <2>4 DEF Listed, Refused, Rejected, server
  <2>5. CASE c.op # "list" /\ TimeOut(c)
    <3>1. c \in TabCalls
      BY DEF TabTypeOK
    <3>2. [c EXCEPT !.live = FALSE].op = c.op
      BY <3>1 DEF TabCalls
    <3>3. QED
      BY <2>5, <3>2 DEF TimeOut, Rejected, server
  <2>6. QED
    BY <1>3, <2>2, <2>3, <2>4, <2>5 DEF Deliver
<1>4. ASSUME NEW s \in Sessions, Switch(s)
      PROVE  /\ UNCHANGED adopted
             /\ \A d \in calls' : d.op = "list" => d \in calls
  BY <1>4 DEF Switch
<1>5. CASE Reconcile \/ RetryBoot \/ CreateWorkspace
  <2>1. Request("create").op = "create" /\ Request("view").op = "view"
    BY DEF Request
  <2>2. /\ UNCHANGED adopted
        /\ \A d \in calls' : d.op = "list" => d \in calls
    BY <1>5, <2>1 DEF Reconcile, RetryBoot, CreateWorkspace, server
  <2>3. QED
    BY <1>2, <2>2
<1>6. QED
  BY <1>1, <1>2, <1>3, <1>4, <1>5 DEF TabNext

LEMMA DialogScreenStays ==
  ASSUME DialogInv, TabTypeOK, TabNext, Screens
  PROVE  DialogInv'
<1>1. /\ UNCHANGED adopted
      /\ \A c, d \in calls' : c.op = "list" /\ d.op = "list" => c = d
      /\ dialog' = dialog => ListsAwaited'
  BY ListsStay
<1>2. CASE Disappears
  <2> DEFINE sent == {p \in dialog.posts : p.op = "import" /\ p.stage = "sent"}
             rest == {[p EXCEPT !.live = FALSE] : p \in sent}
  <2>1. dialog' = Closed(rest)
    BY <1>2 DEF Screens, DialogUnmounted
  <2>2. \A q \in rest : q \in DialogCalls /\ ~q.live /\ q.op = "import" /\ q.stage = "sent"
    <3> SUFFICES ASSUME NEW p \in sent
                 PROVE  LET q == [p EXCEPT !.live = FALSE]
                        IN  q \in DialogCalls /\ ~q.live /\ q.op = "import" /\ q.stage = "sent"
      OBVIOUS
    <3>1. p \in DialogCalls
      BY DialogIs
    <3>2. QED
      BY <3>1 DEF DialogCalls
  <2> HIDE DEF rest
  <2>3. rest \in SUBSET DialogCalls
    BY <2>2
  <2>4. QED
    BY <1>1, <2>1, <2>2, <2>3, ClosedKeeps
<1>3. CASE ~Disappears
  <2>1. dialog' = dialog
    BY <1>3 DEF Screens
  <2>2. QED
    BY <1>1, <2>1 DEF DialogInv, RequestsInPhase, ImportStands
<1>4. QED
  BY <1>2, <1>3

(***************************************************************************)
(* The files panel.                                                        *)
(***************************************************************************)
LEMMA PanelTypes ==
  ASSUME PanelTypeOK, PanelNext
  PROVE  PanelTypeOK'
<1>1. /\ file \in [stage : Stages, finished : BOOLEAN]
      /\ panel \in [row : Stages, posts : SUBSET PanelCalls]
  BY DEF PanelTypeOK
<1>2. \A op \in {"list", "status", "upload"} : ToServer(op) \in PanelCalls
  BY DEF ToServer, PanelCalls, Stages
<1>3. ASSUME NEW op \in {"list", "status", "upload"}, PanelSends(op), UNCHANGED file
      PROVE  PanelTypeOK'
  <2>1. panel' \in [row : Stages, posts : SUBSET PanelCalls]
    BY <1>1, <1>2, <1>3 DEF PanelSends
  <2>2. QED
    BY <1>1, <1>3, <2>1 DEF PanelTypeOK
<1>4. ASSUME NEW p \in panel.posts, NEW row \in Stages, PanelReply(p, row),
             file' \in [stage : Stages, finished : BOOLEAN]
      PROVE  PanelTypeOK'
  <2>1. p \in PanelCalls
    BY <1>1
  <2>2. [p EXCEPT !.stage = "answered", !.row = row] \in PanelCalls
    BY <2>1 DEF PanelCalls
  <2>3. panel' \in [row : Stages, posts : SUBSET PanelCalls]
    BY <1>1, <1>4, <2>2 DEF PanelReply
  <2>4. QED
    BY <1>4, <2>3 DEF PanelTypeOK
<1>5. CASE PanelTick \/ UploadFile \/ RefreshFiles
  BY <1>3, <1>5 DEF PanelTick, UploadFile, RefreshFiles
<1>6. CASE HydraFinishes
  BY <1>1, <1>6 DEF HydraFinishes, PanelTypeOK
<1>7. ASSUME NEW p \in panel.posts, PanelServe(p) PROVE PanelTypeOK'
  <2>1. "none" \in Stages /\ file.stage \in Stages
    BY <1>1 DEF Stages
  <2>2. file' \in [stage : Stages, finished : BOOLEAN]
    BY <1>1, <1>7 DEF PanelServe, ServeList, ServeStatus, ServeUpload, Stages
  <2>3. \E row \in Stages : PanelReply(p, row)
    BY <1>7, <2>1 DEF PanelServe, ServeList, ServeStatus, ServeUpload
  <2>4. QED
    BY <1>4, <2>2, <2>3
<1>8. ASSUME NEW p \in panel.posts, PanelDeliver(p) \/ PanelFails(p) PROVE PanelTypeOK'
  <2>1. p \in PanelCalls /\ UNCHANGED file
    BY <1>1, <1>8 DEF PanelDeliver, PanelFails, ShowFiles, ThenList
  <2>2. p.row \in Stages /\ [p EXCEPT !.live = FALSE] \in PanelCalls
    BY <2>1 DEF PanelCalls
  <2>3. panel' \in [row : Stages, posts : SUBSET PanelCalls]
    <3>1. CASE ShowFiles(p)
      BY <1>1, <2>2, <3>1 DEF ShowFiles
    <3>2. CASE ThenList(p)
      BY <1>1, <1>2, <3>2 DEF ThenList
    <3>3. CASE PanelFails(p)
      BY <1>1, <2>2, <3>3 DEF PanelFails
    <3>4. QED
      BY <1>8, <3>1, <3>2, <3>3 DEF PanelDeliver
  <2>4. QED
    BY <1>1, <2>1, <2>3 DEF PanelTypeOK
<1>9. QED
  BY <1>5, <1>6, <1>7, <1>8 DEF PanelNext

(***************************************************************************)
(* The tab with its screens.                                               *)
(***************************************************************************)
\* What every reachable state has: the shell and the dialog always, the other screens in
\* their tabs.
ClientInv ==
  /\ tab \in Tabs /\ TabTypeOK /\ DialogInv
  /\ IF tab = "ask" THEN AskInv ELSE NoAsk
  /\ tab = "documents" => PanelTypeOK
  /\ IF tab = "approvals" THEN DeskInv ELSE NoDesk

\* A screen whose steps are not the tab's leaves the shell and the dialog alone.
LEMMA ShellStands ==
  ASSUME TabTypeOK, DialogInv, UNCHANGED <<server, view, sources, loaded, calls, switches, dialog>>,
         UNCHANGED faults \/ (faults < MaxFaults /\ faults' = faults + 1)
  PROVE  TabTypeOK' /\ DialogInv'
<1>1. faults' \in 0 .. MaxFaults
  BY TabAssumption DEF TabTypeOK
<1>2. TabTypeOK'
  BY <1>1 DEF TabTypeOK, server
<1>3. DialogInv'
  BY DEF DialogInv, RequestsInPhase, ImportStands, ListsAwaited, server
<1>4. QED
  BY <1>2, <1>3

LEMMA NoDialogHolds ==
  ASSUME TabInit, NoDialog
  PROVE  DialogInv
<1>1. /\ dialog.phase = "closed" /\ ~dialog.pending /\ dialog.posts = {} /\ dialog \in Dialogs
  BY DEF NoDialog, Closed, Dialogs, Phases, Sessions
<1>2. \A c \in calls : c.op # "list"
  BY DEF TabInit, Request
<1>3. QED
  BY <1>1, <1>2 DEF DialogInv, RequestsInPhase, ImportStands, ListsAwaited

LEMMA ClientStarts == ClientInit => ClientInv
<1> SUFFICES ASSUME ClientInit PROVE ClientInv
  OBVIOUS
<1>1. tab \in Tabs /\ TabTypeOK /\ DialogInv
  BY TabTypeInit, NoDialogHolds DEF ClientInit
<1>2. IF tab = "ask" THEN AskInv ELSE NoAsk
  BY AskStarts DEF ClientInit
<1>3. tab = "documents" => PanelTypeOK
  <2> SUFFICES ASSUME PanelInit PROVE PanelTypeOK
    BY DEF ClientInit
  <2>1. file \in [stage : Stages, finished : BOOLEAN]
    <3>1. PICK s \in {"none", "processing"} : file = [stage |-> s, finished |-> FALSE]
      BY DEF PanelInit
    <3>2. s \in Stages
      BY DEF Stages
    <3>3. QED
      BY <3>1, <3>2
  <2>2. ToServer("list") \in PanelCalls
    BY DEF ToServer, PanelCalls, Stages
  <2>3. QED
    BY <2>1, <2>2 DEF PanelInit, PanelTypeOK
<1>4. IF tab = "approvals" THEN DeskInv ELSE NoDesk
  BY DeskStarts DEF ClientInit
<1>5. QED
  BY <1>1, <1>2, <1>3, <1>4 DEF ClientInv

LEMMA ClientSteps == ClientInv /\ [ClientNext]_clientVars => ClientInv'
<1> SUFFICES ASSUME ClientInv, [ClientNext]_clientVars PROVE ClientInv'
  OBVIOUS
<1> USE DEF ClientInv
<1>1. CASE ShellStep
  <2>1. TabNext /\ Screens /\ UNCHANGED tab /\ tab \notin {"documents", "approvals"}
    BY <1>1 DEF ShellStep, Still
  <2>2. TabTypeOK' /\ DialogInv'
    BY <2>1, TabTypes, DialogScreenStays
  <2>3. IF tab = "ask" THEN AskInv' ELSE NoAsk'
    <3>1. CASE tab = "ask"
      BY <2>1, <3>1, AskScreenStays
    <3>2. CASE tab # "ask"
      BY <2>1, <3>2 DEF Screens, NoAsk, Blank
    <3>3. QED
      BY <3>1, <3>2
  <2>4. NoDesk'
    BY <2>1 DEF Screens, NoDesk, deskVars, Fresh, List
  <2>5. QED
    BY <2>1, <2>2, <2>3, <2>4
<1>2. CASE AskStep
  <2>1. tab = "ask" /\ AskNext /\ UNCHANGED <<tab, dialog, panelVars, deskVars>>
    BY <1>2 DEF AskStep
  <2>2. AskInv'
    BY <2>1, AskSteps
  <2>3. /\ UNCHANGED <<server, view, sources, loaded, calls, switches, dialog>>
        /\ UNCHANGED faults \/ (faults < MaxFaults /\ faults' = faults + 1)
    BY <2>1 DEF AskNext, Submit, ServeAsk, ServeRestore, AskAnswered, AskRefused, Cancel,
                AskTimesOut, Restored, NotRestored, tabVars, bounds
  <2>4. TabTypeOK' /\ DialogInv'
    BY <2>3, ShellStands
  <2>5. NoDesk'
    BY <2>1 DEF NoDesk, deskVars, Fresh, List
  <2>6. QED
    BY <2>1, <2>2, <2>4, <2>5
<1>3. CASE ImportStep
  <2>1. tab = "import" /\ DialogNext /\ UNCHANGED <<tab, askVars, panelVars, deskVars>>
    BY <1>3 DEF ImportStep
  <2>2. TabTypeOK' /\ DialogInv'
    BY <2>1, DialogSteps, DialogTabTypes
  <2>3. NoAsk' /\ NoDesk'
    BY <2>1 DEF NoAsk, NoDesk, askVars, deskVars, Blank, Fresh, List
  <2>4. QED
    BY <2>1, <2>2, <2>3
<1>4. CASE FilesStep
  <2>1. tab = "documents" /\ PanelNext /\ UNCHANGED <<tab, askVars, dialog, deskVars>>
    BY <1>4 DEF FilesStep
  <2>2. PanelTypeOK'
    BY <2>1, PanelTypes
  <2>3. /\ UNCHANGED <<server, view, sources, loaded, calls, switches, dialog>>
        /\ UNCHANGED faults \/ (faults < MaxFaults /\ faults' = faults + 1)
    BY <2>1 DEF PanelNext, HydraFinishes, PanelTick, UploadFile, RefreshFiles, PanelServe,
          PanelDeliver, PanelFails, ServeList, ServeStatus, ServeUpload, ShowFiles,
          ThenList, tabVars, bounds
  <2>4. TabTypeOK' /\ DialogInv'
    BY <2>3, ShellStands
  <2>5. NoAsk' /\ NoDesk'
    BY <2>1 DEF NoAsk, NoDesk, askVars, deskVars, Blank, Fresh, List
  <2>6. QED
    BY <2>1, <2>2, <2>4, <2>5
<1>5. CASE DeskStep
  <2>1. tab = "approvals" /\ DeskNext /\ UNCHANGED <<tab, askVars, dialog, panelVars>>
    BY <1>5 DEF DeskStep
  <2>2. DeskInv'
    BY <2>1, DeskSteps
  <2>3. /\ UNCHANGED <<server, view, sources, loaded, calls, switches, dialog>>
        /\ UNCHANGED faults \/ (faults < MaxFaults /\ faults' = faults + 1)
    BY <2>1 DEF DeskNext, OpenComposer, CloseComposer, CloseReview, Confirm, Approve,
          RefreshProposals, CreateProposal, Review, ServeDesk, ServePropose, Succeeded,
          ShowProposals, DeskRefused, DeskTimesOut, ServeApprove, tabVars, bounds
  <2>4. TabTypeOK' /\ DialogInv'
    BY <2>3, ShellStands
  <2>5. NoAsk'
    BY <2>1 DEF NoAsk, askVars, Blank
  <2>6. QED
    BY <2>1, <2>2, <2>4, <2>5
<1>6. CASE UNCHANGED clientVars
  <2>1. /\ UNCHANGED <<tabVars, store, ask, dialog, file, panel, proposals, reviewed, desk>>
        /\ UNCHANGED tab
    BY <1>6 DEF clientVars, screens, askVars, panelVars, deskVars
  <2>2. TabTypeOK' /\ DialogInv'
    BY <2>1, ShellStands DEF tabVars, bounds
  <2>3. IF tab = "ask" THEN AskInv' ELSE NoAsk'
    BY <2>1 DEF AskInv, NoAsk, Ready, Blank, tabVars
  <2>4. tab = "documents" => PanelTypeOK'
    BY <2>1 DEF PanelTypeOK
  <2>5. IF tab = "approvals" THEN DeskInv' ELSE NoDesk'
    BY <2>1 DEF DeskInv, NothingUnreviewed, NoDesk, Fresh, List
  <2>6. QED
    BY <2>1, <2>2, <2>3, <2>4, <2>5
<1>7. QED
  BY <1>1, <1>2, <1>3, <1>4, <1>5, <1>6 DEF ClientNext

\* The question screen hangs together in every reachable state: the answer shown is to the
\* question above it, and the screen waits exactly for one question of its own (AskScreen.run
\* and its restore effect).
THEOREM AskCoherent == ClientSpec => []AskIsCoherent
<1>1. ClientInv => AskIsCoherent
  <2> SUFFICES ASSUME ClientInv PROVE AskIsCoherent
    OBVIOUS
  <2>1. CASE tab = "ask"
    <3>1. AskTypeOK /\ AnswerMatchesQuestion /\ WaitsForOneAnswer
      BY <2>1, AskHolds DEF ClientInv
    <3>2. QED
      BY <2>1, <3>1 DEF AskIsCoherent, ClientTypeOK, ClientInv
  <2>2. CASE tab # "ask"
    <3>1. ask.result = NoRun /\ ~ask.busy /\ ask.posts = {}
      BY <2>2 DEF ClientInv, NoAsk, Blank
    <3>2. {p \in ask.posts : p.op = "ask" /\ p.live} = {} /\ Cardinality({}) = 0
      BY <3>1, FS_EmptySet
    <3>3. AnswerMatchesQuestion /\ WaitsForOneAnswer
      BY <3>1, <3>2 DEF AnswerMatchesQuestion, WaitsForOneAnswer
    <3>4. tab = "approvals" => DeskTypeOK
      BY DeskHolds DEF ClientInv
    <3>5. DialogTypeOK
      BY DEF ClientInv, DialogInv, Dialogs, DialogTypeOK
    <3>6. QED
      BY <2>2, <3>3, <3>4, <3>5 DEF AskIsCoherent, ClientTypeOK, ClientInv
  <2>3. QED
    BY <2>1, <2>2
<1>2. QED
  BY <1>1, ClientStarts, ClientSteps, PTL DEF ClientSpec

\* A brief's draft becomes one proposal however often it is submitted, and nothing is sent that
\* the owner did not tick (createProposal, approve, ApprovalModal).
THEOREM LedgerMeant == ClientSpec => []LedgerIsMeant
<1>1. ClientInv => LedgerIsMeant
  <2> SUFFICES ASSUME ClientInv PROVE LedgerIsMeant
    OBVIOUS
  <2>1. CASE tab = "approvals"
    BY <2>1, DeskHolds DEF ClientInv, LedgerIsMeant
  <2>2. CASE tab # "approvals"
    BY <2>2 DEF ClientInv, NoDesk, LedgerIsMeant, SeededDraftIsOneProposal,
          NothingUnreviewed
  <2>3. QED
    BY <2>1, <2>2
<1>2. QED
  BY <1>1, ClientStarts, ClientSteps, PTL DEF ClientSpec

\* The dialog closes after an import only onto a list that shows what it imported, unless the
\* browser has changed account meanwhile (onImported, importSelected).
THEOREM ImportListed == ClientSpec => ImportIsListed
<1> DEFINE Lists == dialog'.phase = "closed" /\ Ready(view') /\ sources'.who \in ImportedFor
                    => dialog.picked \subseteq sources'.refs
<1>1. ASSUME ClientInv, [ClientNext]_clientVars PROVE Lists \/ UNCHANGED <<tabVars, dialog>>
  <2> SUFFICES ASSUME dialog'.phase = "closed", Ready(view'), sources'.who \in ImportedFor
               PROVE  dialog.picked \subseteq sources'.refs \/ UNCHANGED <<tabVars, dialog>>
    OBVIOUS
  <2>1. dialog.phase \in {"submitting", "refreshing"}
    BY <1>1 DEF ImportedFor, ClientInv, DialogInv, RequestsInPhase
  <2>2. dialog # dialog'
    BY <2>1
  <2>3. ~ShellStep
    BY <2>2 DEF ShellStep, Screens, Disappears
  <2>4. DialogNext
    BY <1>1, <2>2, <2>3 DEF ClientNext, AskStep, ImportStep, FilesStep, DeskStep,
          clientVars, screens
  <2>5. dialog \in Dialogs
    BY <1>1 DEF ClientInv, DialogInv
  <2>6. PICK c \in calls : Refreshed(c)
    <3>1. ~Open /\ ~Close /\ ~Import /\ ~Recover
      BY <2>1, <2>5 DEF Open, Close, Import, Recover, Load, Dialogs
    <3>2. \A refs \in SUBSET Refs : ~PickRefs(refs)
      BY <2>1 DEF PickRefs
    <3>3. \A d \in calls : ~NotRefreshed(d)
      BY <2>1, <2>5 DEF NotRefreshed, Dialogs
    <3>4. \A p \in dialog.posts : ~ServeAvailable(p) /\ ~ServeImport(p)
      BY <2>1, <2>5 DEF ServeAvailable, ServeImport, Dialogs
    <3>5. ASSUME NEW p \in dialog.posts
          PROVE  ~Offer(p) /\ ~Imported(p) /\ ~DialogRefused(p) /\ ~DialogTimesOut(p)
      <4>1. Offer(p) => dialog'.phase = "open"
        BY <2>5 DEF Offer, Dialogs
      <4>2. Imported(p) => dialog'.phase = "refreshing"
        BY <2>5 DEF Imported, Dialogs
      <4>3. \A rest : FailsWith(p, rest) => dialog'.phase = "failed"
        BY <2>5 DEF FailsWith, Dialogs
      <4>4. QED
        BY <4>1, <4>2, <4>3 DEF DialogRefused, DialogTimesOut
    <3>6. QED
      BY <2>4, <3>1, <3>2, <3>3, <3>4, <3>5 DEF DialogNext
  <2>7. dialog.phase = "refreshing"
    BY <2>2, <2>6 DEF Refreshed
  <2>8. sources'.who = dialog.of
    BY <1>1, <2>7 DEF ImportedFor, ClientInv, DialogInv, RequestsInPhase
  <2>9. /\ c.op = "list" /\ c.answer.stage = "answered" /\ sources'.who = c.answer.view.who
         /\ sources'.refs = c.answer.refs
    BY <2>6 DEF Refreshed, Listed
  <2>10. QED
    BY <1>1, <2>7, <2>8, <2>9 DEF ClientInv, DialogInv, ListsAwaited
<1>2. QED
  BY <1>1, ClientStarts, ClientSteps, PTL DEF ClientSpec, ImportIsListed
=============================================================================
