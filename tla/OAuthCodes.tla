----------------------------- MODULE OAuthCodes -----------------------------
(***************************************************************************)
(* QueueProof's own OAuth authorization server and the gate in front of    *)
(* the MCP endpoint: open client registration, consent that mints a code,  *)
(* single-use redemption of the code for an access token, owner-minted     *)
(* tokens, revocation, and the token lookup and client ledger of /mcp.     *)
(*                                                                         *)
(* One action is one database statement or batch.  Time passes between     *)
(* them, any of them may fail or lose its answer, and a handler may die.   *)
(***************************************************************************)
EXTENDS Naturals, StatementFates

CONSTANTS
  Clients,        \* dynamically registered client ids
  Consents,       \* approved POST /api/oauth/approve requests, each with its code
  Redemptions,    \* POST /oauth/token requests, each with its access token
  Mints,          \* POST /api/mcp-tokens requests, each with its client and token
  Calls,          \* requests to /mcp that bear an opaque token
  Workspaces,
  Redirects,      \* redirect URIs
  RedirectsOf,    \* [Clients -> SUBSET Redirects]: redirect_uris_json
  Secrets,        \* PKCE verifiers; a challenge names its verifier
  Scopes, Read,   \* QUEUEPROOF_MCP_SCOPES and "queueproof:read"
  CodeTTL, TokenTTL,
  MaxNow          \* bound on the clock

Tokens == Redemptions \union Mints    \* randomToken: each grant has its own
Unbound == "unbound"

ASSUME OAuthAssumption ==
  /\ RedirectsOf \in [Clients -> SUBSET Redirects]
  /\ Read \in Scopes
  /\ CodeTTL \in Nat \ {0} /\ TokenTTL \in Nat \ {0} /\ MaxNow \in Nat
  /\ Redemptions \intersect Mints = {}
  /\ Clients \intersect Mints = {}
  /\ Workspaces # {} /\ Unbound \notin Workspaces

VARIABLES
  now,
  ledger,     \* mcp_clients
  consent,    \* what each consent approves, and for whose workspace
  consenting, \* control state of each consent
  code,       \* mcp_authorization_codes, one row per consent
  claim,      \* what each token request presents
  redeeming,  \* control state of each token request
  token,      \* mcp_tokens
  minting,    \* control state of each owner-minted token
  bearer,     \* the token each call presents
  calling,    \* control state of each call
  served      \* the workspace each admitted call acts in

flow == <<consent, consenting, code>>
redemption == <<claim, redeeming>>
call == <<bearer, calling, served>>
vars == <<now, ledger, flow, redemption, token, minting, call>>

ConsentRecord == [client : Clients, redirect : Redirects, challenge : Secrets,
                  asked : SUBSET Scopes, workspace : Workspaces]
ClaimRecord == [code : Consents, client : Clients, redirect : Redirects,
                verifier : Secrets]
LedgerClients == Clients \union Mints      \* each mint makes a client of its own
LedgerRow == [status : {"absent", "registered", "configured", "connected"},
              workspace : Workspaces \union {Unbound},
              handshake : BOOLEAN, toolCall : BOOLEAN]
CodeRow == [status : {"absent", "live", "consumed"}, expires : Nat]
TokenRow == [status : {"absent", "issued", "revoked"}, expires : Nat,
             client : LedgerClients, workspace : Workspaces, scopes : SUBSET Scopes]

NoToken ==        \* only its status is read
  [status |-> "absent", expires |-> 0, client |-> CHOOSE c \in LedgerClients : TRUE,
   workspace |-> CHOOSE w \in Workspaces : TRUE, scopes |-> {}]

ConsentStates == {"idle", "issue", "issued", "refused", "serverError"}
RedeemStates == {"idle", "consume", "mint", "granted", "denied", "serverError", "crashed"}
CallStates == {"idle", "handshake", "serve", "stamp", "done", "unauthorized",
               "serverError", "crashed"}

TypeOK ==
  /\ now \in 0..MaxNow
  /\ ledger \in [LedgerClients -> LedgerRow]
  /\ consent \in [Consents -> ConsentRecord]
  /\ consenting \in [Consents -> ConsentStates]
  /\ code \in [Consents -> CodeRow]
  /\ claim \in [Redemptions -> ClaimRecord]
  /\ redeeming \in [Redemptions -> RedeemStates]
  /\ token \in [Tokens -> TokenRow]
  /\ minting \in [Mints -> {"idle", "minted", "serverError"}]
  /\ bearer \in [Calls -> Tokens]
  /\ calling \in [Calls -> CallStates]
  /\ served \in [Calls -> Workspaces \union {Unbound}]

Init ==
  /\ now = 0
  /\ ledger = [c \in LedgerClients |->
       [status |-> "absent", workspace |-> Unbound, handshake |-> FALSE, toolCall |-> FALSE]]
  /\ consent \in [Consents -> ConsentRecord]
  /\ consenting = [k \in Consents |-> "idle"]
  /\ code = [k \in Consents |-> [status |-> "absent", expires |-> 0]]
  /\ claim \in [Redemptions -> ClaimRecord]
  /\ redeeming = [r \in Redemptions |-> "idle"]
  /\ token = [t \in Tokens |-> NoToken]
  /\ minting = [m \in Mints |-> "idle"]
  /\ bearer \in [Calls -> Tokens]
  /\ calling = [m \in Calls |-> "idle"]
  /\ served = [m \in Calls |-> Unbound]

Expiry(ttl) == now + ttl

Tick ==
  /\ now < MaxNow
  /\ now' = now + 1
  /\ UNCHANGED <<ledger, flow, redemption, token, minting, call>>

(***************************************************************************)
(* POST /oauth/register and POST /api/oauth/approve.                       *)
(***************************************************************************)
RegisterClient(c) ==
  /\ ledger[c].status = "absent"
  /\ ledger' = [ledger EXCEPT ![c].status = "registered"]
  /\ UNCHANGED <<now, flow, redemption, token, minting, call>>

\* parseAuthorizationRequest: a known client and one of its own redirect URIs.
ParseAuthorizationRequest(k) ==
  /\ consenting[k] = "idle"
  /\ consenting' = [consenting EXCEPT ![k] =
       IF /\ ledger[consent[k].client].status # "absent"
          /\ consent[k].redirect \in RedirectsOf[consent[k].client]
       THEN "issue" ELSE "refused"]
  /\ UNCHANGED <<now, ledger, consent, code, redemption, token, minting, call>>

IssueAuthorizationCode(k, o) ==
  /\ consenting[k] = "issue"
  /\ consenting' = [consenting EXCEPT ![k] = Resume(o, "issued")]
  /\ code' = IF Applied(o)
       THEN [code EXCEPT ![k] = [status |-> "live", expires |-> Expiry(CodeTTL)]]
       ELSE code
  /\ UNCHANGED <<now, ledger, consent, redemption, token, minting, call>>

\* Read is the floor only when nothing recognisable is asked for.
NormaliseScopes(asked) == IF asked = {} THEN {Read} ELSE asked

(***************************************************************************)
(* POST /oauth/token.                                                      *)
(***************************************************************************)
Moves(r, from, to) ==
  /\ redeeming[r] = from
  /\ redeeming' = [redeeming EXCEPT ![r] = to]

\* Mutant: the verifier is not compared with the challenge.
ClaimMatchesUnverified(r) ==
  LET k == claim[r].code IN
  /\ consent[k].client = claim[r].client
  /\ consent[k].redirect = claim[r].redirect

ClaimMatches(r) ==
  LET k == claim[r].code IN
  /\ consent[k].client = claim[r].client
  /\ consent[k].redirect = claim[r].redirect
  /\ consent[k].challenge = claim[r].verifier

\* The SELECT of a live code, and the checks on the row it returns.  The requester
\* knows the code only once its consent was answered.
CheckCode(r) ==
  LET k == claim[r].code IN
  /\ consenting[k] = "issued"
  /\ Moves(r, "idle",
       IF code[k].status = "live" /\ now < code[k].expires /\ ClaimMatches(r)
       THEN "consume" ELSE "denied")
  /\ UNCHANGED <<now, ledger, flow, claim, token, minting, call>>

\* Mutant: the UPDATE is not conditioned on consumed_at IS NULL.
ConsumeCodeUnconditionally(r, o) ==
  /\ Moves(r, "consume", Resume(o, "mint"))
  /\ code' = IF Applied(o)
       THEN [code EXCEPT ![claim[r].code].status = "consumed"] ELSE code
  /\ UNCHANGED <<now, ledger, consent, consenting, claim, token, minting, call>>

\* UPDATE ... WHERE consumed_at IS NULL; no changed row means another redemption won.
\* The code's expiry is not looked at again.
ConsumeCode(r, o) ==
  LET wins == code[claim[r].code].status = "live" IN
  /\ Moves(r, "consume", Resume(o, IF wins THEN "mint" ELSE "denied"))
  /\ code' = IF Applied(o) /\ wins
       THEN [code EXCEPT ![claim[r].code].status = "consumed"] ELSE code
  /\ UNCHANGED <<now, ledger, consent, consenting, claim, token, minting, call>>

Grant(r) ==
  LET k == consent[claim[r].code] IN
  [status |-> "issued", expires |-> Expiry(TokenTTL), client |-> k.client,
   workspace |-> k.workspace, scopes |-> NormaliseScopes(k.asked)]

\* One batch: the token row, and the registration bound to the consenting workspace.
MintToken(r, o) ==
  /\ Moves(r, "mint", Resume(o, "granted"))
  /\ IF Applied(o)
     THEN /\ token' = [token EXCEPT ![r] = Grant(r)]
          /\ ledger' = [ledger EXCEPT ![Grant(r).client] =
               [@ EXCEPT !.workspace = Grant(r).workspace, !.status = "connected"]]
     ELSE UNCHANGED <<token, ledger>>
  /\ UNCHANGED <<now, flow, claim, minting, call>>

CrashRedemption(r) ==
  /\ redeeming[r] \in {"consume", "mint"}
  /\ redeeming' = [redeeming EXCEPT ![r] = "crashed"]
  /\ UNCHANGED <<now, ledger, flow, claim, token, minting, call>>

(***************************************************************************)
(* POST and DELETE /api/mcp-tokens.                                        *)
(***************************************************************************)
\* An owner's batch: a client of its own, and a token that always has read.
MintOwnerToken(m, o) ==
  /\ minting[m] = "idle"
  /\ minting' = [minting EXCEPT ![m] = Resume(o, "minted")]
  /\ \E w \in Workspaces, asked \in SUBSET Scopes :
       IF Applied(o)
       THEN /\ token' = [token EXCEPT ![m] =
                 [status |-> "issued", expires |-> Expiry(TokenTTL), client |-> m,
                  workspace |-> w, scopes |-> asked \union {Read}]]
            /\ ledger' = [ledger EXCEPT ![m] =
                 [@ EXCEPT !.status = "configured", !.workspace = w]]
       ELSE UNCHANGED <<token, ledger>>
  /\ UNCHANGED <<now, flow, redemption, call>>

\* WHERE id = ? AND workspace_id = the owner's AND revoked_at IS NULL.
RevokeToken(t) ==
  /\ token[t].status = "issued"
  /\ token' = [token EXCEPT ![t].status = "revoked"]
  /\ UNCHANGED <<now, ledger, flow, redemption, minting, call>>

(***************************************************************************)
(* /mcp with an opaque bearer token.                                       *)
(***************************************************************************)
\* Mutant: the lookup does not filter on revoked_at.
LiveThoughRevoked(t) == token[t].status # "absent" /\ now < token[t].expires

Live(t) == token[t].status = "issued" /\ now < token[t].expires

CallMoves(m, from, to) ==
  /\ calling[m] = from
  /\ calling' = [calling EXCEPT ![m] = to]

\* The SELECT by token hash.
Authenticate(m) ==
  LET t == bearer[m] IN
  /\ CallMoves(m, "idle", IF Live(t) THEN "handshake" ELSE "unauthorized")
  /\ served' = IF Live(t) THEN [served EXCEPT ![m] = token[t].workspace] ELSE served
  /\ UNCHANGED <<now, ledger, flow, redemption, token, minting, bearer>>

\* UPDATE mcp_clients ... WHERE id = ? AND workspace_id = ?, and the read check.
OwnLedgerRow(m) == ledger[token[bearer[m]].client].workspace = served[m]

Handshake(m, o) ==
  LET t == token[bearer[m]] IN
  /\ CallMoves(m, "handshake",
       Resume(o, IF Read \in t.scopes THEN "serve" ELSE "unauthorized"))
  /\ ledger' = IF Applied(o) /\ OwnLedgerRow(m)
       THEN [ledger EXCEPT ![t.client] =
               [@ EXCEPT !.handshake = TRUE, !.status = "connected"]]
       ELSE ledger
  /\ UNCHANGED <<now, flow, redemption, token, minting, bearer, served>>

\* The tool runs in the workspace and with the scopes of the lookup.
Serve(m) ==
  /\ \/ CallMoves(m, "serve", "stamp")       \* a tools/call
     \/ CallMoves(m, "serve", "done")
  /\ UNCHANGED <<now, ledger, flow, redemption, token, minting, bearer, served>>

StampToolCall(m, o) ==
  /\ CallMoves(m, "stamp", Resume(o, "done"))
  /\ ledger' = IF Applied(o) /\ OwnLedgerRow(m)
       THEN [ledger EXCEPT ![token[bearer[m]].client].toolCall = TRUE] ELSE ledger
  /\ UNCHANGED <<now, flow, redemption, token, minting, bearer, served>>

CrashCall(m) ==
  /\ calling[m] \in {"handshake", "serve", "stamp"}
  /\ calling' = [calling EXCEPT ![m] = "crashed"]
  /\ UNCHANGED <<now, ledger, flow, redemption, token, minting, bearer, served>>

Next ==
  \/ Tick
  \/ \E c \in Clients : RegisterClient(c)
  \/ \E k \in Consents :
       ParseAuthorizationRequest(k) \/ \E o \in Outcomes : IssueAuthorizationCode(k, o)
  \/ \E r \in Redemptions :
       \/ CheckCode(r)
       \/ CrashRedemption(r)
       \/ \E o \in Outcomes : ConsumeCode(r, o) \/ MintToken(r, o)
  \/ \E m \in Mints, o \in Outcomes : MintOwnerToken(m, o)
  \/ \E t \in Tokens : RevokeToken(t)
  \/ \E m \in Calls :
       \/ Authenticate(m)
       \/ Serve(m)
       \/ CrashCall(m)
       \/ \E o \in Outcomes : Handshake(m, o) \/ StampToolCall(m, o)

Spec == Init /\ [][Next]_vars

(***************************************************************************)
(* Properties.                                                             *)
(***************************************************************************)
\* An authorization code yields at most one access token, however many
\* redemptions of it race, fail or crash between the SELECT and the batch.
OneTokenPerCode ==
  \A r, q \in Redemptions :
    token[r].status # "absent" /\ token[q].status # "absent"
      /\ claim[r].code = claim[q].code => r = q

\* A redeemed token is the one its consent describes: same client, redirect URI and
\* verifier as the request that was approved, the consenting user's workspace, no
\* scope that was not asked for (but the read floor), and a consumed code.
TokenFollowsConsent ==
  \A r \in Redemptions :
    token[r].status # "absent" =>
      LET k == claim[r].code IN
      /\ code[k].status = "consumed"
      /\ consenting[k] = "issued"
      /\ claim[r].client = consent[k].client
      /\ claim[r].redirect \in RedirectsOf[consent[k].client]
      /\ claim[r].verifier = consent[k].challenge
      /\ token[r].client = consent[k].client
      /\ token[r].workspace = consent[k].workspace
      /\ token[r].scopes \subseteq consent[k].asked \union {Read}

\* A client is bound to a workspace only by a token that this workspace's owner
\* granted to it: the ledger never names a workspace without a grant.
LedgerHasGrant ==
  \A c \in LedgerClients :
    ledger[c].workspace # Unbound =>
      \E t \in Tokens :
        /\ token[t].status # "absent"
        /\ token[t].client = c
        /\ token[t].workspace = ledger[c].workspace

\* Whatever a client holds was granted by a consent: its token is the one the consent
\* describes, and the ledger binds it to no workspace that did not grant one.
GrantsFollowConsent == TypeOK /\ TokenFollowsConsent /\ LedgerHasGrant

\* A revoked token admits no further call: whatever runs was admitted before, and in
\* the token's own workspace.
RevocationIsFinal ==
  [][\A m \in Calls :
       token[bearer[m]].status = "revoked" =>
         /\ token'[bearer[m]].status = "revoked"
         /\ calling[m] = "idle" => calling'[m] \in {"idle", "unauthorized"}
         /\ served'[m] = served[m]]_vars

(***************************************************************************)
(* What the repository says and the code does not keep.  No run checks it: *)
(* README.md tells how each comes to be broken.                            *)
(***************************************************************************)
\* oauth-provider.ts:86: "Read access is the floor. A client that asks for nothing
\* recognisable still gets a usable read-only connection instead of a token that can
\* do nothing at all."  A client that asks for another scope alone gets just that,
\* and every call with its token is answered 401.
GrantedTokenIsUsable ==
  \A r \in Redemptions : redeeming[r] = "granted" => Read \in token[r].scopes
=============================================================================
