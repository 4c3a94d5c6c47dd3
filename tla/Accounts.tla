------------------------------ MODULE Accounts ------------------------------
(***************************************************************************)
(* Who a request is, which workspace that account has, and the HydraDB key *)
(* of the workspace: lib/server/identity.ts, auth-principal.ts, store.ts,  *)
(* hydradb-account.ts, mcp-auth.ts, the routes under app/api/workspace,    *)
(* app/api/session and app/api/hydradb/configure, and the operator's       *)
(* scripts/provision-public-workspace.                                     *)
(*                                                                         *)
(* A request runs on a server instance of its own; each of its awaits is a *)
(* step, and the steps of requests interleave.  A first request of an      *)
(* instance migrates the schema (SchemaMigration); a sign-in passes the    *)
(* limiter of its operation (PublicRateLimit).                             *)
(***************************************************************************)
EXTENDS SchemaMigration, PublicRateLimit, TLC

CONSTANTS Browsers,
          Login,        \* browser -> its Supabase subject, its gateway or local user, or NoOne
          Subjects,     \* subjects of the external issuer
          Locals,       \* users named by the gateway or the local opt-in
          NewIds,       \* identifiers createId("ws") may return
          Keys,         \* the keys callers paste, and SharedKey
          SharedKey,    \* the deployment's own key, in Keys or NoKey
          Modes,        \* authentication settings a deployment may have
          Operations,   \* what the requests of a run ask for
          MaxRequests,  \* bound: requests
          MaxDeploys,   \* bound: changes of the settings
          NoOne, NoWorkspace, NoKey

ASSUME LoginAssumption ==
  /\ Login \in [Browsers -> Subjects \cup Locals \cup {NoOne}]
  /\ SharedKey \in Keys \cup {NoKey}
  /\ Instances = Requests
  /\ Browsers # {} /\ Operations # {}
  /\ MaxRequests \in Nat /\ MaxDeploys \in Nat

VARIABLES workspaces,  \* rows of workspaces
          members,     \* rows of workspace_members
          identities,  \* the subjects with a row of auth_identities
          clients,     \* rows of mcp_clients made for a Supabase token
          account,     \* the key in each workspace's hydradb_accounts row
          accepted,    \* the keys HydraDB accepted in a probe
          session,     \* the browsers holding a valid owner cookie
          env,         \* the deployment's settings
          req,         \* the requests being served
          begun,       \* requests so far
          deploys      \* deployments so far

tenancy == <<workspaces, members, identities, clients, account, accepted>>
vars == <<tenancy, session, env, req, begun, deploys, schema, limits>>

Public == "user:public-access"
Owner == "user:deployment-owner"
Users == Subjects \cup Locals \cup {Public, Owner}

\* The fixed names are no caller's, and the gateway's names are not the issuer's.
ASSUME NamesAssumption ==
  /\ Public \notin Subjects \cup Locals
  /\ Owner \notin Subjects
  /\ Subjects \cap Locals = {}

\* The subject's digest names its user, its workspace and its membership.
PersonalWorkspace(s) == s
Workspaces == NewIds \cup {PersonalWorkspace(s) : s \in Subjects}

\* The unique index of workspace_members leaves one row of a user in a workspace.
MemberRows == [workspace : Workspaces, user : Users, role : {"owner", "member"}]
AccountRows == [Workspaces -> Keys \cup {NoKey}]

\* One issuer and one external client: the row's identifier is its user's.
ClientRows == [workspace : Workspaces, user : Subjects]

RequestRecords ==
  [at : {"idle", "setup", "identity", "principal", "reread", "resolve", "role",
         "create", "account", "probe", "store", "limit", "token", "link",
         "client", "served", "signedIn"},
   op : Operations, browser : Browsers, user : Users \cup {NoOne},
   public : Workspaces \cup {NoWorkspace},      \* the configured one, when it began
   workspace : Workspaces \cup {NoWorkspace},   \* the one it found
   key : Keys \cup {NoKey}]

(***************************************************************************)
(* Identity                                                                *)
(***************************************************************************)
\* queueProofAuthMode: an explicit mode, else what Supabase's settings imply.
AuthMode(m) ==
  CASE m.mode # "unset" -> m.mode
    [] m.mode = "unset" /\ m.supabase -> IF m.production THEN "supabase" ELSE "hybrid"
    [] OTHER -> "legacy"

SupabaseWebEnabled == AuthMode(env.auth) \in {"hybrid", "supabase"} /\ env.auth.supabase

LegacySignIn ==
  /\ ~(env.auth.production /\ env.auth.supabase)
  /\ AuthMode(env.auth) # "supabase"

\* mcpOAuthConfig: the setting of /mcp, else hybrid in production beside Supabase.
McpOAuth(m) ==
  /\ m.supabase
  /\ \/ m.mcp \in {"hybrid", "supabase"}
     \/ m.mcp = "unset" /\ m.production

\* Each source of identity gives one actor or none.
FromSupabase(b) == IF SupabaseWebEnabled THEN {Login[b]} \cap Subjects ELSE {}
FromCookie(b) == IF b \in session THEN {Owner} ELSE {}
FromGateway(b) == {Login[b]} \cap Locals
FromPublicAccess == {Public}

\* authenticateSupabaseMcpToken: a token that verifies names its subject.
FromToken(b) == IF McpOAuth(env.auth) THEN {Login[b]} \cap Subjects ELSE {}

\* The first source that knows the caller, in the order of trust.
Actor(b) ==
  LET sources == <<FromSupabase(b), FromCookie(b), FromGateway(b), FromPublicAccess>>
      first == CHOOSE i \in DOMAIN sources :
                 /\ sources[i] # {}
                 /\ \A j \in 1 .. i - 1 : sources[j] = {}
  IN CHOOSE u \in sources[first] : TRUE

(***************************************************************************)
(* Membership                                                              *)
(***************************************************************************)
Memberships(u) == {m.workspace : m \in {n \in members : n.user = u}}
RoleIn(u, w) == {m.role : m \in {n \in members : n.user = u /\ n.workspace = w}}

\* INSERT OR IGNORE under the unique index.
Joined(u, w, role) ==
  IF w \in Memberships(u) THEN members
  ELSE members \cup {[workspace |-> w, user |-> u, role |-> role]}

\* The public actor has the configured workspace if it was given membership;
\* anyone else has the workspaces they belong to.
WorkspacesFor(u, configured) ==
  IF u = Public THEN Memberships(u) \cap {configured} ELSE Memberships(u)

\* A request that was answered leaves nothing behind.
Untaken == [at |-> "idle", op |-> CHOOSE o \in Operations : TRUE,
         browser |-> CHOOSE b \in Browsers : TRUE, user |-> NoOne,
         public |-> NoWorkspace, workspace |-> NoWorkspace, key |-> NoKey]

\* A deployment whose public workspace the user u created earlier.
Founded(w, u) ==
  /\ workspaces = {w}
  /\ members = {[workspace |-> w, user |-> u, role |-> "owner"],
                [workspace |-> w, user |-> Public, role |-> "member"]}
  /\ env \in [auth : Modes, public : {w}]

Init ==
  /\ \/ workspaces = {} /\ members = {} /\ env \in [auth : Modes, public : {NoWorkspace}]
     \/ \E w \in NewIds, u \in Locals : Founded(w, u)
  /\ identities = {} /\ clients = {}
  /\ account = [w \in Workspaces |-> NoKey]
  /\ accepted = {} /\ session = {}
  /\ req = [r \in Requests |-> Untaken]
  /\ begun = 0 /\ deploys = 0
  /\ SchemaInit /\ LimitInit

(***************************************************************************)
(* A request up to its workspace                                           *)
(***************************************************************************)
Free(r) == req[r].at \in {"idle", "served", "signedIn"}
Go(r, at) == req' = [req EXCEPT ![r].at = at]
Answer(r) == req' = [req EXCEPT ![r] = Untaken]
Same == UNCHANGED <<session, env, begun, deploys, schema, limits>>

\* Mutant: the public visitor may call the control plane.
ControlForAll(u, op) == TRUE

\* requirePrivateControlActor.
Control(u, op) == op = "visit" \/ u # Public

\* Who the caller of an operation is; no one, where it is refused at once.
Caller(b, op) ==
  CASE op = "signIn" -> IF LegacySignIn THEN {Public} ELSE {}
    [] op = "mcp" -> FromToken(b)
    [] OTHER -> {u \in {Actor(b)} : Control(u, op)}

\* The cookie and the settings are those of the moment the request arrives.
Begin(r, b, op) ==
  /\ Free(r)
  /\ begun < MaxRequests
  /\ \E user \in Caller(b, op) :
       req' = [req EXCEPT ![r] =
         [at |-> "setup", op |-> op, browser |-> b, user |-> user,
          public |-> env.public, workspace |-> NoWorkspace, key |-> NoKey]]
  /\ begun' = begun + 1
  /\ UNCHANGED <<tenancy, session, env, deploys, schema, limits>>

Migrate(r) ==
  /\ req[r].at = "setup"
  /\ \/ (CreateTables(r) \/ AddColumn(r)) /\ UNCHANGED req
     \/ ColumnFails(r) /\ Answer(r)
  /\ UNCHANGED <<tenancy, session, env, begun, deploys, limits>>

Ready(r) ==
  /\ req[r].at = "setup" /\ IsReady(r)
  /\ Go(r, IF req[r].user \in Subjects THEN "identity" ELSE "resolve")
  /\ Same /\ UNCHANGED tenancy

\* ensureExternalPrincipalWorkspace: a subject may be in its own workspace only.
CheckIdentity(r) ==
  /\ req[r].at = "identity"
  /\ IF Memberships(req[r].user) \subseteq {PersonalWorkspace(req[r].user)}
       THEN Go(r, "principal") ELSE Answer(r)
  /\ Same /\ UNCHANGED tenancy

\* Mutant: a subject seen for the first time is given a generated identifier.
ProvisionPrincipalAnew(r) ==
  LET s == req[r].user IN
  /\ req[r].at = "principal"
  /\ identities' = identities \cup {s}
  /\ \E w \in NewIds :
       /\ workspaces' = workspaces \cup {w}
       /\ members' = Joined(s, w, "owner")
  /\ Go(r, "reread")
  /\ Same /\ UNCHANGED <<clients, account, accepted>>

\* Every row has an identifier derived from the subject, so first requests
\* that race insert the same rows.
ProvisionPrincipal(r) ==
  LET s == req[r].user IN
  /\ req[r].at = "principal"
  /\ identities' = identities \cup {s}
  /\ workspaces' = workspaces \cup {PersonalWorkspace(s)}
  /\ members' = Joined(s, PersonalWorkspace(s), "owner")
  /\ Go(r, "reread")
  /\ Same /\ UNCHANGED <<clients, account, accepted>>

RereadPrincipal(r) ==
  LET s == req[r].user IN
  /\ req[r].at = "reread"
  /\ IF s \in identities /\ Memberships(s) = {PersonalWorkspace(s)}
       THEN Go(r, IF req[r].op = "mcp" THEN "client" ELSE "resolve")
       ELSE Answer(r)
  /\ Same /\ UNCHANGED tenancy

\* /mcp asks no one else for the workspace: it serves the principal's, and its
\* client has one row however often it calls; the update refreshes scopes only.
RegisterClient(r) ==
  LET s == req[r].user IN
  /\ req[r].at = "client"
  /\ clients' = IF \E c \in clients : c.user = s THEN clients
                ELSE clients \cup {[workspace |-> PersonalWorkspace(s), user |-> s]}
  /\ req' = [req EXCEPT ![r].at = "served", ![r].workspace = PersonalWorkspace(s)]
  /\ Same /\ UNCHANGED <<workspaces, members, identities, account, accepted>>

\* What each route does with a workspace it found, or did not find.
Continue(op, found) ==
  CASE op = "create" -> IF found THEN "idle" ELSE "create"
    [] op = "connectAll" -> IF found THEN "account" ELSE "create"
    [] op = "configure" -> IF found THEN "role" ELSE "idle"
    [] op = "signIn" -> IF found THEN "limit" ELSE "token"
    [] OTHER -> IF found THEN "served" ELSE "idle"

\* workspaceForUser answers 409 when the account has several workspaces.
Resolve(r) ==
  LET mine == WorkspacesFor(req[r].user, req[r].public)
      at == Continue(req[r].op, mine # {})
  IN /\ req[r].at = "resolve"
     /\ IF Cardinality(mine) > 1 \/ at = "idle"
          THEN Answer(r) /\ UNCHANGED limits
          ELSE /\ req' = [req EXCEPT ![r].at = at, ![r].workspace =
                    IF mine = {} THEN NoWorkspace ELSE CHOOSE w \in mine : TRUE]
               /\ IF at = "limit" THEN Arrive(r) ELSE UNCHANGED limits
     /\ UNCHANGED <<tenancy, session, env, begun, deploys, schema>>

(***************************************************************************)
(* Creating a workspace and attaching a HydraDB key                        *)
(***************************************************************************)
\* The rows of a new workspace of u: one batch in either route.
Found(u, w) ==
  /\ w \in NewIds \ workspaces
  /\ workspaces' = workspaces \cup {w}
  /\ members' = Joined(u, w, "owner")
  /\ Same /\ UNCHANGED <<identities, clients, account, accepted>>

\* POST /api/workspace: the caller had no workspace when it looked.
Create(r) ==
  /\ req[r].at = "create" /\ req[r].op = "create"
  /\ \E w \in NewIds : Found(req[r].user, w)
  /\ Answer(r)

\* connect-all goes on with the workspace it created.
EnsureWorkspace(r) ==
  /\ req[r].at = "create" /\ req[r].op = "connectAll"
  /\ \E w \in NewIds :
       /\ Found(req[r].user, w)
       /\ req' = [req EXCEPT ![r].at = "account", ![r].workspace = w]

\* requireOwnerWorkspaceForUser, then the key of the form.
Authorise(r) ==
  /\ req[r].at = "role"
  /\ IF "owner" \in RoleIn(req[r].user, req[r].workspace)
       THEN \E k \in Keys \ {SharedKey} :
              req' = [req EXCEPT ![r].at = "probe", ![r].key = k]
       ELSE Answer(r)
  /\ Same /\ UNCHANGED tenancy

\* ensureHydraAttachment: a verified account wins, then the supplied key, then
\* the deployment's.
ReadAccount(r) ==
  /\ req[r].at = "account"
  /\ IF account[req[r].workspace] # NoKey THEN Answer(r)
     ELSE \E k \in Keys \cup {SharedKey} :
            IF k = NoKey THEN Answer(r)
            ELSE req' = [req EXCEPT ![r].at = "probe", ![r].key = k]
  /\ Same /\ UNCHANGED tenancy

\* HydraDB lists the databases of the key, or refuses it.
Listed(r) ==
  /\ \/ Go(r, "store") /\ accepted' = accepted \cup {req[r].key}
     \/ Answer(r) /\ UNCHANGED accepted
  /\ Same /\ UNCHANGED <<workspaces, members, identities, clients, account>>

ProbeSupplied(r) == req[r].at = "probe" /\ req[r].op = "configure" /\ Listed(r)
ProbeAttachment(r) == req[r].at = "probe" /\ req[r].op = "connectAll" /\ Listed(r)

\* One account row per workspace: the last writer's key is the workspace's.
Upsert(r) ==
  /\ account' = [account EXCEPT ![req[r].workspace] = req[r].key]
  /\ Answer(r)
  /\ Same /\ UNCHANGED <<workspaces, members, identities, clients, accepted>>

StoreSupplied(r) == req[r].at = "store" /\ req[r].op = "configure" /\ Upsert(r)
StoreAttachment(r) == req[r].at = "store" /\ req[r].op = "connectAll" /\ Upsert(r)

(***************************************************************************)
(* The owner's session                                                     *)
(***************************************************************************)
Limited(r) ==
  /\ req[r].at = "limit"
  /\ \/ LimitStep(r) /\ UNCHANGED req
     \/ limiter[r].at = "admitted" /\ Leave(r) /\ Go(r, "token")
     \/ limiter[r].at = "refused" /\ Leave(r) /\ Answer(r)
  /\ UNCHANGED <<tenancy, session, env, begun, deploys, schema>>

CheckToken(r) ==
  /\ req[r].at = "token"
  /\ Go(r, "link") \/ Answer(r)
  /\ Same /\ UNCHANGED tenancy

\* The owner is made an owner of the public workspace and given the cookie.
SignIn(r) ==
  LET w == req[r].workspace IN
  /\ req[r].at = "link"
  /\ members' = IF w = NoWorkspace THEN members ELSE Joined(Owner, w, "owner")
  /\ session' = session \cup {req[r].browser}
  /\ Go(r, "signedIn")
  /\ UNCHANGED <<workspaces, identities, clients, account, accepted, env, begun,
                 deploys, schema, limits>>

\* The browser signs out, or twelve hours pass.
SignOut(b) ==
  /\ b \in session
  /\ session' = session \ {b}
  /\ UNCHANGED <<tenancy, env, req, begun, deploys, schema, limits>>

(***************************************************************************)
(* The operator                                                            *)
(***************************************************************************)
\* Mutant: the public actor is made an owner.
ProvisionPublicOwner(w) ==
  /\ w \in workspaces /\ w \notin Memberships(Public)
  /\ members' = Joined(Public, w, "owner")
  /\ Same /\ UNCHANGED <<workspaces, identities, clients, account, accepted, req>>

\* scripts/provision-public-workspace: one existing workspace, never as owner.
\* Nothing removes a workspace, so its check, batch and verification agree.
ProvisionPublic(w) ==
  /\ w \in workspaces /\ w \notin Memberships(Public)
  /\ members' = Joined(Public, w, "member")
  /\ Same /\ UNCHANGED <<workspaces, identities, clients, account, accepted, req>>

\* Requests in flight finish under the settings they began with.
Deploy(e) ==
  /\ deploys < MaxDeploys
  /\ e # env
  /\ env' = e
  /\ deploys' = deploys + 1
  /\ UNCHANGED <<tenancy, session, req, begun, schema, limits>>

Step(r) ==
  \/ \E b \in Browsers, op \in Operations : Begin(r, b, op)
  \/ Migrate(r) \/ Ready(r)
  \/ CheckIdentity(r) \/ ProvisionPrincipal(r) \/ RereadPrincipal(r)
  \/ RegisterClient(r) \/ Resolve(r) \/ Create(r) \/ EnsureWorkspace(r)
  \/ Authorise(r) \/ ProbeSupplied(r) \/ StoreSupplied(r)
  \/ ReadAccount(r) \/ ProbeAttachment(r) \/ StoreAttachment(r)
  \/ Limited(r) \/ CheckToken(r) \/ SignIn(r)

Next ==
  \/ \E r \in Requests : Step(r)
  \/ \E b \in Browsers : SignOut(b)
  \/ \E w \in Workspaces : ProvisionPublic(w)
  \/ \E a \in Modes, w \in workspaces \cup {NoWorkspace} :
       Deploy([auth |-> a, public |-> w])
  \/ WindowSlides /\ UNCHANGED <<tenancy, session, env, req, begun, deploys, schema>>

Spec == Init /\ [][Next]_vars

(***************************************************************************)
(* Properties                                                              *)
(***************************************************************************)
\* Types of the variables.
TypeOK ==
  /\ workspaces \subseteq Workspaces
  /\ members \subseteq MemberRows
  /\ \A m, n \in members : m.workspace = n.workspace /\ m.user = n.user => m = n
  /\ identities \subseteq Subjects
  /\ clients \subseteq ClientRows
  /\ account \in AccountRows
  /\ accepted \subseteq Keys
  /\ session \subseteq Browsers
  /\ env \in [auth : Modes, public : Workspaces \cup {NoWorkspace}]
  /\ req \in [Requests -> RequestRecords]
  /\ begun \in 0 .. MaxRequests /\ deploys \in 0 .. MaxDeploys
  /\ ledger \in Seq(Rows)
  /\ \A r \in Requests : limiter[r].at \in Passed /\ limiter[r].bucket \in Buckets

\* store.ts:361: however requests interleave, a window holds at most Limit
\* admitted requests of one bucket and GlobalLimit of all.
WithinLimits ==
  /\ \A b \in Buckets : Cardinality(Admitted(b)) <= Limit
  /\ Cardinality(UNION {Admitted(b) : b \in Buckets}) <= GlobalLimit

\* store.ts:305: an instance that serves requests has a database with every
\* added column, though instances migrate it together and statements fail.
ReadyIsMigrated ==
  \A i \in Instances : IsReady(i) => tables /\ columns = 1 .. Columns

\* auth-principal.ts:37: once provisioned, an external account owns its own
\* workspace and no other, though its first requests race and come by the page
\* and by /mcp; it is served that workspace, and its MCP client is that one's.
SubjectHasItsWorkspace ==
  /\ \A s \in identities :
       {m \in members : m.user = s} =
         {[workspace |-> PersonalWorkspace(s), user |-> s, role |-> "owner"]}
  /\ \A r \in Requests : req[r].at = "served" /\ req[r].user \in Subjects =>
       req[r].workspace \in Memberships(req[r].user) \cap {PersonalWorkspace(req[r].user)}
  /\ \A c \in clients : "owner" \in RoleIn(c.user, c.workspace)

\* store.ts:424: the public visitor owns nothing, and is shown a workspace only
\* if the operator both configured it and gave the visitor membership.
VisitorIsConfined ==
  /\ \A m \in members : m.user = Public => m.role = "member"
  /\ \A r \in Requests : req[r].user = Public /\ req[r].at = "served" =>
       /\ req[r].workspace = req[r].public
       /\ RoleIn(Public, req[r].workspace) = {"member"}

\* connect-all/route.ts:100 and hydradb/configure/route.ts:26: a stored key was
\* accepted by HydraDB, and its workspace is one its writer owns when it writes.
KeyIsProven ==
  /\ \A w \in Workspaces : account[w] \in accepted \cup {NoKey}
  /\ \A r \in Requests : req[r].at = "store" =>
       "owner" \in RoleIn(req[r].user, req[r].workspace)

\* Workspaces stay apart: each has the owner it was provisioned for, shows the visitor
\* nothing it was not opened for, and keeps a key its own owner proved.
WorkspacesStayApart == TypeOK /\ SubjectHasItsWorkspace /\ VisitorIsConfined /\ KeyIsProven

(***************************************************************************)
(* What the repository says and the code does not keep.  No run checks it: *)
(* README.md tells how it comes to be broken.                              *)
(***************************************************************************)
\* session/route.ts:117: a sign-in that linked the owner to the public workspace
\* leaves the session able to reach the control plane.
SessionReachesWorkspace ==
  \A r \in Requests : req[r].at = "signedIn" /\ req[r].workspace # NoWorkspace =>
    Cardinality(WorkspacesFor(Owner, env.public)) = 1
=============================================================================
