-------------------------------- MODULE Accounts --------------------------------
(***************************************************************************)
(* Accounts, organisations, API keys and staff sessions                    *)
(* (infra/accounts.py, core/auth.py, api/routers/accounts.py), the login   *)
(* by password and by single sign-on (api/routers/console_auth.py,         *)
(* infra/oidc.py).                                                         *)
(*                                                                         *)
(* Account ids are in the order of creation.  The validity of a session is *)
(* counted in units of time up to Window, its sliding length.  Passwords,  *)
(* names and quotas are left out; a login is a name and the account whose  *)
(* password the person knows.                                              *)
(***************************************************************************)
EXTENDS Integers, Sequences, FiniteSets, FiniteSetsExt

CONSTANTS AccountIds,     \* a set of integers
          OrgIds,         \* organisations besides Root
          LoginNames,
          Subs,           \* subjects of the identity provider
          KeyIds,
          Tokens,         \* of staff sessions
          ScopeSets,      \* the scopes keys may be given
          Window,         \* EVOTOWN_STAFF_SESSION_TTL
          DefaultOrg,     \* EVOTOWN_OIDC_DEFAULT_TEAM_ID, NoOrg if unset
          Root, NoOrg, NoSub, NoLogin, AdminToken

VARIABLES
    accounts,    \* gateway_accounts: a function on the ids that have a row
    orgs,        \* gateway_orgs
    keys,        \* gateway_api_keys: a function on the keys that have a row
    sessions,    \* staff_sessions: a function on the tokens that have a row
    logins       \* single sign-on: the subjects whose code is being exchanged

accountVars == <<accounts, orgs, keys, sessions, logins>>

AccountRoles == {"admin", "employee"}

AccountRow(org, sub, login, role) ==
    [org |-> org, sub |-> sub, login |-> login, role |-> role, status |-> "active"]

(* No account and the root organisation.                                   *)
AccountsInit ==
    /\ accounts = [a \in {} |-> {}]
    /\ orgs = {Root}
    /\ keys = [k \in {} |-> {}]
    /\ sessions = [t \in {} |-> {}]
    /\ logins = {}

-----------------------------------------------------------------------------
(* Credentials.                                                            *)

Add(table, key, row) == [k \in DOMAIN table \cup {key} |-> IF k = key THEN row ELSE table[k]]

Without(table, gone) == [k \in DOMAIN table \ gone |-> table[k]]

(* A session is valid until its time is over, whatever became of its       *)
(* account.                                                                *)
LiveSession(c) == c \in DOMAIN sessions /\ sessions[c].left > 0

StaffScopes(role) ==
    IF role = "admin" THEN {"console.read", "console.write", "task.submit"}
    ELSE {"console.read", "agent.run", "agent.read", "task.submit"}

(* A key is valid while it is active and not expired, and its owner is     *)
(* active or no account (an agent).                                        *)
LiveKey(c) ==
    /\ c \in DOMAIN keys /\ keys[c].status = "active" /\ ~keys[c].expired
    /\ keys[c].owner \in DOMAIN accounts => accounts[keys[c].owner].status = "active"

(* The scopes of a credential where sessions and keys are both accepted.   *)
ScopesOf(c) ==
    IF c = AdminToken THEN {"*"}
    ELSE IF LiveSession(c) THEN StaffScopes(sessions[c].role)
    ELSE IF LiveKey(c) THEN keys[c].scopes
    ELSE {}

RequireAdmin(c) == c = AdminToken \/ "console.write" \in ScopesOf(c)

RequireConsoleRead(c) ==
    \/ c = AdminToken \/ LiveSession(c)
    \/ LiveKey(c) /\ keys[c].scopes \cap {"console.read", "console.write", "agent.run"} # {}

(* Any request that shows a session prolongs it, one that is refused too.  *)
Shown(c) == IF LiveSession(c) THEN [sessions EXCEPT ![c].left = Window] ELSE sessions

Show(c) ==
    /\ LiveSession(c)
    /\ sessions' = Shown(c)
    /\ UNCHANGED <<accounts, orgs, keys, logins>>

(* Saving a session may purge the table of expired ones.                   *)
SaveSession(table, t, row) ==
    {Add(table, t, row),
     Add(Without(table, {u \in DOMAIN table : table[u].left = 0}), t, row)}

NewSession(a, account) ==
    [account |-> a, org |-> account.org, role |-> account.role, left |-> Window]

-----------------------------------------------------------------------------
(* Administration.                                                         *)

NextId == IF AccountIds \subseteq DOMAIN accounts THEN {} ELSE {Min(AccountIds \ DOMAIN accounts)}

OrgExists(org) == org \in orgs

CreateAccount(c, org, login, role) ==
    /\ RequireAdmin(c) /\ OrgExists(org)
    /\ \E a \in NextId : accounts' = Add(accounts, a, AccountRow(org, NoSub, login, role))
    /\ sessions' = Shown(c)
    /\ UNCHANGED <<orgs, keys, logins>>

(* An empty organisation is accepted here.                                 *)
UpdateAccount(c, a, org, role, status) ==
    /\ RequireAdmin(c) /\ a \in DOMAIN accounts
    /\ org # NoOrg => OrgExists(org)
    /\ accounts' = [accounts EXCEPT ![a].org = org, ![a].role = role, ![a].status = status]
    /\ sessions' = Shown(c)
    /\ UNCHANGED <<orgs, keys, logins>>

CreateOrg(c, org) ==
    /\ RequireAdmin(c)
    /\ orgs' = orgs \cup {org}
    /\ sessions' = Shown(c)
    /\ UNCHANGED <<accounts, keys, logins>>

MembersMoved(org) ==
    [a \in DOMAIN accounts |->
        IF accounts[a].org = org THEN [accounts[a] EXCEPT !.org = Root] ELSE accounts[a]]

DeleteOrg(c, org) ==
    /\ RequireAdmin(c) /\ OrgExists(org) /\ org # Root
    /\ accounts' = MembersMoved(org)
    /\ orgs' = orgs \ {org}
    /\ sessions' = Shown(c)
    /\ UNCHANGED <<keys, logins>>

CreateKey(c, k, a, scopes) ==
    /\ RequireAdmin(c) /\ k \notin DOMAIN keys
    /\ a \in DOMAIN accounts /\ accounts[a].status = "active"
    /\ keys' = Add(keys, k, [owner |-> a, scopes |-> scopes, status |-> "active", expired |-> FALSE])
    /\ sessions' = Shown(c)
    /\ UNCHANGED <<accounts, orgs, logins>>

(* A later date revives a key that expired.                                *)
UpdateKey(c, k, scopes) ==
    /\ RequireAdmin(c) /\ k \in DOMAIN keys
    /\ keys' = [keys EXCEPT ![k].scopes = scopes, ![k].expired = FALSE]
    /\ sessions' = Shown(c)
    /\ UNCHANGED <<accounts, orgs, logins>>

RevokeKey(c, k) ==
    /\ RequireAdmin(c) /\ k \in DOMAIN keys
    /\ keys' = [keys EXCEPT ![k].status = "revoked"]
    /\ sessions' = Shown(c)
    /\ UNCHANGED <<accounts, orgs, logins>>

-----------------------------------------------------------------------------
(* Logging in.                                                             *)

(* The account of a login name: the first that is active.                  *)
ByLogin(login) ==
    LET found == {a \in DOMAIN accounts : accounts[a].login = login /\ accounts[a].status = "active"}
    IN  IF login = NoLogin \/ found = {} THEN {} ELSE {Min(found)}

(* The person of account a, who knows its password only.                   *)
StaffLogin(a, t) ==
    /\ a \in DOMAIN accounts /\ a \in ByLogin(accounts[a].login) /\ t \notin DOMAIN sessions
    /\ sessions' \in SaveSession(sessions, t, NewSession(a, accounts[a]))
    /\ UNCHANGED <<accounts, orgs, keys, logins>>

StaffLogout(t) ==
    /\ t \in DOMAIN sessions
    /\ sessions' = Without(sessions, {t})
    /\ UNCHANGED <<accounts, orgs, keys, logins>>

(* The callback takes its state out of the table and waits for the         *)
(* identity provider, which may fail.                                      *)
OidcCallback(sub) ==
    /\ sub \notin logins
    /\ logins' = logins \cup {sub}
    /\ UNCHANGED <<accounts, orgs, keys, sessions>>

ExchangeFails(sub) ==
    /\ sub \in logins
    /\ logins' = logins \ {sub}
    /\ UNCHANGED <<accounts, orgs, keys, sessions>>

BySub(sub) == {a \in DOMAIN accounts : accounts[a].sub = sub /\ accounts[a].status = "active"}

(* Mutant: the index is missing.                                           *)
AnySub(sub) == TRUE

(* The unique index refuses a subject that any account has.                *)
SubIsFree(sub) == \A a \in DOMAIN accounts : accounts[a].sub # sub

(* A new account's login name is its id, and it has no password.           *)
OidcAccount(sub, linked) ==
    \E a \in NextId :
        accounts' = Add(accounts, a, AccountRow(DefaultOrg, IF linked THEN sub ELSE NoSub, NoLogin, "employee"))

(* account_for_oidc: the account of the subject, or a new one, which is    *)
(* linked to the subject by a second statement.  When that is refused      *)
(* there is an account more and no session.                                *)
OidcLogin(sub, t) ==
    /\ sub \in logins /\ t \notin DOMAIN sessions
    /\ logins' = logins \ {sub}
    /\ IF BySub(sub) # {}
       THEN /\ \E a \in BySub(sub) :
                  sessions' \in SaveSession(sessions, t, NewSession(a, accounts[a]))
            /\ UNCHANGED accounts
       ELSE /\ OidcAccount(sub, SubIsFree(sub))
            /\ IF SubIsFree(sub)
               THEN \E a \in NextId :
                       sessions' \in SaveSession(sessions, t,
                                        NewSession(a, [org |-> DefaultOrg, role |-> "employee"]))
               ELSE UNCHANGED sessions
    /\ UNCHANGED <<orgs, keys>>

(* The process stops: the callbacks are lost, one perhaps between its two  *)
(* statements.                                                             *)
AccountsRestart ==
    /\ logins # {}
    /\ \/ UNCHANGED accounts
       \/ \E sub \in logins : BySub(sub) = {} /\ OidcAccount(sub, FALSE)
    /\ logins' = {}
    /\ UNCHANGED <<orgs, keys, sessions>>

-----------------------------------------------------------------------------
(* Time.                                                                   *)

SessionAges(t) ==
    /\ t \in DOMAIN sessions /\ sessions[t].left > 0
    /\ sessions' = [sessions EXCEPT ![t].left = @ - 1]
    /\ UNCHANGED <<accounts, orgs, keys, logins>>

KeyExpires(k) ==
    /\ k \in DOMAIN keys /\ ~keys[k].expired
    /\ keys' = [keys EXCEPT ![k].expired = TRUE]
    /\ UNCHANGED <<accounts, orgs, sessions, logins>>

Administer(c) ==
    \/ \E org \in orgs, login \in LoginNames, role \in AccountRoles : CreateAccount(c, org, login, role)
    \/ \E a \in AccountIds, org \in orgs \cup {NoOrg}, role \in AccountRoles, s \in {"active", "disabled"} :
          UpdateAccount(c, a, org, role, s)
    \/ \E org \in OrgIds : CreateOrg(c, org) \/ DeleteOrg(c, org)
    \/ \E k \in KeyIds :
          \/ \E scopes \in ScopeSets : UpdateKey(c, k, scopes)
                \/ \E a \in AccountIds : CreateKey(c, k, a, scopes)
          \/ RevokeKey(c, k)

AccountsNext ==
    \/ \E c \in {AdminToken} \cup Tokens \cup KeyIds : Administer(c) \/ Show(c)
    \/ \E t \in Tokens :
          \/ \E a \in AccountIds : StaffLogin(a, t)
          \/ \E sub \in Subs : OidcLogin(sub, t)
          \/ StaffLogout(t) \/ SessionAges(t)
    \/ \E sub \in Subs : OidcCallback(sub) \/ ExchangeFails(sub)
    \/ \E k \in KeyIds : KeyExpires(k)
    \/ AccountsRestart

-----------------------------------------------------------------------------
(* The tables, with what they refer to: an account's organisation exists,  *)
(* a session's account too.                                                *)
AccountsTypeOK ==
    /\ DOMAIN accounts \subseteq AccountIds
    /\ \A a \in DOMAIN accounts :
          /\ accounts[a].org \in orgs \cup {NoOrg, DefaultOrg}
          /\ accounts[a].sub \in Subs \cup {NoSub}
          /\ accounts[a].role \in AccountRoles
          /\ accounts[a].status \in {"active", "disabled"}
    /\ Root \in orgs /\ orgs \subseteq OrgIds \cup {Root}
    /\ \A t \in DOMAIN sessions :
          t \in Tokens /\ sessions[t].account \in DOMAIN accounts /\ sessions[t].left \in 0 .. Window
    /\ logins \subseteq Subs

(* A person of the identity provider has one account, also one who comes   *)
(* back after it was disabled or after a callback was cut off between the  *)
(* insert and the link (oidc.py:184-208).                                  *)
OneAccountPerSub ==
    \A a, b \in DOMAIN accounts :
        accounts[a].sub = accounts[b].sub /\ accounts[a].sub # NoSub => a = b
===============================================================================
