------------------------------ MODULE Accounts ------------------------------
(***************************************************************************)
(* Users, roles and sign-ins.  A sign-in is carried on by refresh tokens:  *)
(* each exchange revokes the token it was given and issues the next one,   *)
(* but reads it without a lock.  Roles decide who may manage staff, and    *)
(* are set back to their defaults whenever a user is created.              *)
(***************************************************************************)
EXTENDS Naturals, FiniteSets

CONSTANTS
    Members,      \* users, each in one tenant
    Email,        \* their addresses, which users of different tenants may share
    Shops,        \* tenants
    Roles,
    Defaults,     \* DEFAULT_ROLE_DEFINITIONS: the permissions of each system role
    Powers,       \* permission codes, "staff" and "roles" among them
    Calls,        \* requests
    Windows,      \* browser sessions of the panel
    MaxAttempts,  \* LOGIN_MAX_ATTEMPTS
    NoShop, NoMember,
    MaxTokens     \* bound: refresh tokens issued

ASSUME AccountsAssumption ==
    /\ {"staff", "roles"} \subseteq Powers
    /\ {"cashier", "admin"} \subseteq DOMAIN Defaults /\ DOMAIN Defaults \subseteq Roles
    /\ Defaults \in [DOMAIN Defaults -> SUBSET Powers] /\ Defaults["cashier"] # {}
    /\ MaxAttempts \in Nat \ {0}
    /\ DOMAIN Email = Members
    /\ NoShop \notin Shops /\ NoMember \notin Members /\ MaxTokens \in Nat

VARIABLES
    users,     \* rows: state, is_superuser, tenant, roles, failed_login_attempts,
               \* locked_until (never set, past or ahead)
    roles,     \* the permissions of each role
    tokens,    \* rows: state, user, and the token its sign-in began with
    calls,     \* requests that have read and not yet written
    windows,   \* the user each panel session is signed in as
    doubled    \* sign-ins one of whose tokens two requests used at once

accountVars == <<users, roles, tokens, calls, windows, doubled>>

Tokens == 1..MaxTokens
NoToken == 0

Stranger == [state |-> "none", super |-> FALSE, shop |-> NoShop, roles |-> {},
             attempts |-> 0, lock |-> "none"]
Unissued == [state |-> "none", user |-> NoMember, origin |-> NoToken]
Locks == {"none", "past", "ahead"}
Forgotten == [Unissued EXCEPT !.state = "deleted"]
Unread == [active |-> FALSE, attempts |-> 0, lock |-> "none"]
Waiting == [op |-> "idle", user |-> NoMember, token |-> NoToken, read |-> Unread]

AccountTypeOK ==
    /\ users \in [Members -> [state : {"none", "active", "inactive"}, super : BOOLEAN,
                              shop : Shops \cup {NoShop}, roles : SUBSET Roles,
                              attempts : 0..(MaxAttempts - 1), lock : Locks]]
    /\ roles \in [Roles -> SUBSET Powers]
    /\ tokens \in [Tokens -> [state : {"none", "live", "revoked", "expired",
                                       "deleted"},
                              user : Members \cup {NoMember},
                              origin : Tokens \cup {NoToken}]]
    /\ calls \in [Calls -> [op : {"idle", "login", "refresh"},
                            user : Members \cup {NoMember},
                            token : Tokens \cup {NoToken},
                            read : [active : BOOLEAN, attempts : 0..(MaxAttempts - 1),
                                    lock : Locks]]]
    /\ windows \in [Windows -> Members \cup {NoMember}]
    /\ doubled \subseteq Tokens

\* The roles as migrations left them, no users.
AccountInit ==
    /\ users = [m \in Members |-> Stranger]
    /\ roles = [r \in Roles |-> IF r \in DOMAIN Defaults THEN Defaults[r] ELSE {}]
    /\ tokens = [k \in Tokens |-> Unissued]
    /\ calls = [c \in Calls |-> Waiting]
    /\ windows = [w \in Windows |-> NoMember]
    /\ doubled = {}

\* get_current_active_user: an access token opens nothing to an inactive user.
Active(m) == users[m].state = "active"

\* _get_user_permission_codes.
PowersOf(m) == UNION {roles[r] : r \in users[m].roles}

\* require_permissions; superusers may everything.
Permitted(m, power) == Active(m) /\ (users[m].super \/ power \in PowersOf(m))

\* _ensure_same_tenant.
SameShop(m, target) == users[m].super \/ users[m].shop = users[target].shop

\* The other users with m's address.
Namesakes(m) ==
    {other \in Members \ {m} : Email[other] = Email[m] /\ users[other].state # "none"}

\* An address is free in a shop whose users do not have it, unless a superuser
\* without a tenant has.
AddressFree(m, shop) == \A other \in Namesakes(m) : users[other].shop \notin {shop, NoShop}

\* ensure_rbac_defaults: the system roles get their default permissions back.
RestoredRoles == [r \in Roles |-> IF r \in DOMAIN Defaults THEN Defaults[r] ELSE roles[r]]
-----------------------------------------------------------------------------
(* Users and roles *)

\* register (and google_auth's first visit): a tenant and its owner.
Register(m, shop) ==
    /\ users[m].state = "none" /\ AddressFree(m, shop)
    /\ \A other \in Members : users[other].shop # shop
    /\ users' = [users EXCEPT ![m] = [Stranger EXCEPT
                    !.state = "active", !.shop = shop, !.roles = {"cashier", "admin"}]]
    /\ roles' = RestoredRoles
    /\ UNCHANGED <<tokens, calls, windows, doubled>>

\* create_staff_user, in the manager's tenant or the one a superuser names.
CreateStaff(m, new, shop) ==
    /\ Permitted(m, "staff") /\ users[new].state = "none"
    /\ users[m].super \/ shop = users[m].shop
    /\ AddressFree(new, shop)
    /\ users' = [users EXCEPT ![new] = [Stranger EXCEPT
                    !.state = "active", !.shop = shop, !.roles = {"cashier"}]]
    /\ roles' = RestoredRoles
    /\ UNCHANGED <<tokens, calls, windows, doubled>>

\* A user becomes a superuser in the panel, or by UPDATE for the first one.
Promote(m) ==
    /\ users[m].state # "none" /\ ~users[m].super
    /\ users' = [users EXCEPT ![m].super = TRUE]
    /\ UNCHANGED <<roles, tokens, calls, windows, doubled>>

\* update_staff_user: nobody deactivates themselves.
UpdateStaff(m, target, state) ==
    /\ Permitted(m, "staff") /\ users[target].state # "none" /\ SameShop(m, target)
    /\ target = m => state = "active"
    /\ users' = [users EXCEPT ![target].state = state]
    /\ UNCHANGED <<roles, tokens, calls, windows, doubled>>

\* create_role and update_role, system roles included.
UpdateRole(m, role, powers) ==
    /\ Permitted(m, "roles")
    /\ roles' = [roles EXCEPT ![role] = powers]
    /\ UNCHANGED <<users, tokens, calls, windows, doubled>>

AssignRoles(m, target, chosen) ==
    /\ Permitted(m, "roles") /\ users[target].state # "none" /\ SameShop(m, target)
    /\ users' = [users EXCEPT ![target].roles = chosen]
    /\ UNCHANGED <<roles, tokens, calls, windows, doubled>>

SeedDefaults(m) ==
    /\ Permitted(m, "roles")
    /\ roles' = RestoredRoles
    /\ UNCHANGED <<users, tokens, calls, windows, doubled>>

\* get_my_permissions: who has none becomes a cashier.
MyPermissions(m) ==
    /\ Active(m) /\ ~users[m].super /\ PowersOf(m) = {}
    /\ users' = [users EXCEPT ![m].roles = @ \cup {"cashier"}]
    /\ roles' = RestoredRoles
    /\ UNCHANGED <<tokens, calls, windows, doubled>>
-----------------------------------------------------------------------------
(* Sign-ins *)

Begins(c, op, m, k, read) ==
    /\ calls[c].op = "idle"
    /\ calls' = [calls EXCEPT ![c] = [op |-> op, user |-> m, token |-> k, read |-> read]]

\* _issue_tokens deletes what has expired and adds a token to the sign-in.
Issued(rows, k, m, origin) ==
    [j \in Tokens |-> IF j = k THEN [state |-> "live", user |-> m, origin |-> origin]
                      ELSE IF rows[j].state = "expired" THEN Forgotten ELSE rows[j]]

Unused(k) == tokens[k].state = "none" /\ \A j \in 1..(k - 1) : tokens[j].state # "none"

\* refresh_tokens.tenant_id is NOT NULL.
HasShop(m) == users[m].shop # NoShop

\* login_access_token reads the user of the address, the only one and not locked.
StartLogin(c, m) ==
    /\ users[m].state # "none" /\ Namesakes(m) = {} /\ users[m].lock # "ahead"
    /\ Begins(c, "login", m, NoToken,
              [active |-> Active(m), attempts |-> users[m].attempts, lock |-> users[m].lock])
    /\ UNCHANGED <<users, roles, tokens, windows, doubled>>

\* A wrong password counts one more than was read, and locks at the maximum.
FailLogin(c) ==
    LET m == calls[c].user
        attempts == calls[c].read.attempts + 1
        full == attempts >= MaxAttempts
    IN  /\ calls[c].op = "login"
        /\ users' = [users EXCEPT ![m].attempts = IF full THEN 0 ELSE attempts,
                                  ![m].lock = IF full THEN "ahead" ELSE @]
        /\ calls' = [calls EXCEPT ![c] = Waiting]
        /\ UNCHANGED <<roles, tokens, windows, doubled>>

\* The right one resets what was read to be set.
PassLogin(c, k) ==
    LET m == calls[c].user
        read == calls[c].read
    IN  /\ calls[c].op = "login" /\ read.active /\ HasShop(m) /\ Unused(k)
        /\ users' = [users EXCEPT ![m].attempts = IF read.attempts > 0 THEN 0 ELSE @,
                                  ![m].lock = IF read.lock = "past" THEN "none" ELSE @]
        /\ tokens' = Issued(tokens, k, m, k)
        /\ calls' = [calls EXCEPT ![c] = Waiting]
        /\ UNCHANGED <<roles, windows, doubled>>

\* google_auth, for a user who exists, the only one of the address.
GoogleLogin(m, k) ==
    /\ Active(m) /\ Namesakes(m) = {} /\ HasShop(m) /\ Unused(k)
    /\ tokens' = Issued(tokens, k, m, k)
    /\ UNCHANGED <<users, roles, calls, windows, doubled>>

\* refresh_access_token reads the token and its user, without a lock.
StartRefresh(c, k) ==
    /\ tokens[k].state = "live" /\ Active(tokens[k].user)
    /\ Begins(c, "refresh", tokens[k].user, k, Unread)
    /\ UNCHANGED <<users, roles, tokens, windows, doubled>>

\* Mutant: the token that was exchanged stays valid.
RefreshKeeping(c, k) ==
    LET old == calls[c].token
    IN  /\ calls[c].op = "refresh" /\ Unused(k)
        /\ tokens' = Issued(tokens, k, calls[c].user, tokens[old].origin)
        /\ calls' = [calls EXCEPT ![c] = Waiting]
        /\ UNCHANGED <<users, roles, windows, doubled>>

\* The token is revoked, though it may have been since, and the next one issued.
CommitRefresh(c, k) ==
    LET old == calls[c].token
    IN  /\ calls[c].op = "refresh" /\ tokens[old].state \in {"live", "revoked"} /\ Unused(k)
        /\ tokens' = Issued([tokens EXCEPT ![old].state = "revoked"],
                            k, calls[c].user, tokens[old].origin)
        /\ doubled' = IF tokens[old].state = "live" THEN doubled
                      ELSE doubled \cup {tokens[old].origin}
        /\ calls' = [calls EXCEPT ![c] = Waiting]
        /\ UNCHANGED <<users, roles, windows>>

\* logout.
Logout(k) ==
    /\ tokens[k].state = "live"
    /\ tokens' = [tokens EXCEPT ![k].state = "revoked"]
    /\ UNCHANGED <<users, roles, calls, windows, doubled>>

\* The request is refused or dies.
HangUp(c) ==
    /\ calls[c].op # "idle"
    /\ calls' = [calls EXCEPT ![c] = Waiting]
    /\ UNCHANGED <<users, roles, tokens, windows, doubled>>

\* Time passes: a lock-out ends, a token expires.
Unlock(m) ==
    /\ users[m].lock = "ahead"
    /\ users' = [users EXCEPT ![m].lock = "past"]
    /\ UNCHANGED <<roles, tokens, calls, windows, doubled>>

Expire(k) ==
    /\ tokens[k].state \in {"live", "revoked"}
    /\ tokens' = [tokens EXCEPT ![k].state = "expired"]
    /\ UNCHANGED <<users, roles, calls, windows, doubled>>
-----------------------------------------------------------------------------
(* The panel: AdminAuth *)

SignIn(w, m) ==
    /\ Active(m) /\ users[m].super
    /\ windows' = [windows EXCEPT ![w] = m]
    /\ UNCHANGED <<users, roles, tokens, calls, doubled>>

\* authenticate: every page checks the user again.
Authenticate(w, m) ==
    /\ windows[w] = m /\ ~(Active(m) /\ users[m].super)
    /\ windows' = [windows EXCEPT ![w] = NoMember]
    /\ UNCHANGED <<users, roles, tokens, calls, doubled>>

SignOut(w) ==
    /\ windows[w] \in Members
    /\ windows' = [windows EXCEPT ![w] = NoMember]
    /\ UNCHANGED <<users, roles, tokens, calls, doubled>>
-----------------------------------------------------------------------------
StaffChange(m) ==
    \/ \E shop \in Shops : Register(m, shop)
    \/ \E target \in Members, shop \in Shops : CreateStaff(m, target, shop)
    \/ \E target \in Members, state \in {"active", "inactive"} : UpdateStaff(m, target, state)

RoleChange(m) ==
    \/ \E role \in Roles, powers \in SUBSET Powers : UpdateRole(m, role, powers)
    \/ \E target \in Members, chosen \in SUBSET Roles : AssignRoles(m, target, chosen)
    \/ SeedDefaults(m) \/ MyPermissions(m) \/ Promote(m)
    \/ \E w \in Windows : SignIn(w, m) \/ Authenticate(w, m)

TokenChange(m) ==
    \/ Unlock(m) \/ \E c \in Calls : StartLogin(c, m)
    \/ \E k \in Tokens : GoogleLogin(m, k)
    \/ \E k \in Tokens : tokens[k].user = m /\ (Logout(k) \/ Expire(k))
    \/ \E c \in Calls :
          \/ \E k \in Tokens : tokens[k].user = m /\ StartRefresh(c, k)
          \/ /\ calls[c].user = m
             /\ \/ FailLogin(c) \/ HangUp(c)
                \/ \E k \in Tokens : CommitRefresh(c, k) \/ PassLogin(c, k)

AccountNext ==
    \/ \E m \in Members : StaffChange(m) \/ RoleChange(m) \/ TokenChange(m)
    \/ \E w \in Windows : SignOut(w)

AccountSpec == AccountInit /\ [][AccountNext]_accountVars
-----------------------------------------------------------------------------
\* A sign-in lives in one refresh token at a time, through exchanges, log-outs,
\* expiry and the deletion of what expired, unless two requests were given the same
\* token before either had answered.
OneTokenPerSignIn ==
    \A origin \in Tokens \ doubled :
        Cardinality({k \in Tokens : tokens[k].state = "live" /\ tokens[k].origin = origin}) <= 1
=============================================================================
