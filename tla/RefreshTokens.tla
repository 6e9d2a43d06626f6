---------------------------- MODULE RefreshTokens ----------------------------
(***************************************************************************)
(* Refresh tokens of users/services.py and users/routers.py: login, the    *)
(* exchange of a token for its successor, logout, and what revokes every   *)
(* token of a user (password change, block, reuse, deletion).              *)
(*                                                                         *)
(* As in OrderLifecycle a request is one transaction at READ COMMITTED     *)
(* that writes only rows it holds, at its Commit.  A bulk UPDATE or DELETE *)
(* takes the rows that match when it begins, waits for those that another  *)
(* transaction holds, and skips the ones that then no longer match; rows   *)
(* committed after it began are not seen.                                  *)
(***************************************************************************)
EXTENDS Integers, FiniteSets

CONSTANTS Requests,      \* slots for requests in flight
          Users,
          NTokens,       \* bound: how many tokens are ever issued
          NPasswords,    \* bound: how many passwords a user ever has
          Endpoints,     \* the operations an instance calls, and "expire"
          Nobody

Tokens == 1 .. NTokens
NoToken == 0

ASSUME BoundsAssumption == NTokens \in Nat /\ NPasswords \in Nat \ {0}
ASSUME NobodyAssumption == Nobody \notin Requests \cup Users

VARIABLES user,      \* table "user": exists, is_active, which hashed_password
          token,     \* table refresh_token
          req,       \* the requests in flight
          owner,     \* which request locks a row
          sharers    \* which requests hold FOR KEY SHARE on a user (FK check)

vars == <<user, token, req, owner, sharers>>

-----------------------------------------------------------------------------
(***************************************************************************)
(* Tables and rows                                                         *)
(***************************************************************************)

UserRow == [exists : BOOLEAN, active : BOOLEAN, password : Nat]

\* Of an issued row, "live" is revoked_at IS NULL and by is replaced_by_id.
\* The column session is history: the token of the login that the exchanges
\* go back to.
TokenRow == [status : {"unborn", "live", "revoked", "deleted"},
             user : Users \cup {Nobody},
             expired : BOOLEAN,
             by : Tokens \cup {NoToken},
             session : Tokens \cup {NoToken}]

TokenExists(t) == t \in Tokens /\ token[t].status \in {"live", "revoked"}
TokensOf(u) == {t \in Tokens : TokenExists(t) /\ token[t].user = u}
LiveTokensOf(u) == {t \in TokensOf(u) : token[t].status = "live"}

UserLock(u) == <<"user", u>>
TokenLock(t) == <<"token", t>>
Rows == {UserLock(u) : u \in Users} \cup {TokenLock(t) : t \in Tokens}

Operations == {"login", "refresh", "logout", "change_password", "block", "unblock",
               "delete_user", "purge"}

Statements == {"idle", "read_user", "lock_token", "read_token", "write_token", "insert",
               "revoke_all", "revoking", "write_user", "delete_user", "cascade",
               "purge", "purging", "reject", "commit"}

\* rows is what the bulk statement of the request matched, dirty tells that the
\* ORM has a column of the user to UPDATE.
Request == [op : Operations \cup {"idle"}, pc : Statements,
            user : Users \cup {Nobody}, token : Tokens \cup {NoToken},
            rows : SUBSET Tokens, dirty : BOOLEAN]

Idle == [op |-> "idle", pc |-> "idle", user |-> Nobody, token |-> NoToken,
         rows |-> {}, dirty |-> FALSE]

TypeOK == /\ user \in [Users -> UserRow]
          /\ token \in [Tokens -> TokenRow]
          /\ req \in [Requests -> Request]
          /\ owner \in [Rows -> Requests \cup {Nobody}]
          /\ sharers \in [Users -> SUBSET Requests]

\* The users have registered.
Init == /\ user = [u \in Users |-> [exists |-> TRUE, active |-> TRUE, password |-> 1]]
        /\ token = [t \in Tokens |->
                      [status |-> "unborn", user |-> Nobody, expired |-> FALSE,
                       by |-> NoToken, session |-> NoToken]]
        /\ req = [r \in Requests |-> Idle]
        /\ owner = [w \in Rows |-> Nobody]
        /\ sharers = [u \in Users |-> {}]

-----------------------------------------------------------------------------
(***************************************************************************)
(* Row locks                                                               *)
(***************************************************************************)

Holds(r, w) == owner[w] = r

\* The rows the statement of r must lock.
Targets(r) ==
  LET u == req[r].user
      t == req[r].token
  IN CASE req[r].pc \in {"insert", "write_user", "delete_user"} ->
            {UserLock(x) : x \in {x \in Users : x = u /\ user[x].exists}}
       [] req[r].pc \in {"lock_token", "write_token"} ->
            {TokenLock(x) : x \in {x \in Tokens : x = t /\ TokenExists(x)}}
       [] req[r].pc = "revoking" ->
            {TokenLock(x) : x \in {x \in req[r].rows : token[x].status = "live"}}
       [] req[r].pc = "purging" -> {TokenLock(x) : x \in {x \in req[r].rows : TokenExists(x)}}
       [] req[r].pc = "cascade" -> IF Holds(r, UserLock(u))
                                   THEN {TokenLock(x) : x \in TokensOf(u)} ELSE {}
       [] OTHER -> {}

\* An INSERT that references a user takes FOR KEY SHARE on it, which an UPDATE
\* of the user tolerates and its DELETE does not.
Sharing(r) == req[r].pc = "insert"
NoKey(r) == req[r].op # "delete_user"

Needs(r) == IF Sharing(r) THEN {w \in Targets(r) : r \notin sharers[req[r].user]}
                          ELSE {w \in Targets(r) : ~Holds(r, w)}

Blockers(r, w) ==
  {s \in Requests \ {r} :
     \/ Holds(s, w) /\ ~(Sharing(r) /\ NoKey(s))
     \/ \E u \in Users : /\ w = UserLock(u)
                         /\ s \in sharers[u]
                         /\ ~NoKey(r)}

LockRow(r) ==
  \E w \in Needs(r) :
    /\ Blockers(r, w) = {}
    /\ IF Sharing(r)
       THEN /\ sharers' = [sharers EXCEPT ![req[r].user] = @ \cup {r}]
            /\ UNCHANGED owner
       ELSE /\ owner' = [owner EXCEPT ![w] = r]
            /\ UNCHANGED sharers
    /\ UNCHANGED <<user, token, req>>

Done(r, op, pc) == req[r].op = op /\ req[r].pc = pc /\ Needs(r) = {}

\* The request goes on as q, at its next statement.
GoOn(r, q) == /\ req' = [req EXCEPT ![r] = q]
              /\ UNCHANGED <<user, token, owner, sharers>>
GoTo(r, pc) == GoOn(r, [req[r] EXCEPT !.pc = pc])

End(r) == /\ req' = [req EXCEPT ![r] = Idle]
          /\ owner' = [w \in Rows |-> IF Holds(r, w) THEN Nobody ELSE owner[w]]
          /\ sharers' = [u \in Users |-> sharers[u] \ {r}]

\* Mutant of Rollback: a session that fails is not rolled back.
RollbackKeepsLocks(r) == /\ req' = [req EXCEPT ![r] = Idle]
                         /\ UNCHANGED <<user, token, owner, sharers>>

Rollback(r) == End(r) /\ UNCHANGED <<user, token>>
Check(r, ok, pc) == IF ok THEN GoTo(r, pc) ELSE Rollback(r)

-----------------------------------------------------------------------------
(***************************************************************************)
(* Clients and time                                                        *)
(***************************************************************************)

Unborn == {t \in Tokens : token[t].status = "unborn"}
Issuing == {r \in Requests : req[r].op \in {"login", "refresh"}}
Changing(u) == {r \in Requests : req[r].op = "change_password" /\ req[r].user = u}

Arrive(r, op, pc, u, t) ==
  /\ op \in Endpoints
  /\ req[r] = Idle
  /\ GoOn(r, [Idle EXCEPT !.op = op, !.pc = pc, !.user = u, !.token = t])

\* A token is presented by whoever was given it, for as long as they like.
\* NTokens bounds the tokens issued, NPasswords the passwords chosen.
ArriveWithToken(r) ==
  \E t \in Tokens \ Unborn :
    \/ /\ token[t].status = "live" => Cardinality(Issuing) < Cardinality(Unborn)
       /\ Arrive(r, "refresh", "lock_token", token[t].user, t)
    \/ Arrive(r, "logout", "read_token", token[t].user, t)

ArriveForUser(r) ==
  \E u \in Users :
    \/ /\ Cardinality(Issuing) < Cardinality(Unborn)
       /\ Arrive(r, "login", "read_user", u, NoToken)
    \/ /\ user[u].password + Cardinality(Changing(u)) < NPasswords
       /\ Arrive(r, "change_password", "read_user", u, NoToken)
    \/ Arrive(r, "block", "read_user", u, NoToken)
    \/ Arrive(r, "unblock", "read_user", u, NoToken)
    \/ Arrive(r, "delete_user", "read_user", u, NoToken)

\* scripts/purge_refresh_tokens.py, run by cron.
ArrivePurge(r) == Arrive(r, "purge", "purge", Nobody, NoToken)

\* expires_at passes; a token expires after the one it replaced.
Expire(t) ==
  /\ "expire" \in Endpoints
  /\ TokenExists(t) /\ ~token[t].expired
  /\ \A x \in Tokens : token[x].by = t => token[x].expired
  /\ token' = [token EXCEPT ![t].expired = TRUE]
  /\ UNCHANGED <<user, req, owner, sharers>>

-----------------------------------------------------------------------------
(***************************************************************************)
(* POST /users/login and POST /users/refresh                               *)
(***************************************************************************)

\* The password the client sends is the one of the row: with another one the
\* request ends here.
LoginReadUser(r) ==
  /\ Done(r, "login", "read_user")
  /\ Check(r, user[req[r].user].exists /\ user[req[r].user].active, "insert")

\* Mutant of RefreshLockToken: SELECT without FOR UPDATE.
RefreshWithoutLock(r) ==
  LET t == req[r].token
  IN /\ req[r].op = "refresh" /\ req[r].pc = "lock_token"
     /\ Check(r, token[t].status = "live" /\ ~token[t].expired, "read_user")

\* Mutant of RefreshLockToken: a revoked token is as good as a live one.
RefreshAnyToken(r) ==
  /\ Done(r, "refresh", "lock_token")
  /\ Check(r, TokenExists(req[r].token) /\ ~token[req[r].token].expired, "read_user")

\* The row is read as it is once it is locked.
RefreshLockToken(r) ==
  LET t == req[r].token
  IN /\ Done(r, "refresh", "lock_token")
     /\ \/ /\ TokenExists(t) /\ token[t].status = "revoked"
           /\ GoTo(r, "revoke_all")
        \/ /\ ~(TokenExists(t) /\ token[t].status = "revoked")
           /\ Check(r, TokenExists(t) /\ ~token[t].expired, "read_user")

RefreshReadUser(r) ==
  /\ Done(r, "refresh", "read_user")
  /\ Check(r, user[req[r].user].exists /\ user[req[r].user].active, "insert")

\* The INSERT fails on the foreign key when the user is gone.
Insert(r, op) ==
  /\ Done(r, op, "insert")
  /\ Check(r, user[req[r].user].exists, "commit")

\* The first free id goes to the row of a transaction that commits.
NewToken(u, s) ==
  [status |-> "live", user |-> u, expired |-> FALSE, by |-> NoToken, session |-> s]

NextToken(n) == n \in Unborn /\ \A x \in Unborn : n <= x

LoginCommit(r) ==
  /\ Done(r, "login", "commit")
  /\ \E n \in Tokens :
       /\ NextToken(n)
       /\ token' = [token EXCEPT ![n] = NewToken(req[r].user, n)]
  /\ UNCHANGED user
  /\ End(r)

\* Mutant of RefreshCommit: revoked_at of the old token is not set.
RefreshKeepsToken(r) ==
  LET t == req[r].token
  IN /\ Done(r, "refresh", "commit")
     /\ \E n \in Tokens :
          /\ NextToken(n)
          /\ token' = [token EXCEPT ![t].by = n,
                                    ![n] = NewToken(token[t].user, token[t].session)]
     /\ UNCHANGED user
     /\ End(r)

RefreshCommit(r) ==
  LET t == req[r].token
  IN /\ Done(r, "refresh", "commit")
     /\ \E n \in Tokens :
          /\ NextToken(n)
          /\ token' = [token EXCEPT
                         ![t].status = "revoked", ![t].by = n,
                         ![n] = NewToken(token[t].user, token[t].session)]
     /\ UNCHANGED user
     /\ End(r)

-----------------------------------------------------------------------------
(***************************************************************************)
(* RefreshTokenService.revoke_all_for_user: one bulk UPDATE, its start and *)
(* its end.                                                                *)
(***************************************************************************)

RevokeAllBegins(r) ==
  /\ req[r].pc = "revoke_all"
  /\ GoOn(r, [req[r] EXCEPT !.pc = "revoking", !.rows = LiveTokensOf(req[r].user)])

AfterRevokeAll(r) ==
  CASE req[r].op = "refresh" -> "reject"
    [] req[r].op = "block" /\ ~req[r].dirty -> "commit"
    [] OTHER -> "write_user"

RevokeAllEnds(r) ==
  /\ req[r].pc = "revoking" /\ Needs(r) = {}
  /\ GoTo(r, AfterRevokeAll(r))

\* Mutant of RevokeHeld: the latest session of the user is kept.
RevokeOlder(r, t) ==
  IF t \in req[r].rows /\ Holds(r, TokenLock(t)) /\ \E x \in req[r].rows : x > t
  THEN [token[t] EXCEPT !.status = "revoked"] ELSE token[t]

\* The rows of the bulk UPDATE that it holds are the ones it revoked.
RevokeHeld(r, t) ==
  IF t \in req[r].rows /\ Holds(r, TokenLock(t))
  THEN [token[t] EXCEPT !.status = "revoked"] ELSE token[t]

\* A token that was already exchanged: AuthenticationError, and session_getter
\* rolls back whatever the handler did before it raised.
RefreshReject(r) ==
  /\ Done(r, "refresh", "reject")
  /\ Rollback(r)

Login(r) == LoginReadUser(r) \/ Insert(r, "login") \/ LoginCommit(r)

Refresh(r) == \/ RefreshLockToken(r) \/ RefreshReadUser(r) \/ Insert(r, "refresh")
              \/ RefreshCommit(r) \/ RefreshReject(r)

-----------------------------------------------------------------------------
(***************************************************************************)
(* POST /users/logout                                                      *)
(***************************************************************************)

\* The token is read unlocked; an unknown or revoked one is ignored.
LogoutReadToken(r) ==
  LET t == req[r].token
  IN /\ Done(r, "logout", "read_token")
     /\ Check(r, TokenExists(t) /\ token[t].status = "live", "write_token")

\* UPDATE of a row that is gone: StaleDataError.
LogoutWriteToken(r) ==
  /\ Done(r, "logout", "write_token")
  /\ Check(r, TokenExists(req[r].token), "commit")

LogoutCommit(r) ==
  /\ Done(r, "logout", "commit")
  /\ token' = [token EXCEPT ![req[r].token].status = "revoked"]
  /\ UNCHANGED user
  /\ End(r)

Logout(r) == LogoutReadToken(r) \/ LogoutWriteToken(r) \/ LogoutCommit(r)

-----------------------------------------------------------------------------
(***************************************************************************)
(* POST /users/me/password, /users/{id}/block and /users/{id}/unblock      *)
(***************************************************************************)

\* get_current_active_user loads the user; the new hash differs from the old.
ChangePasswordRead(r) ==
  /\ Done(r, "change_password", "read_user")
  /\ Check(r, user[req[r].user].exists /\ user[req[r].user].active, "revoke_all")

\* is_active is written only when it changes.
BlockRead(r) ==
  /\ Done(r, "block", "read_user")
  /\ IF user[req[r].user].exists
     THEN GoOn(r, [req[r] EXCEPT !.pc = "revoke_all", !.dirty = user[req[r].user].active])
     ELSE Rollback(r)

UnblockRead(r) ==
  /\ Done(r, "unblock", "read_user")
  /\ Check(r, user[req[r].user].exists /\ ~user[req[r].user].active, "write_user")

\* UPDATE of a row that is gone: StaleDataError.
WriteUser(r, op) ==
  /\ Done(r, op, "write_user")
  /\ Check(r, user[req[r].user].exists, "commit")

ChangePasswordCommit(r) ==
  /\ Done(r, "change_password", "commit")
  /\ user' = [user EXCEPT ![req[r].user].password = @ + 1]
  /\ token' = [t \in Tokens |-> RevokeHeld(r, t)]
  /\ End(r)

BlockCommit(r) ==
  /\ Done(r, "block", "commit")
  /\ user' = IF req[r].dirty THEN [user EXCEPT ![req[r].user].active = FALSE] ELSE user
  /\ token' = [t \in Tokens |-> RevokeHeld(r, t)]
  /\ End(r)

UnblockCommit(r) ==
  /\ Done(r, "unblock", "commit")
  /\ user' = [user EXCEPT ![req[r].user].active = TRUE]
  /\ UNCHANGED token
  /\ End(r)

ChangePassword(r) == \/ ChangePasswordRead(r) \/ WriteUser(r, "change_password")
                     \/ ChangePasswordCommit(r)
Block(r) == BlockRead(r) \/ WriteUser(r, "block") \/ BlockCommit(r)
Unblock(r) == UnblockRead(r) \/ WriteUser(r, "unblock") \/ UnblockCommit(r)

-----------------------------------------------------------------------------
(***************************************************************************)
(* DELETE /users/me, DELETE /users/{id} and the purge of expired tokens    *)
(***************************************************************************)

DeleteUserRead(r) ==
  /\ Done(r, "delete_user", "read_user")
  /\ Check(r, user[req[r].user].exists, "delete_user")

DeleteUserRow(r) ==
  /\ Done(r, "delete_user", "delete_user")
  /\ GoTo(r, "cascade")

\* ON DELETE CASCADE of refresh_token.user_id.
DeleteUserCascade(r) ==
  /\ Done(r, "delete_user", "cascade")
  /\ GoTo(r, "commit")

DeleteHeld(r, t) ==
  IF Holds(r, TokenLock(t)) THEN [token[t] EXCEPT !.status = "deleted"] ELSE token[t]

\* Mutant of DeleteUserCommit: the foreign key has no ON DELETE CASCADE.
DeleteUserOnly(r) ==
  /\ Done(r, "delete_user", "commit")
  /\ user' = [user EXCEPT ![req[r].user].exists = FALSE]
  /\ UNCHANGED token
  /\ End(r)

DeleteUserCommit(r) ==
  /\ Done(r, "delete_user", "commit")
  /\ user' = [user EXCEPT ![req[r].user].exists = FALSE]
  /\ token' = [t \in Tokens |-> DeleteHeld(r, t)]
  /\ End(r)

DeleteUser(r) == \/ DeleteUserRead(r) \/ DeleteUserRow(r) \/ DeleteUserCascade(r)
                 \/ DeleteUserCommit(r)

PurgeBegins(r) ==
  /\ Done(r, "purge", "purge")
  /\ GoOn(r, [req[r] EXCEPT !.pc = "purging",
                            !.rows = {t \in Tokens : TokenExists(t) /\ token[t].expired}])

PurgeEnds(r) ==
  /\ Done(r, "purge", "purging")
  /\ GoTo(r, "commit")

PurgeCommit(r) ==
  /\ Done(r, "purge", "commit")
  /\ token' = [t \in Tokens |-> DeleteHeld(r, t)]
  /\ UNCHANGED user
  /\ End(r)

Purge(r) == PurgeBegins(r) \/ PurgeEnds(r) \/ PurgeCommit(r)

-----------------------------------------------------------------------------
(***************************************************************************)
(* Failures, and the whole                                                 *)
(***************************************************************************)

WaitsFor(r, s) == /\ Needs(r) # {}
                  /\ \A w \in Needs(r) : Blockers(r, w) # {}
                  /\ \E w \in Needs(r) : s \in Blockers(r, w)

Deadlocked(D) == /\ D # {}
                 /\ \A r \in D : \E s \in D : WaitsFor(r, s)
                 /\ \A s \in D : \E r \in D : WaitsFor(r, s)

DeadlockAbort(r) ==
  /\ \E D \in SUBSET Requests : r \in D /\ Deadlocked(D)
  /\ Rollback(r)

Crash(r) == req[r] # Idle /\ Rollback(r)

Handle(r) == \/ Login(r) \/ Refresh(r) \/ Logout(r) \/ ChangePassword(r) \/ Block(r)
             \/ Unblock(r) \/ DeleteUser(r) \/ Purge(r)
             \/ RevokeAllBegins(r) \/ RevokeAllEnds(r)

Progress(r) == LockRow(r) \/ Handle(r) \/ DeadlockAbort(r)

Next == \/ \E t \in Tokens : Expire(t)
        \/ \E r \in Requests : \/ ArriveWithToken(r) \/ ArriveForUser(r) \/ ArrivePurge(r)
                               \/ Progress(r) \/ Crash(r)

Spec == Init /\ [][Next]_vars

\* As in OrderLifecycle: a statement that can run again and again runs.
FairSpec == Spec /\ \A r \in Requests : SF_vars(Progress(r))

-----------------------------------------------------------------------------
(***************************************************************************)
(* Properties                                                              *)
(***************************************************************************)

\* However many clients present the same token at once, a session has at most
\* one live token: rotate locks the row, so a token is exchanged at most once.
OneLiveToken ==
  \A s, t \in Tokens :
    /\ token[s].status = "live" /\ token[t].status = "live"
    /\ token[s].session = token[t].session
    => s = t

\* replaced_by_id tells how a token was exchanged: it is set only on a token
\* that is spent, and leads to a later token of the same session and user.
ChainIsTrue ==
  \A t \in Tokens :
    token[t].by # NoToken =>
      /\ token[t].status # "live"
      /\ token[t].by > t
      /\ token[token[t].by].status # "unborn"
      /\ token[token[t].by].session = token[t].session
      /\ token[token[t].by].user = token[t].user

\* No token outlives its user.
NoOrphanToken == \A t \in Tokens : TokenExists(t) => user[token[t].user].exists

Ended(u) == \/ user'[u].password # user[u].password
            \/ user[u].active /\ ~user'[u].active

\* A password change and a block leave no token live that was there when their
\* revoke_all_for_user began; what survives was committed after that.
RevocationReaches ==
  [][\A u \in Users : Ended(u) =>
       \E r \in Requests :
         /\ req[r].user = u /\ req[r].pc = "commit" /\ req'[r] = Idle
         /\ LiveTokensOf(u)' \subseteq LiveTokensOf(u) \ req[r].rows]_vars

\* Every request gets an answer.
EveryRequestEnds == \A r \in Requests : req[r] # Idle ~> req[r] = Idle

\* The sessions that the tokens stand for (see Sessions).
SessionState(s) ==
  IF token[s].session # s THEN "none"
  ELSE IF \E t \in Tokens : token[t].status = "live" /\ token[t].session = s
       THEN "live" ELSE "ended"

Abstract == INSTANCE Sessions WITH Ids <- Tokens, session <- [s \in Tokens |-> SessionState(s)]
SessionsSpec == Abstract!Spec

\* README: the use of a token that was already used revokes all sessions of the
\* user.
ReuseRevokesAll ==
  [][\A r \in Requests, u \in Users :
       RefreshReject(r) /\ req[r].user = u => LiveTokensOf(u)' = {}]_vars
=============================================================================
