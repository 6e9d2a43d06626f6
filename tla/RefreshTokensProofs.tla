------------------------- MODULE RefreshTokensProofs -------------------------
(***************************************************************************)
(* What RefreshTokens keeps for any number of users, tokens and concurrent *)
(* requests, and that it implements Sessions.                              *)
(***************************************************************************)
EXTENDS RefreshTokens, TLAPS

USE BoundsAssumption, NobodyAssumption

\* Numbers are given out in turn, and the session of a token is that of a login.
RowInv(t) ==
  /\ token[t].status = "unborn" =>
       /\ token[t].by = NoToken /\ token[t].session = NoToken
       /\ \A x \in Tokens : t <= x => token[x].status = "unborn"
  /\ token[t].status # "unborn" =>
       /\ token[t].user \in Users
       /\ token[t].session \in Tokens
       /\ token[token[t].session].status # "unborn"
       /\ token[token[t].session].session = token[t].session

TablesInv == (\A t \in Tokens : RowInv(t)) /\ OneLiveToken /\ ChainIsTrue /\ NoOrphanToken

\* A token that is locked is there.
HeldExist == \A t \in Tokens : owner[TokenLock(t)] # Nobody => TokenExists(t)

\* Who deletes a user keeps out those that insert tokens for it.
DeleteExcludes == \A r \in Requests, u \in Users :
                    Holds(r, UserLock(u)) /\ ~NoKey(r) => sharers[u] \subseteq {r}

\* A request is about a user and a token there have been; a free slot holds nothing.
SlotInv(r, q) ==
  /\ q.op = "idle" => /\ q.pc = "idle"
                      /\ \A w \in Rows : ~Holds(r, w)
                      /\ \A u \in Users : r \notin sharers[u]
  /\ q.op \in {"login", "change_password", "block", "unblock", "delete_user"} => q.user \in Users
  /\ q.op \in {"refresh", "logout"} => /\ q.token \in Tokens
                                       /\ token[q.token].status # "unborn"
                                       /\ q.user = token[q.token].user
  /\ \A t \in q.rows : token[t].status # "unborn"

\* The token that is exchanged stays live and locked until the commit.
RefreshInv(r, q) ==
  q.op = "refresh" /\ q.pc \in {"read_user", "insert", "commit"} =>
    Holds(r, TokenLock(q.token)) /\ token[q.token].status = "live"

LogoutInv(r, q) == q.op = "logout" /\ q.pc = "commit" => Holds(r, TokenLock(q.token))

\* A token that is inserted has its user, who cannot be deleted meanwhile.
ShareInv(r, q) == q.op \in {"login", "refresh"} /\ q.pc = "commit" =>
                    user[q.user].exists /\ r \in sharers[q.user]

\* The deletion of a user holds the user and, in the end, all its tokens.
DeleteInv(r, q) ==
  q.op = "delete_user" /\ user[q.user].exists =>
    /\ q.pc \in {"cascade", "commit"} => Holds(r, UserLock(q.user))
    /\ q.pc = "commit" => \A t \in TokensOf(q.user) : Holds(r, TokenLock(t))

\* A revocation of all tokens holds those that it found and that are still live.
RevokeInv(r, q) ==
  q.op \in {"change_password", "block"} /\ q.pc \in {"write_user", "commit"} =>
    \A t \in q.rows : token[t].status = "live" => Holds(r, TokenLock(t))

RequestInv(r, q) == /\ SlotInv(r, q) /\ RefreshInv(r, q) /\ LogoutInv(r, q)
                    /\ ShareInv(r, q) /\ DeleteInv(r, q) /\ RevokeInv(r, q)

\* The inductive invariant.
IInv == /\ TypeOK /\ TablesInv /\ HeldExist /\ DeleteExcludes
        /\ \A r \in Requests : RequestInv(r, req[r])

-----------------------------------------------------------------------------
(***************************************************************************)
(* Types and locks                                                         *)
(***************************************************************************)

LEMMA IdleIsRequest == Idle \in Request
  BY DEF Idle, Request, Statements, Operations

LEMMA TypeEnd == ASSUME TypeOK, NEW r \in Requests, End(r)
                 PROVE  /\ req' \in [Requests -> Request]
                        /\ owner' \in [Rows -> Requests \cup {Nobody}]
                        /\ sharers' \in [Users -> SUBSET Requests]
  BY IdleIsRequest DEF TypeOK, End, Holds

\* Two locks are the same only if they are of the same kind and row.
LEMMA LocksDiffer == /\ \A u, x : UserLock(u) = UserLock(x) => u = x
                     /\ \A t, x : TokenLock(t) = TokenLock(x) => t = x
                     /\ \A u, t : UserLock(u) # TokenLock(t)
  BY DEF UserLock, TokenLock

LEMMA LocksAreRows == /\ \A u \in Users : UserLock(u) \in Rows
                      /\ \A t \in Tokens : TokenLock(t) \in Rows
  BY DEF Rows

\* What a transaction that ends leaves of the locks.
LEMMA EndIs ==
  ASSUME TypeOK, NEW r \in Requests, End(r)
  PROVE  /\ req'[r] = Idle
         /\ \A s \in Requests \ {r} : req'[s] = req[s]
         /\ \A w \in Rows : owner'[w] = (IF owner[w] = r THEN Nobody ELSE owner[w])
         /\ \A u \in Users : sharers'[u] = sharers[u] \ {r}
  BY DEF TypeOK, End, Holds

\* Of the other requests, what the tables and locks say must stay true.
LEMMA OthersKeep ==
  ASSUME IInv, NEW s \in Requests, req'[s] = req[s],
         \A w \in Rows : Holds(s, w) <=> Holds(s, w)',
         \A u \in Users : s \in sharers[u] <=> s \in sharers'[u],
         \A t \in Tokens : token[t].status # "unborn" =>
              /\ token'[t].status # "unborn"
              /\ token'[t].user = token[t].user
              /\ token'[t].status = "live" => token[t].status = "live"
              /\ Holds(s, TokenLock(t)) => token'[t] = token[t],
         \A u \in Users : user'[u].exists => user[u].exists,
         \A u \in Users : s \in sharers[u] => user'[u].exists = user[u].exists,
         \A t \in Tokens : /\ TokenExists(t)' /\ ~TokenExists(t)
                           /\ req[s].op = "delete_user" /\ req[s].pc = "commit"
                           => token'[t].user # req[s].user
  PROVE  RequestInv(s, req[s])'
<1>1. RequestInv(s, req[s]) /\ req[s] \in Request /\ (\A t \in Tokens : RowInv(t))
  BY DEF IInv, TablesInv, TypeOK
<1>2. SlotInv(s, req[s])'
  BY <1>1 DEF RequestInv, SlotInv, Request
<1>3. RefreshInv(s, req[s])' /\ LogoutInv(s, req[s])'
  BY <1>1, LocksAreRows DEF RequestInv, SlotInv, RefreshInv, LogoutInv
<1>4. ShareInv(s, req[s])'
  BY <1>1 DEF RequestInv, SlotInv, ShareInv, RowInv
<1>5. DeleteInv(s, req[s])'
  <2> SUFFICES ASSUME req[s].op = "delete_user", user'[req[s].user].exists
               PROVE  /\ req[s].pc \in {"cascade", "commit"} => Holds(s, UserLock(req[s].user))'
                      /\ req[s].pc = "commit" =>
                           \A t \in TokensOf(req[s].user)' : Holds(s, TokenLock(t))'
    BY DEF DeleteInv
  <2>1. req[s].user \in Users
    BY <1>1 DEF RequestInv, SlotInv
  <2>2. DeleteInv(s, req[s]) /\ user[req[s].user].exists
    BY <1>1, <2>1 DEF RequestInv
  <2>3. ASSUME req[s].pc = "commit", NEW t \in TokensOf(req[s].user)'
        PROVE  Holds(s, TokenLock(t))'
    <3>1. t \in Tokens /\ TokenExists(t)' /\ token'[t].user = req[s].user
      BY DEF TokensOf
    <3>2. TokenExists(t) /\ token[t].user = req[s].user
      BY <2>3, <3>1 DEF TokenExists
    <3> QED BY <2>2, <2>3, <3>2, LocksAreRows DEF DeleteInv, TokensOf, TokenExists
  <2> QED BY <2>1, <2>2, <2>3, LocksAreRows DEF DeleteInv
<1>6. RevokeInv(s, req[s])'
  BY <1>1, LocksAreRows DEF RequestInv, SlotInv, RevokeInv, Request
<1> QED BY <1>2, <1>3, <1>4, <1>5, <1>6 DEF RequestInv

-----------------------------------------------------------------------------
(***************************************************************************)
(* Steps that write no table                                               *)
(***************************************************************************)

\* The next statement of a request, and what its locks must guarantee by then.
LEMMA GoOnInv ==
  ASSUME IInv, NEW r \in Requests, NEW q \in Request, GoOn(r, q), RequestInv(r, q),
         req[r].op = "idle" \/ q.op = req[r].op
  PROVE  IInv'
<1>1. /\ UNCHANGED <<user, token, owner, sharers>>
      /\ req' \in [Requests -> Request]
      /\ req'[r] = q
      /\ \A s \in Requests \ {r} : req'[s] = req[s]
  BY DEF IInv, TypeOK, GoOn
<1>2. TypeOK'
  BY <1>1 DEF IInv, TypeOK
<1>3. TablesInv' /\ HeldExist'
  BY <1>1 DEF IInv, TablesInv, HeldExist, RowInv, OneLiveToken, ChainIsTrue, NoOrphanToken, TokenExists
<1>4. DeleteExcludes'
  <2>1. req[r].op = "idle" => \A w \in Rows : ~Holds(r, w)
    BY DEF IInv, RequestInv, SlotInv
  <2> QED BY <1>1, <2>1, LocksAreRows DEF IInv, DeleteExcludes, NoKey, Holds
<1>5. ASSUME NEW s \in Requests PROVE RequestInv(s, req[s])'
  <2>1. RequestInv(s, req'[s])
    BY <1>1 DEF IInv
  <2> QED BY <1>1, <2>1 DEF RequestInv, SlotInv, RefreshInv, LogoutInv, ShareInv, DeleteInv,
          RevokeInv, Holds, TokensOf, TokenExists
<1> QED BY <1>2, <1>3, <1>4, <1>5 DEF IInv

\* A free slot claims nothing.
LEMMA IdleInv ==
  ASSUME NEW r \in Requests, TypeOK, \A w \in Rows : ~Holds(r, w), \A u \in Users : r \notin sharers[u]
  PROVE  RequestInv(r, Idle)
  BY DEF RequestInv, SlotInv, RefreshInv, LogoutInv, ShareInv, DeleteInv, RevokeInv, Idle

\* A transaction that ends gives up its claims and leaves those of the others.
LEMMA RollbackInv == ASSUME IInv, NEW r \in Requests, Rollback(r) PROVE IInv'
<1>0. TypeOK /\ End(r) /\ UNCHANGED <<user, token>>
  BY DEF IInv, Rollback
<1>1. TypeOK'
  BY <1>0, TypeEnd DEF TypeOK
<1>2. TablesInv'
  BY <1>0 DEF IInv, TablesInv, RowInv, OneLiveToken, ChainIsTrue, NoOrphanToken, TokenExists
<1>3. HeldExist'
  BY <1>0, EndIs, LocksAreRows DEF IInv, HeldExist, TokenExists
<1>4. DeleteExcludes'
  BY <1>0, EndIs, LocksAreRows DEF IInv, TypeOK, DeleteExcludes, NoKey, Holds
<1>5. ASSUME NEW s \in Requests PROVE RequestInv(s, req[s])'
  <2>1. CASE s = r
    <3>1. req'[r] = Idle /\ (\A w \in Rows : ~Holds(r, w)') /\ \A u \in Users : r \notin sharers'[u]
      BY <1>0, EndIs DEF Holds
    <3> QED BY <2>1, <3>1 DEF RequestInv, SlotInv, RefreshInv, LogoutInv, ShareInv, DeleteInv,
            RevokeInv, Idle
  <2>2. CASE s # r
    <3>1. /\ req'[s] = req[s]
          /\ \A w \in Rows : Holds(s, w) <=> Holds(s, w)'
          /\ \A u \in Users : s \in sharers[u] <=> s \in sharers'[u]
      BY <1>0, <2>2, EndIs DEF Holds
    <3> QED BY <1>0, <3>1, OthersKeep DEF TokenExists
  <2> QED BY <2>1, <2>2
<1> QED BY <1>1, <1>2, <1>3, <1>4, <1>5 DEF IInv

\* What a request that moves to pc is.
LEMMA MovedIs ==
  ASSUME NEW q \in Request, NEW pc \in Statements
  PROVE  /\ [q EXCEPT !.pc = pc] \in Request
         /\ [q EXCEPT !.pc = pc].pc = pc
         /\ [q EXCEPT !.pc = pc].op = q.op
         /\ [q EXCEPT !.pc = pc].user = q.user
         /\ [q EXCEPT !.pc = pc].token = q.token
         /\ [q EXCEPT !.pc = pc].rows = q.rows
  BY DEF Request

LEMMA GoToInv ==
  ASSUME IInv, NEW r \in Requests, NEW pc \in Statements, GoTo(r, pc),
         req[r].op # "idle", RequestInv(r, [req[r] EXCEPT !.pc = pc])
  PROVE  IInv'
<1>1. req[r] \in Request
  BY DEF IInv, TypeOK
<1> QED BY <1>1, MovedIs, GoOnInv DEF GoTo

LEMMA CheckInv ==
  ASSUME IInv, NEW r \in Requests, NEW ok, NEW pc \in Statements, Check(r, ok, pc),
         req[r].op # "idle", ok => RequestInv(r, [req[r] EXCEPT !.pc = pc])
  PROVE  IInv'
  BY GoToInv, RollbackInv DEF Check

\* The statements at which a request relies on no lock.
LEMMA PlainInv ==
  ASSUME IInv, NEW r \in Requests, NEW pc \in Statements, req[r].op # "idle",
         /\ req[r].op = "refresh" => pc \in {"revoke_all", "revoking", "reject"}
         /\ req[r].op \in {"login", "logout"} => pc # "commit"
         /\ req[r].op = "delete_user" => pc \notin {"cascade", "commit"}
         /\ req[r].op \in {"change_password", "block"} => pc \notin {"write_user", "commit"}
  PROVE  RequestInv(r, [req[r] EXCEPT !.pc = pc])
<1>1. req[r] \in Request /\ SlotInv(r, req[r])
  BY DEF IInv, TypeOK, RequestInv
<1>2. SlotInv(r, [req[r] EXCEPT !.pc = pc])
  BY <1>1, MovedIs DEF SlotInv
<1> QED BY <1>1, <1>2, MovedIs DEF RequestInv, RefreshInv, LogoutInv, ShareInv, DeleteInv, RevokeInv

-----------------------------------------------------------------------------
(***************************************************************************)
(* Taking a row                                                            *)
(***************************************************************************)

\* What a statement needs of the rows it is about.
LEMMA TargetsAre ==
  ASSUME TypeOK, NEW r \in Requests, NEW w \in Targets(r)
  PROVE  \/ \E u \in Users : /\ w = UserLock(u) /\ u = req[r].user /\ user[u].exists
                             /\ req[r].pc \in {"insert", "write_user", "delete_user"}
         \/ \E t \in Tokens : /\ w = TokenLock(t) /\ TokenExists(t)
                              /\ req[r].pc \in {"lock_token", "write_token", "revoking", "purging",
                                                "cascade"}
<1>1. CASE req[r].pc \in {"insert", "write_user", "delete_user"}
  BY <1>1 DEF Targets
<1>2. CASE req[r].pc \in {"lock_token", "write_token"}
  BY <1>2 DEF Targets
<1>3. CASE req[r].pc = "revoking"
  <2>1. w \in {TokenLock(x) : x \in {x \in req[r].rows : token[x].status = "live"}}
    BY <1>3 DEF Targets
  <2> QED BY <1>3, <2>1 DEF TokenExists, TypeOK, Request
<1>4. CASE req[r].pc = "purging"
  BY <1>4 DEF Targets, TokenExists
<1>5. CASE req[r].pc = "cascade"
  BY <1>5 DEF Targets, TokensOf
<1>6. CASE req[r].pc \notin {"insert", "write_user", "delete_user", "lock_token", "write_token",
                            "revoking", "purging", "cascade"}
  BY <1>6 DEF Targets
<1> QED BY <1>1, <1>2, <1>3, <1>4, <1>5, <1>6

\* FOR KEY SHARE of an INSERT.
LEMMA ShareRowInv == ASSUME IInv, NEW r \in Requests, Sharing(r), LockRow(r) PROVE IInv'
<1> DEFINE u == req[r].user
<1>1. PICK w \in Needs(r) : /\ Blockers(r, w) = {}
                            /\ sharers' = [sharers EXCEPT ![u] = @ \cup {r}]
                            /\ UNCHANGED <<owner, user, token, req>>
  BY DEF LockRow
<1>2. w = UserLock(u) /\ u \in Users /\ user[u].exists /\ req[r].pc = "insert"
  BY DEF Needs, Sharing, Targets
<1>3. /\ \A x \in Users \ {u} : sharers'[x] = sharers[x]
      /\ sharers'[u] = sharers[u] \cup {r}
      /\ sharers' \in [Users -> SUBSET Requests]
  BY <1>1, <1>2 DEF IInv, TypeOK
<1>4. TypeOK' /\ TablesInv' /\ HeldExist'
  BY <1>1, <1>3 DEF IInv, TypeOK, TablesInv, RowInv, OneLiveToken, ChainIsTrue, NoOrphanToken, HeldExist,
     TokenExists
<1>5. DeleteExcludes'
  <2>1. \A s \in Requests \ {r} : Holds(s, UserLock(u)) => NoKey(s)
    BY <1>1, <1>2 DEF Blockers, Sharing
  <2> QED BY <1>1, <1>2, <1>3, <2>1 DEF IInv, DeleteExcludes, NoKey, Holds
<1>6. ASSUME NEW s \in Requests PROVE RequestInv(s, req[s])'
  <2>1. RequestInv(s, req[s])
    BY DEF IInv
  <2>2. req[r].op # "idle"
    BY <1>2 DEF IInv, RequestInv, SlotInv
  <2>3. SlotInv(s, req[s])'
    BY <1>1, <1>3, <2>1, <2>2 DEF RequestInv, SlotInv, Holds
  <2>4. ShareInv(s, req[s])'
    <3>1. \A x \in Users : sharers[x] \subseteq sharers'[x]
      BY <1>2, <1>3
    <3>2. req[s].op \in {"login", "refresh"} => req[s].user \in Users
      BY <2>1 DEF IInv, TablesInv, RowInv, RequestInv, SlotInv
    <3> QED BY <1>1, <2>1, <3>1, <3>2 DEF RequestInv, ShareInv
  <2> QED BY <1>1, <2>1, <2>3, <2>4 DEF RequestInv, RefreshInv, LogoutInv, DeleteInv, RevokeInv, Holds,
          TokensOf, TokenExists
<1> QED BY <1>4, <1>5, <1>6 DEF IInv

\* FOR UPDATE, UPDATE and DELETE.
LEMMA OwnRowInv == ASSUME IInv, NEW r \in Requests, ~Sharing(r), LockRow(r) PROVE IInv'
<1>1. PICK w \in Needs(r) : /\ Blockers(r, w) = {}
                            /\ owner' = [owner EXCEPT ![w] = r]
                            /\ UNCHANGED <<sharers, user, token, req>>
  BY DEF LockRow
<1>2. w \in Targets(r) /\ ~Holds(r, w)
  BY DEF Needs, Sharing
<1>3. w \in Rows /\ owner \in [Rows -> Requests \cup {Nobody}]
  BY <1>2, TargetsAre, LocksAreRows DEF IInv, TypeOK
<1>4. owner[w] = Nobody
  BY <1>1, <1>2, <1>3 DEF Blockers, Sharing, Holds
<1>5. /\ \A s \in Requests, x \in Rows : Holds(s, x) => Holds(s, x)'
      /\ \A s \in Requests, x \in Rows : Holds(s, x)' => Holds(s, x) \/ (s = r /\ x = w)
  BY <1>1, <1>3, <1>4 DEF Holds
<1>6. TypeOK' /\ TablesInv'
  BY <1>1, <1>3 DEF IInv, TypeOK, TablesInv, RowInv, OneLiveToken, ChainIsTrue, NoOrphanToken, TokenExists
<1>7. HeldExist'
  <2>1. \A t \in Tokens : w = TokenLock(t) => TokenExists(t)
    BY <1>2, TargetsAre, LocksDiffer DEF IInv
  <2> QED BY <1>1, <1>3, <2>1, LocksAreRows DEF IInv, HeldExist, TokenExists
<1>8. DeleteExcludes'
  <2>1. ASSUME NEW u \in Users, w = UserLock(u), ~NoKey(r) PROVE sharers[u] \subseteq {r}
    BY <1>1, <2>1 DEF Blockers, IInv, TypeOK
  <2> QED BY <1>1, <1>5, <2>1, LocksAreRows DEF IInv, DeleteExcludes, NoKey
<1>9. ASSUME NEW s \in Requests PROVE RequestInv(s, req[s])'
  <2>1. RequestInv(s, req[s]) /\ req[s] \in Request
    BY DEF IInv, TypeOK
  <2>2. SlotInv(s, req[s])'
    <3>1. req[r].op # "idle"
      BY <1>2 DEF IInv, RequestInv, SlotInv, Targets
    <3> QED BY <1>1, <1>5, <2>1, <3>1 DEF RequestInv, SlotInv
  <2>3. RefreshInv(s, req[s])' /\ LogoutInv(s, req[s])' /\ RevokeInv(s, req[s])'
    BY <1>1, <1>5, <2>1, LocksAreRows DEF RequestInv, SlotInv, RefreshInv, LogoutInv, RevokeInv, Request
  <2>4. ShareInv(s, req[s])'
    BY <1>1, <2>1 DEF RequestInv, ShareInv
  <2>5. DeleteInv(s, req[s])'
    BY <1>1, <1>5, <2>1, LocksAreRows DEF RequestInv, SlotInv, DeleteInv, TokensOf, TokenExists
  <2> QED BY <2>2, <2>3, <2>4, <2>5 DEF RequestInv
<1> QED BY <1>6, <1>7, <1>8, <1>9 DEF IInv

\* A statement that has returned holds its rows.
LEMMA HasRows ==
  ASSUME TypeOK, NEW r \in Requests, Needs(r) = {}
  PROVE  /\ req[r].pc \in {"lock_token", "write_token"} /\ TokenExists(req[r].token)
            => Holds(r, TokenLock(req[r].token))
         /\ req[r].pc = "insert" /\ req[r].user \in Users /\ user[req[r].user].exists
            => r \in sharers[req[r].user]
         /\ req[r].pc = "delete_user" /\ req[r].user \in Users /\ user[req[r].user].exists
            => Holds(r, UserLock(req[r].user))
         /\ req[r].pc = "revoking"
            => \A t \in req[r].rows : token[t].status = "live" => Holds(r, TokenLock(t))
         /\ req[r].pc = "cascade" /\ Holds(r, UserLock(req[r].user))
            => \A t \in TokensOf(req[r].user) : Holds(r, TokenLock(t))
<1>1. CASE req[r].pc \in {"lock_token", "write_token"}
  BY <1>1 DEF Needs, Targets, Sharing, TokenExists
<1>2. CASE req[r].pc \in {"insert", "delete_user"}
  BY <1>2 DEF Needs, Targets, Sharing
<1>3. CASE req[r].pc = "revoking"
  <2>1. Targets(r) = {TokenLock(x) : x \in {x \in req[r].rows : token[x].status = "live"}}
    BY <1>3 DEF Targets
  <2> QED BY <1>3, <2>1 DEF Needs, Sharing
<1>4. CASE req[r].pc = "cascade"
  <2>1. Holds(r, UserLock(req[r].user)) => Targets(r) = {TokenLock(x) : x \in TokensOf(req[r].user)}
    BY <1>4 DEF Targets
  <2> QED BY <1>4, <2>1 DEF Needs, Sharing
<1> QED BY <1>1, <1>2, <1>3, <1>4

-----------------------------------------------------------------------------
(***************************************************************************)
(* Statements that look and go on                                          *)
(***************************************************************************)

LEMMA BeginInv ==
  ASSUME IInv, NEW r \in Requests, NEW op \in Operations, NEW pc \in Statements,
         NEW u \in Users \cup {Nobody}, NEW t \in Tokens \cup {NoToken},
         Arrive(r, op, pc, u, t), pc \notin {"cascade", "commit", "insert", "write_user"},
         op = "refresh" => pc # "read_user",
         op \in {"login", "change_password", "block", "unblock", "delete_user"} => u \in Users,
         op \in {"refresh", "logout"} => t \in Tokens /\ token[t].status # "unborn" /\ u = token[t].user
  PROVE  IInv'
<1> DEFINE q == [Idle EXCEPT !.op = op, !.pc = pc, !.user = u, !.token = t]
<1>1. /\ q \in Request /\ q.op = op /\ q.pc = pc /\ q.user = u /\ q.token = t /\ q.rows = {}
  BY IdleIsRequest DEF Request, Idle
<1>2. req[r] = Idle /\ GoOn(r, q)
  BY DEF Arrive
<1>3. req[r].op = "idle"
  BY <1>2 DEF Idle
<1>4. op # "idle"
  BY DEF Operations
<1>5. RequestInv(r, q)
  <2> HIDE DEF q
  <2> QED BY <1>1, <1>4 DEF RequestInv, SlotInv, RefreshInv, LogoutInv, ShareInv, DeleteInv, RevokeInv
<1> HIDE DEF q
<1> QED BY <1>1, <1>2, <1>3, <1>5, GoOnInv

LEMMA ArriveInv ==
  ASSUME IInv, NEW r \in Requests, ArriveWithToken(r) \/ ArriveForUser(r) \/ ArrivePurge(r)
  PROVE  IInv'
<1>0. /\ \A t \in Tokens : token[t].status # "unborn" => token[t].user \in Users
      /\ {"login", "refresh", "logout", "change_password", "block", "unblock", "delete_user", "purge"}
           \subseteq Operations
      /\ {"read_user", "lock_token", "read_token", "purge"} \subseteq Statements
  BY DEF IInv, TablesInv, RowInv, Operations, Statements
<1>1. CASE ArriveWithToken(r)
  <2>1. PICK t \in Tokens \ Unborn : \/ Arrive(r, "refresh", "lock_token", token[t].user, t)
                                     \/ Arrive(r, "logout", "read_token", token[t].user, t)
    BY <1>1 DEF ArriveWithToken
  <2>2. token[t].status # "unborn" /\ token[t].user \in Users
    BY <1>0 DEF Unborn
  <2> QED BY <1>0, <2>1, <2>2, BeginInv
<1>2. CASE ArriveForUser(r)
  <2>1. PICK u \in Users : \E op \in {"login", "change_password", "block", "unblock", "delete_user"} :
                             Arrive(r, op, "read_user", u, NoToken)
    BY <1>2 DEF ArriveForUser
  <2> QED BY <1>0, <2>1, BeginInv
<1>3. CASE ArrivePurge(r)
  BY <1>0, <1>3, BeginInv DEF ArrivePurge
<1> QED BY <1>1, <1>2, <1>3

LEMMA LoginLooksInv ==
  ASSUME IInv, NEW r \in Requests, \/ LoginReadUser(r) \/ Insert(r, "login") \/ Insert(r, "refresh")
  PROVE  IInv'
<1>1. CASE LoginReadUser(r)
  BY <1>1, CheckInv, PlainInv DEF LoginReadUser, Done, Statements
<1>2. ASSUME NEW op \in {"login", "refresh"}, Insert(r, op) PROVE IInv'
  <2> DEFINE q == [req[r] EXCEPT !.pc = "commit"]
  <2>1. /\ q.op = op /\ q.pc = "commit" /\ q.user = req[r].user /\ q.token = req[r].token
        /\ q.rows = req[r].rows /\ "commit" \in Statements
    BY <1>2, MovedIs DEF Insert, Done, IInv, TypeOK, Statements
  <2>2. req[r].user \in Users
    BY <1>2 DEF Insert, Done, IInv, RequestInv, SlotInv, TablesInv, RowInv
  <2>3. RequestInv(r, req[r]) /\ req[r].op = op /\ req[r].pc = "insert"
    BY <1>2 DEF IInv, Insert, Done
  <2>4. ASSUME user[req[r].user].exists PROVE RequestInv(r, q)
    <3>1. r \in sharers[req[r].user]
      BY <1>2, <2>2, <2>4, HasRows DEF Insert, Done, IInv
    <3> HIDE DEF q
    <3> QED BY <2>1, <2>3, <2>4, <3>1 DEF RequestInv, SlotInv, RefreshInv, LogoutInv, ShareInv,
            DeleteInv, RevokeInv
  <2> QED BY <1>2, <2>1, <2>4, CheckInv DEF Insert, Done
<1> QED BY <1>1, <1>2

LEMMA RefreshLooksInv ==
  ASSUME IInv, NEW r \in Requests, RefreshLockToken(r) \/ RefreshReadUser(r) \/ RefreshReject(r)
  PROVE  IInv'
<1>1. CASE RefreshLockToken(r)
  <2> DEFINE t == req[r].token
             q == [req[r] EXCEPT !.pc = "read_user"]
  <2>0. req[r].op = "refresh" /\ req[r].pc = "lock_token" /\ {"read_user", "revoke_all"} \subseteq Statements
    BY <1>1 DEF RefreshLockToken, Done, Statements
  <2>1. CASE GoTo(r, "revoke_all")
    BY <2>0, <2>1, GoToInv, PlainInv
  <2>2. CASE /\ ~(TokenExists(t) /\ token[t].status = "revoked")
             /\ Check(r, TokenExists(t) /\ ~token[t].expired, "read_user")
    <3>1. /\ q.op = "refresh" /\ q.pc = "read_user" /\ q.user = req[r].user /\ q.token = t
          /\ q.rows = req[r].rows
      BY <2>0, MovedIs DEF IInv, TypeOK
    <3>2. RequestInv(r, req[r])
      BY DEF IInv
    <3>3. ASSUME TokenExists(t) PROVE RequestInv(r, q)
      <4>1. token[t].status = "live"
        BY <2>2, <3>3 DEF TokenExists
      <4>2. Holds(r, TokenLock(t))
        BY <1>1, <3>3, HasRows DEF RefreshLockToken, Done, IInv
      <4> HIDE DEF q
      <4> QED BY <2>0, <3>1, <3>2, <4>1, <4>2 DEF RequestInv, SlotInv, RefreshInv, LogoutInv, ShareInv,
              DeleteInv, RevokeInv
    <3> QED BY <2>0, <2>2, <3>3, CheckInv
  <2> QED BY <1>1, <2>1, <2>2 DEF RefreshLockToken
<1>2. CASE RefreshReadUser(r)
  <2> DEFINE q == [req[r] EXCEPT !.pc = "insert"]
  <2>1. /\ q.op = "refresh" /\ q.pc = "insert" /\ q.user = req[r].user /\ q.token = req[r].token
        /\ q.rows = req[r].rows /\ "insert" \in Statements /\ req[r].op = "refresh"
        /\ req[r].pc = "read_user"
    BY <1>2, MovedIs DEF RefreshReadUser, Done, IInv, TypeOK, Statements
  <2>2. RequestInv(r, req[r])
    BY DEF IInv
  <2>3. RequestInv(r, q)
    <3> HIDE DEF q
    <3> QED BY <2>1, <2>2 DEF RequestInv, SlotInv, RefreshInv, LogoutInv, ShareInv, DeleteInv, RevokeInv
  <2> QED BY <1>2, <2>1, <2>3, CheckInv DEF RefreshReadUser
<1>3. CASE RefreshReject(r)
  BY <1>3, RollbackInv DEF RefreshReject
<1> QED BY <1>1, <1>2, <1>3

LEMMA LogoutLooksInv ==
  ASSUME IInv, NEW r \in Requests, LogoutReadToken(r) \/ LogoutWriteToken(r)
  PROVE  IInv'
<1>1. CASE LogoutReadToken(r)
  BY <1>1, CheckInv, PlainInv DEF LogoutReadToken, Done, Statements
<1>2. CASE LogoutWriteToken(r)
  <2> DEFINE q == [req[r] EXCEPT !.pc = "commit"]
  <2>1. /\ q.op = "logout" /\ q.pc = "commit" /\ q.user = req[r].user /\ q.token = req[r].token
        /\ q.rows = req[r].rows /\ "commit" \in Statements /\ req[r].op = "logout"
        /\ req[r].pc = "write_token"
    BY <1>2, MovedIs DEF LogoutWriteToken, Done, IInv, TypeOK, Statements
  <2>2. RequestInv(r, req[r])
    BY DEF IInv
  <2>3. ASSUME TokenExists(req[r].token) PROVE RequestInv(r, q)
    <3>1. Holds(r, TokenLock(req[r].token))
      BY <1>2, <2>1, <2>3, HasRows DEF LogoutWriteToken, Done, IInv
    <3> HIDE DEF q
    <3> QED BY <2>1, <2>2, <3>1 DEF RequestInv, SlotInv, RefreshInv, LogoutInv, ShareInv, DeleteInv,
            RevokeInv
  <2> QED BY <1>2, <2>1, <2>3, CheckInv DEF LogoutWriteToken
<1> QED BY <1>1, <1>2

LEMMA UserLooksInv ==
  ASSUME IInv, NEW r \in Requests,
         \/ ChangePasswordRead(r) \/ BlockRead(r) \/ UnblockRead(r)
         \/ WriteUser(r, "change_password") \/ WriteUser(r, "block") \/ WriteUser(r, "unblock")
  PROVE  IInv'
<1>0. RequestInv(r, req[r]) /\ req[r] \in Request
  BY DEF IInv, TypeOK
<1>1. CASE ChangePasswordRead(r)
  BY <1>1, CheckInv, PlainInv DEF ChangePasswordRead, Done, Statements
<1>2. CASE BlockRead(r)
  <2> DEFINE q == [req[r] EXCEPT !.pc = "revoke_all", !.dirty = user[req[r].user].active]
  <2>1. req[r].op = "block" /\ req[r].user \in Users
    BY <1>0, <1>2 DEF BlockRead, Done, RequestInv, SlotInv
  <2>2. q \in Request
    BY <1>0, <2>1 DEF IInv, TypeOK, UserRow, Request, Statements
  <2>3. q.op = "block" /\ q.pc = "revoke_all" /\ q.user = req[r].user /\ q.rows = req[r].rows
    BY <1>0, <2>1 DEF Request
  <2>4. RequestInv(r, q)
    <3> HIDE DEF q
    <3> QED BY <1>0, <2>1, <2>3 DEF RequestInv, SlotInv, RefreshInv, LogoutInv, ShareInv, DeleteInv,
            RevokeInv
  <2>5. GoOn(r, q) \/ Rollback(r)
    BY <1>2 DEF BlockRead
  <2> HIDE DEF q
  <2> QED BY <2>1, <2>2, <2>3, <2>4, <2>5, GoOnInv, RollbackInv
<1>3. CASE UnblockRead(r)
  BY <1>3, CheckInv, PlainInv DEF UnblockRead, Done, Statements
<1>4. ASSUME NEW op \in {"change_password", "block", "unblock"}, WriteUser(r, op) PROVE IInv'
  <2> DEFINE q == [req[r] EXCEPT !.pc = "commit"]
  <2>1. /\ q.op = op /\ q.pc = "commit" /\ q.user = req[r].user /\ q.token = req[r].token
        /\ q.rows = req[r].rows /\ "commit" \in Statements /\ req[r].op = op
        /\ req[r].pc = "write_user"
    BY <1>0, <1>4, MovedIs DEF WriteUser, Done, Statements
  <2>2. RequestInv(r, q)
    <3> HIDE DEF q
    <3> QED BY <1>0, <2>1 DEF RequestInv, SlotInv, RefreshInv, LogoutInv, ShareInv, DeleteInv, RevokeInv
  <2> QED BY <1>4, <2>1, <2>2, CheckInv DEF WriteUser
<1> QED BY <1>1, <1>2, <1>3, <1>4

LEMMA DeleteLooksInv ==
  ASSUME IInv, NEW r \in Requests, DeleteUserRead(r) \/ DeleteUserRow(r) \/ DeleteUserCascade(r)
  PROVE  IInv'
<1>0. RequestInv(r, req[r]) /\ req[r] \in Request
  BY DEF IInv, TypeOK
<1>1. CASE DeleteUserRead(r)
  BY <1>1, CheckInv, PlainInv DEF DeleteUserRead, Done, Statements
<1>2. ASSUME req[r].op = "delete_user", Needs(r) = {},
             NEW pc \in {"cascade", "commit"}, GoTo(r, pc),
             pc = "cascade" => req[r].pc = "delete_user",
             pc = "commit" => req[r].pc = "cascade"
      PROVE  IInv'
  <2> DEFINE q == [req[r] EXCEPT !.pc = pc]
  <2>1. /\ q.op = "delete_user" /\ q.pc = pc /\ q.user = req[r].user /\ q.token = req[r].token
        /\ q.rows = req[r].rows /\ pc \in Statements
    BY <1>0, <1>2, MovedIs DEF Statements
  <2>2. req[r].user \in Users
    BY <1>0, <1>2 DEF RequestInv, SlotInv
  <2>3. DeleteInv(r, q)
    <3> HIDE DEF q
    <3>1. user[req[r].user].exists => Holds(r, UserLock(req[r].user))
      BY <1>0, <1>2, <2>2, HasRows DEF RequestInv, DeleteInv, IInv
    <3>2. pc = "commit" /\ user[req[r].user].exists
            => \A t \in TokensOf(req[r].user) : Holds(r, TokenLock(t))
      BY <1>2, <3>1, HasRows DEF IInv
    <3> QED BY <2>1, <3>1, <3>2 DEF DeleteInv
  <2>4. RequestInv(r, q)
    <3> HIDE DEF q
    <3> QED BY <1>0, <1>2, <2>1, <2>3 DEF RequestInv, SlotInv, RefreshInv, LogoutInv, ShareInv, RevokeInv
  <2> QED BY <1>2, <2>1, <2>4, GoToInv
<1> QED BY <1>1, <1>2 DEF DeleteUserRow, DeleteUserCascade, Done

\* The begin of a bulk statement.
LEMMA BulkBeginsInv ==
  ASSUME IInv, NEW r \in Requests, NEW rows \in SUBSET Tokens, NEW pc \in {"revoking", "purging"},
         \A t \in rows : TokenExists(t), req[r].op # "idle",
         GoOn(r, [req[r] EXCEPT !.pc = pc, !.rows = rows])
  PROVE  IInv'
<1> DEFINE q == [req[r] EXCEPT !.pc = pc, !.rows = rows]
<1>0. RequestInv(r, req[r]) /\ req[r] \in Request
  BY DEF IInv, TypeOK
<1>1. /\ q \in Request /\ q.op = req[r].op /\ q.pc = pc /\ q.user = req[r].user
      /\ q.token = req[r].token /\ q.rows = rows
  BY <1>0 DEF Request, Statements
<1>2. RequestInv(r, q)
  <2> HIDE DEF q
  <2> QED BY <1>0, <1>1 DEF RequestInv, SlotInv, RefreshInv, LogoutInv, ShareInv, DeleteInv, RevokeInv,
          TokenExists
<1>3. GoOn(r, q)
  OBVIOUS
<1> HIDE DEF q
<1> QED BY <1>1, <1>2, <1>3, GoOnInv

LEMMA BulkInv ==
  ASSUME IInv, NEW r \in Requests,
         RevokeAllBegins(r) \/ RevokeAllEnds(r) \/ PurgeBegins(r) \/ PurgeEnds(r)
  PROVE  IInv'
<1>0. RequestInv(r, req[r]) /\ req[r] \in Request
  BY DEF IInv, TypeOK
<1>1. CASE RevokeAllBegins(r)
  <2>1. req[r].op # "idle"
    BY <1>0, <1>1 DEF RevokeAllBegins, RequestInv, SlotInv
  <2>2. /\ LiveTokensOf(req[r].user) \in SUBSET Tokens
        /\ \A t \in LiveTokensOf(req[r].user) : TokenExists(t)
    BY DEF LiveTokensOf, TokensOf
  <2> QED BY <1>1, <2>1, <2>2, BulkBeginsInv DEF RevokeAllBegins
<1>2. CASE RevokeAllEnds(r)
  <2> DEFINE pc == AfterRevokeAll(r)
             q == [req[r] EXCEPT !.pc = pc]
  <2>1. /\ pc \in Statements
        /\ req[r].op = "refresh" => pc = "reject"
        /\ req[r].op \notin {"refresh", "block"} => pc = "write_user"
        /\ pc \in {"reject", "commit", "write_user"}
    BY DEF AfterRevokeAll, Statements
  <2>2. /\ q.op = req[r].op /\ q.pc = pc /\ q.user = req[r].user /\ q.token = req[r].token
        /\ q.rows = req[r].rows
    BY <1>0, <2>1, MovedIs
  <2>3. /\ req[r].op # "idle"
        /\ \A t \in req[r].rows : token[t].status = "live" => Holds(r, TokenLock(t))
    BY <1>0, <1>2, HasRows DEF RevokeAllEnds, RequestInv, SlotInv, IInv
  <2>4. RequestInv(r, q)
    <3> HIDE DEF q, pc
    <3> QED BY <1>0, <2>1, <2>2, <2>3 DEF RequestInv, SlotInv, RefreshInv, LogoutInv, ShareInv, DeleteInv,
            RevokeInv
  <2>5. GoTo(r, pc)
    BY <1>2 DEF RevokeAllEnds
  <2> HIDE DEF pc
  <2> QED BY <2>1, <2>3, <2>4, <2>5, GoToInv
<1>3. CASE PurgeBegins(r)
  <2> DEFINE rows == {t \in Tokens : TokenExists(t) /\ token[t].expired}
  <2>1. req[r].op # "idle"
    BY <1>3 DEF PurgeBegins, Done
  <2>2. rows \in SUBSET Tokens /\ \A t \in rows : TokenExists(t)
    OBVIOUS
  <2>3. GoOn(r, [req[r] EXCEPT !.pc = "purging", !.rows = rows])
    BY <1>3 DEF PurgeBegins
  <2> HIDE DEF rows
  <2> QED BY <2>1, <2>2, <2>3, BulkBeginsInv
<1>4. CASE PurgeEnds(r)
  BY <1>4, GoToInv, PlainInv DEF PurgeEnds, Done, Statements
<1> QED BY <1>1, <1>2, <1>3, <1>4

-----------------------------------------------------------------------------
(***************************************************************************)
(* Commits                                                                 *)
(***************************************************************************)

\* A commit that writes only rows it holds, or new ones, disturbs no other request.
LEMMA CommitInv ==
  ASSUME IInv, NEW r \in Requests, End(r), user' \in [Users -> UserRow],
         token' \in [Tokens -> TokenRow], TablesInv',
         \A t \in Tokens : token[t].status # "unborn" =>
              /\ token'[t].status # "unborn"
              /\ token'[t].user = token[t].user
              /\ token'[t].status = "live" => token[t].status = "live"
              /\ token'[t] = token[t] \/ Holds(r, TokenLock(t)),
         \A u \in Users : user'[u].exists => user[u].exists,
         \A s \in Requests \ {r}, u \in Users : s \in sharers[u] => user'[u].exists = user[u].exists,
         \A t \in Tokens : TokenExists(t)' /\ ~TokenExists(t) =>
           \A s \in Requests \ {r} : req[s].op = "delete_user" /\ req[s].pc = "commit"
                                      => token'[t].user # req[s].user
  PROVE  IInv'
<1>0. TypeOK
  BY DEF IInv
<1>1. TypeOK'
  BY <1>0, TypeEnd DEF TypeOK
<1>2. HeldExist'
  <2> SUFFICES ASSUME NEW t \in Tokens, owner'[TokenLock(t)] # Nobody PROVE TokenExists(t)'
    BY DEF HeldExist
  <2>1. owner[TokenLock(t)] # Nobody /\ owner[TokenLock(t)] # r
    BY <1>0, EndIs, LocksAreRows
  <2>2. TokenExists(t)
    BY <2>1 DEF IInv, HeldExist
  <2>3. token'[t] = token[t]
    BY <2>1, <2>2 DEF TokenExists, Holds
  <2> QED BY <2>2, <2>3 DEF TokenExists
<1>3. DeleteExcludes'
  BY <1>0, EndIs, LocksAreRows DEF IInv, TypeOK, DeleteExcludes, NoKey, Holds
<1>4. ASSUME NEW s \in Requests PROVE RequestInv(s, req[s])'
  <2>1. CASE s = r
    <3>1. req'[r] = Idle /\ (\A w \in Rows : ~Holds(r, w)') /\ \A u \in Users : r \notin sharers'[u]
      BY <1>0, EndIs DEF Holds
    <3> QED BY <2>1, <3>1 DEF RequestInv, SlotInv, RefreshInv, LogoutInv, ShareInv, DeleteInv,
            RevokeInv, Idle
  <2>2. CASE s # r
    <3>1. /\ req'[s] = req[s]
          /\ \A w \in Rows : Holds(s, w) <=> Holds(s, w)'
          /\ \A u \in Users : s \in sharers[u] <=> s \in sharers'[u]
      BY <1>0, <2>2, EndIs DEF Holds
    <3>2. \A t \in Tokens : token[t].status # "unborn" =>
              /\ token'[t].status # "unborn"
              /\ token'[t].user = token[t].user
              /\ token'[t].status = "live" => token[t].status = "live"
              /\ Holds(s, TokenLock(t)) => token'[t] = token[t]
      BY <2>2 DEF Holds
    <3> QED BY <2>2, <3>1, <3>2, OthersKeep
  <2> QED BY <2>1, <2>2
<1> QED BY <1>1, <1>2, <1>3, <1>4 DEF IInv

\* The tables after tokens were revoked or deleted.
LEMMA SettledTables ==
  ASSUME IInv, DOMAIN token' = Tokens, token' = [t \in Tokens |-> token'[t]],
         \A t \in Tokens : \/ token'[t] = token[t]
                           \/ TokenExists(t) /\ token'[t] = [token[t] EXCEPT !.status = "revoked"]
                           \/ TokenExists(t) /\ token'[t] = [token[t] EXCEPT !.status = "deleted"],
         \A t \in Tokens : TokenExists(t)' => user'[token'[t].user].exists
  PROVE  /\ token' \in [Tokens -> TokenRow]
         /\ TablesInv'
         /\ \A t \in Tokens : token[t].status # "unborn" =>
              /\ token'[t].status # "unborn"
              /\ token'[t].user = token[t].user
              /\ token'[t].status = "live" => token[t].status = "live"
         /\ \A t \in Tokens : TokenExists(t)' => TokenExists(t)
<1>0. token \in [Tokens -> TokenRow] /\ (\A t \in Tokens : RowInv(t))
  BY DEF IInv, TypeOK, TablesInv
<1>1. \A t \in Tokens : /\ token'[t] \in TokenRow
                        /\ token'[t].user = token[t].user /\ token'[t].by = token[t].by
                        /\ token'[t].session = token[t].session
                        /\ token'[t].status = "unborn" <=> token[t].status = "unborn"
                        /\ token'[t].status = "live" => token[t].status = "live"
                        /\ TokenExists(t)' => TokenExists(t)
  BY <1>0 DEF TokenRow, TokenExists
<1>2. token' \in [Tokens -> TokenRow]
  BY <1>1
<1>3. \A t \in Tokens : RowInv(t)'
  BY <1>0, <1>1 DEF RowInv
<1>4. OneLiveToken'
  BY <1>1 DEF IInv, TablesInv, OneLiveToken
<1>5. ChainIsTrue'
  <2> SUFFICES ASSUME NEW t \in Tokens, token'[t].by # NoToken
               PROVE  /\ token'[t].status # "live"
                      /\ token'[t].by > t
                      /\ token'[token'[t].by].status # "unborn"
                      /\ token'[token'[t].by].session = token'[t].session
                      /\ token'[token'[t].by].user = token'[t].user
    BY DEF ChainIsTrue
  <2>1. token[t].by \in Tokens
    BY <1>0, <1>1 DEF TokenRow
  <2> QED BY <1>1, <2>1 DEF IInv, TablesInv, ChainIsTrue
<1>6. NoOrphanToken'
  BY DEF NoOrphanToken
<1> QED BY <1>1, <1>2, <1>3, <1>4, <1>5, <1>6 DEF TablesInv

\* logout, the revocations of all tokens, unblock, and the purge.
LEMMA SettleInv ==
  ASSUME IInv, NEW r \in Requests, End(r), user' \in [Users -> UserRow],
         \A u \in Users : user'[u].exists = user[u].exists,
         token' = [t \in Tokens |-> token'[t]],
         \A t \in Tokens :
           \/ token'[t] = token[t]
           \/ /\ Holds(r, TokenLock(t))
              /\ \/ token'[t] = [token[t] EXCEPT !.status = "revoked"]
                 \/ token'[t] = [token[t] EXCEPT !.status = "deleted"]
  PROVE  IInv'
<1>1. \A t \in Tokens : Holds(r, TokenLock(t)) => TokenExists(t)
  BY DEF IInv, HeldExist, Holds
<1>2. \A t \in Tokens : \/ token'[t] = token[t]
                        \/ TokenExists(t) /\ token'[t] = [token[t] EXCEPT !.status = "revoked"]
                        \/ TokenExists(t) /\ token'[t] = [token[t] EXCEPT !.status = "deleted"]
  BY <1>1
<1>3. \A t \in Tokens : TokenExists(t)' => user'[token'[t].user].exists
  <2> SUFFICES ASSUME NEW t \in Tokens, TokenExists(t)' PROVE user'[token'[t].user].exists
    OBVIOUS
  <2>1. token[t] \in TokenRow
    BY DEF IInv, TypeOK
  <2>2. TokenExists(t) /\ token'[t].user = token[t].user
    BY <1>2, <2>1 DEF TokenExists, TokenRow
  <2>3. token[t].user \in Users /\ user[token[t].user].exists
    BY <2>2 DEF IInv, TablesInv, RowInv, NoOrphanToken, TokenExists
  <2> QED BY <2>2, <2>3
<1>4. /\ token' \in [Tokens -> TokenRow]
      /\ TablesInv'
      /\ \A t \in Tokens : token[t].status # "unborn" =>
              /\ token'[t].status # "unborn"
              /\ token'[t].user = token[t].user
              /\ token'[t].status = "live" => token[t].status = "live"
      /\ \A t \in Tokens : TokenExists(t)' => TokenExists(t)
  BY <1>2, <1>3, SettledTables
<1> QED BY <1>4, CommitInv

LEMMA LogoutCommitInv == ASSUME IInv, NEW r \in Requests, LogoutCommit(r) PROVE IInv'
<1>1. token \in [Tokens -> TokenRow] /\ UNCHANGED user /\ End(r) /\ user \in [Users -> UserRow]
  BY DEF IInv, TypeOK, LogoutCommit
<1>2. req[r].token \in Tokens /\ Holds(r, TokenLock(req[r].token))
  BY DEF LogoutCommit, Done, IInv, RequestInv, SlotInv, LogoutInv
<1>3. token' = [token EXCEPT ![req[r].token].status = "revoked"]
  BY DEF LogoutCommit
<1>4. /\ token' = [t \in Tokens |-> token'[t]]
      /\ \A t \in Tokens : token'[t] = IF t = req[r].token THEN [token[t] EXCEPT !.status = "revoked"]
                                       ELSE token[t]
  BY <1>1, <1>2, <1>3
<1> QED BY <1>1, <1>2, <1>4, SettleInv

\* What RevokeHeld and DeleteHeld do, for every token.
LEMMA RevokeIs ==
  ASSUME NEW r \in Requests, token' = [t \in Tokens |-> RevokeHeld(r, t)]
  PROVE  /\ token' = [t \in Tokens |-> token'[t]]
         /\ \A t \in Tokens : \/ token'[t] = token[t] /\ ~(t \in req[r].rows /\ Holds(r, TokenLock(t)))
                              \/ /\ Holds(r, TokenLock(t))
                                 /\ token'[t] = [token[t] EXCEPT !.status = "revoked"]
  BY DEF RevokeHeld

LEMMA DeleteIs ==
  ASSUME NEW r \in Requests, token' = [t \in Tokens |-> DeleteHeld(r, t)]
  PROVE  /\ token' = [t \in Tokens |-> token'[t]]
         /\ \A t \in Tokens : \/ token'[t] = token[t] /\ ~Holds(r, TokenLock(t))
                              \/ /\ Holds(r, TokenLock(t))
                                 /\ token'[t] = [token[t] EXCEPT !.status = "deleted"]
  BY DEF DeleteHeld

LEMMA UserCommitInv ==
  ASSUME IInv, NEW r \in Requests,
         ChangePasswordCommit(r) \/ BlockCommit(r) \/ UnblockCommit(r) \/ PurgeCommit(r)
  PROVE  IInv'
<1>0. user \in [Users -> UserRow] /\ token \in [Tokens -> TokenRow] /\ RequestInv(r, req[r])
  BY DEF IInv, TypeOK
<1>1. CASE ChangePasswordCommit(r)
  <2>1. user' \in [Users -> UserRow] /\ \A u \in Users : user'[u].exists = user[u].exists
    <3> DEFINE u == req[r].user
               row == [user[u] EXCEPT !.password = user[u].password + 1]
    <3>1. u \in Users
      BY <1>0, <1>1 DEF ChangePasswordCommit, Done, RequestInv, SlotInv
    <3>2. row \in UserRow /\ row.exists = user[u].exists
      BY <1>0, <3>1 DEF UserRow
    <3>3. user' = [user EXCEPT ![u] = row]
      BY <1>1 DEF ChangePasswordCommit
    <3> HIDE DEF row, u
    <3> QED BY <1>0, <3>1, <3>2, <3>3
  <2> QED BY <1>1, <2>1, RevokeIs, SettleInv DEF ChangePasswordCommit
<1>2. CASE BlockCommit(r)
  <2>1. user' \in [Users -> UserRow] /\ \A u \in Users : user'[u].exists = user[u].exists
    BY <1>0, <1>2 DEF BlockCommit, UserRow
  <2> QED BY <1>2, <2>1, RevokeIs, SettleInv DEF BlockCommit
<1>3. CASE UnblockCommit(r)
  <2>1. user' \in [Users -> UserRow] /\ \A u \in Users : user'[u].exists = user[u].exists
    BY <1>0, <1>3 DEF UnblockCommit, UserRow
  <2>2. token' = [t \in Tokens |-> token'[t]] /\ \A t \in Tokens : token'[t] = token[t]
    BY <1>0, <1>3 DEF UnblockCommit
  <2> QED BY <1>3, <2>1, <2>2, SettleInv DEF UnblockCommit
<1>4. CASE PurgeCommit(r)
  BY <1>0, <1>4, DeleteIs, SettleInv DEF PurgeCommit
<1> QED BY <1>1, <1>2, <1>3, <1>4

\* No token is left when its user is deleted.
LEMMA DeleteUserCommitInv == ASSUME IInv, NEW r \in Requests, DeleteUserCommit(r) PROVE IInv'
<1> DEFINE u == req[r].user
<1>0. /\ user \in [Users -> UserRow] /\ token \in [Tokens -> TokenRow] /\ RequestInv(r, req[r])
      /\ req[r].op = "delete_user" /\ req[r].pc = "commit" /\ End(r)
      /\ user' = [user EXCEPT ![u].exists = FALSE]
      /\ token' = [t \in Tokens |-> DeleteHeld(r, t)]
  BY DEF IInv, TypeOK, DeleteUserCommit, Done
<1>1. u \in Users
  BY <1>0 DEF RequestInv, SlotInv
<1>2. /\ user' \in [Users -> UserRow]
      /\ \A x \in Users : user'[x].exists = (user[x].exists /\ x # u)
  BY <1>0, <1>1 DEF UserRow
<1>3. \A t \in Tokens : Holds(r, TokenLock(t)) => TokenExists(t)
  BY DEF IInv, HeldExist, Holds
<1>4. /\ token' = [t \in Tokens |-> token'[t]]
      /\ \A t \in Tokens : \/ token'[t] = token[t] /\ ~Holds(r, TokenLock(t))
                           \/ /\ Holds(r, TokenLock(t))
                              /\ token'[t] = [token[t] EXCEPT !.status = "deleted"]
  BY <1>0, DeleteIs
<1>5. ASSUME NEW t \in Tokens, TokenExists(t)' PROVE user'[token'[t].user].exists
  <2>1. token'[t] = token[t] /\ ~Holds(r, TokenLock(t))
    BY <1>0, <1>4, <1>5 DEF TokenExists, TokenRow
  <2>2. TokenExists(t) /\ token[t].user \in Users /\ user[token[t].user].exists
    BY <1>5, <2>1 DEF IInv, TablesInv, RowInv, NoOrphanToken, TokenExists
  <2>3. token[t].user # u
    BY <1>0, <2>1, <2>2 DEF RequestInv, DeleteInv, TokensOf
  <2> QED BY <1>2, <2>1, <2>2, <2>3
<1>6. /\ token' \in [Tokens -> TokenRow]
      /\ TablesInv'
      /\ \A t \in Tokens : token[t].status # "unborn" =>
              /\ token'[t].status # "unborn"
              /\ token'[t].user = token[t].user
              /\ token'[t].status = "live" => token[t].status = "live"
      /\ \A t \in Tokens : TokenExists(t)' => TokenExists(t)
  BY <1>3, <1>4, <1>5, SettledTables
<1>7. ASSUME NEW s \in Requests \ {r}, NEW x \in Users, s \in sharers[x]
      PROVE  user'[x].exists = user[x].exists
  <2>1. CASE x = u /\ user[u].exists
    <3>1. Holds(r, UserLock(u))
      BY <1>0, <2>1 DEF RequestInv, DeleteInv
    <3>2. sharers[u] \subseteq {r}
      BY <1>0, <1>1, <3>1 DEF IInv, DeleteExcludes, NoKey
    <3> QED BY <1>7, <2>1, <3>2
  <2>2. user[x].exists \in BOOLEAN
    BY <1>0 DEF UserRow
  <2> QED BY <1>2, <2>1, <2>2
<1> QED BY <1>0, <1>2, <1>4, <1>6, <1>7, CommitInv

\* An INSERT: a new row n, and perhaps an old one t that it replaces.
LEMMA InsertInv ==
  ASSUME IInv, NEW r \in Requests, End(r), UNCHANGED user,
         req[r].op \in {"login", "refresh"}, req[r].pc = "commit",
         NEW n \in Tokens, NextToken(n),
         token' \in [Tokens -> TokenRow], TablesInv',
         token'[n].user = req[r].user,
         \A t \in Tokens \ {n} :
           /\ token'[t].user = token[t].user
           /\ token[t].status # "unborn" => token'[t].status # "unborn"
           /\ token'[t].status = "live" => token[t].status = "live"
           /\ token'[t] = token[t] \/ Holds(r, TokenLock(t))
  PROVE  IInv'
<1>0. user \in [Users -> UserRow] /\ RequestInv(r, req[r])
  BY DEF IInv, TypeOK
<1>1. token[n].status = "unborn"
  BY DEF NextToken, Unborn
<1>2. \A t \in Tokens : Holds(r, TokenLock(t)) => TokenExists(t)
  BY DEF IInv, HeldExist, Holds
<1>3. req[r].user \in Users /\ user[req[r].user].exists /\ r \in sharers[req[r].user]
  BY <1>0 DEF RequestInv, SlotInv, ShareInv, IInv, TablesInv, RowInv
<1>4. ASSUME NEW s \in Requests \ {r}, req[s].op = "delete_user", req[s].pc = "commit"
      PROVE  req[s].user # req[r].user
  <2>1. DeleteInv(s, req[s])
    BY DEF IInv, RequestInv
  <2> QED BY <1>3, <1>4, <2>1 DEF DeleteInv, IInv, DeleteExcludes, NoKey
<1>5. ASSUME NEW t \in Tokens, TokenExists(t)', ~TokenExists(t) PROVE t = n
  BY <1>2, <1>5 DEF TokenExists
<1> QED BY <1>0, <1>1, <1>4, <1>5, CommitInv

\* What is known of the numbers of tokens when the next one is given out.
LEMMA NextIs ==
  ASSUME IInv, NEW n \in Tokens, NextToken(n)
  PROVE  /\ token[n].status = "unborn" /\ token[n].session = NoToken
         /\ \A t \in Tokens : token[t].status # "unborn" <=> t < n
         /\ \A t \in Tokens : token[t].status # "unborn" => token[t].session # n /\ token[t].by # n
<1>1. \A t \in Tokens : RowInv(t)
  BY DEF IInv, TablesInv
<1>2. token[n].status = "unborn" /\ \A x \in Tokens : token[x].status = "unborn" => n <= x
  BY DEF NextToken, Unborn
<1>3. \A t \in Tokens : token[t].status # "unborn" <=> t < n
  BY <1>1, <1>2 DEF RowInv, Tokens
<1>4. \A t \in Tokens : token[t].status # "unborn" => token[t].session # n /\ token[t].by # n
  BY <1>1, <1>2 DEF RowInv, IInv, TablesInv, ChainIsTrue, NoToken, Tokens
<1> QED BY <1>1, <1>2, <1>3, <1>4 DEF RowInv

LEMMA LoginCommitInv == ASSUME IInv, NEW r \in Requests, LoginCommit(r) PROVE IInv'
<1>0. /\ user \in [Users -> UserRow] /\ token \in [Tokens -> TokenRow] /\ RequestInv(r, req[r])
      /\ req[r].op = "login" /\ req[r].pc = "commit" /\ End(r) /\ UNCHANGED user
  BY DEF IInv, TypeOK, LoginCommit, Done
<1>1. PICK n \in Tokens : NextToken(n) /\ token' = [token EXCEPT ![n] = NewToken(req[r].user, n)]
  BY DEF LoginCommit
<1>2. req[r].user \in Users /\ user[req[r].user].exists
  BY <1>0 DEF RequestInv, SlotInv, ShareInv
<1>3. /\ token'[n] = NewToken(req[r].user, n) /\ NewToken(req[r].user, n) \in TokenRow
      /\ \A t \in Tokens \ {n} : token'[t] = token[t]
      /\ token' \in [Tokens -> TokenRow]
  BY <1>0, <1>1, <1>2 DEF NewToken, TokenRow
<1>4. /\ token'[n].status = "live" /\ token'[n].user = req[r].user /\ token'[n].by = NoToken
      /\ token'[n].session = n
  BY <1>3 DEF NewToken
<1>5. \A t \in Tokens : RowInv(t)
  BY DEF IInv, TablesInv
<1>6. \A t \in Tokens : RowInv(t)'
  BY <1>1, <1>2, <1>3, <1>4, <1>5, NextIs DEF RowInv, Tokens
<1>7. OneLiveToken'
  BY <1>1, <1>3, <1>4, <1>5, NextIs DEF IInv, TablesInv, OneLiveToken, RowInv
<1>8. ChainIsTrue'
  <2> SUFFICES ASSUME NEW t \in Tokens, token'[t].by # NoToken
               PROVE  /\ token'[t].status # "live"
                      /\ token'[t].by > t
                      /\ token'[token'[t].by].status # "unborn"
                      /\ token'[token'[t].by].session = token'[t].session
                      /\ token'[token'[t].by].user = token'[t].user
    BY DEF ChainIsTrue
  <2>1. t # n /\ token'[t] = token[t]
    BY <1>3, <1>4
  <2>2. token[t].by \in Tokens /\ token[t].status # "unborn"
    BY <1>0, <1>5, <2>1 DEF TokenRow, RowInv
  <2>3. token'[token[t].by] = token[token[t].by]
    BY <1>1, <1>3, <2>2, NextIs
  <2> QED BY <2>1, <2>2, <2>3 DEF IInv, TablesInv, ChainIsTrue
<1>9. NoOrphanToken'
  BY <1>0, <1>2, <1>3, <1>4 DEF IInv, TablesInv, NoOrphanToken, TokenExists
<1> QED BY <1>0, <1>1, <1>3, <1>4, <1>6, <1>7, <1>8, <1>9, InsertInv DEF TablesInv

LEMMA RefreshCommitInv == ASSUME IInv, NEW r \in Requests, RefreshCommit(r) PROVE IInv'
<1> DEFINE o == req[r].token
<1>0. /\ user \in [Users -> UserRow] /\ token \in [Tokens -> TokenRow] /\ RequestInv(r, req[r])
      /\ req[r].op = "refresh" /\ req[r].pc = "commit" /\ End(r) /\ UNCHANGED user
  BY DEF IInv, TypeOK, RefreshCommit, Done
<1>1. PICK n \in Tokens :
        /\ NextToken(n)
        /\ token' = [token EXCEPT ![o].status = "revoked", ![o].by = n,
                                  ![n] = NewToken(token[o].user, token[o].session)]
  BY DEF RefreshCommit
<1>2. /\ o \in Tokens /\ Holds(r, TokenLock(o)) /\ token[o].status = "live"
      /\ req[r].user = token[o].user /\ user[token[o].user].exists
  BY <1>0 DEF RequestInv, SlotInv, RefreshInv, ShareInv
<1>3. \A t \in Tokens : RowInv(t)
  BY DEF IInv, TablesInv
<1>4. o # n /\ o < n /\ token[o].user \in Users /\ token[o].session \in Tokens
  BY <1>1, <1>2, <1>3, NextIs DEF RowInv
<1>5. /\ NewToken(token[o].user, token[o].session) \in TokenRow
      /\ [token[o] EXCEPT !.status = "revoked", !.by = n] \in TokenRow
  BY <1>0, <1>2, <1>4 DEF NewToken, TokenRow
<1>6. /\ token'[n] = NewToken(token[o].user, token[o].session)
      /\ token'[o] = [token[o] EXCEPT !.status = "revoked", !.by = n]
      /\ \A t \in Tokens \ {n, o} : token'[t] = token[t]
      /\ token' \in [Tokens -> TokenRow]
  BY <1>0, <1>1, <1>2, <1>4, <1>5
<1>7. /\ token'[n].status = "live" /\ token'[n].user = token[o].user /\ token'[n].by = NoToken
      /\ token'[n].session = token[o].session
      /\ token'[o].status = "revoked" /\ token'[o].user = token[o].user /\ token'[o].by = n
      /\ token'[o].session = token[o].session
  BY <1>0, <1>2, <1>6 DEF NewToken, TokenRow
<1>8. \A t \in Tokens : RowInv(t)'
  <2> HIDE DEF o
  <2> SUFFICES ASSUME NEW t \in Tokens PROVE RowInv(t)'
    OBVIOUS
  <2>1. /\ token'[t].status = "unborn" <=> token[t].status = "unborn" /\ t # n
        /\ t # n => token'[t].session = token[t].session /\ token'[t].user = token[t].user
    BY <1>2, <1>4, <1>6, <1>7
  <2>2. \A x \in Tokens : token'[x].status = "unborn" <=> token[x].status = "unborn" /\ x # n
    BY <1>2, <1>4, <1>6, <1>7
  <2>3. \A x \in Tokens : token[x].status # "unborn" => token'[x].session = token[x].session
    BY <1>1, <1>2, <1>4, <1>6, <1>7, NextIs
  <2>4. CASE t = n
    BY <1>2, <1>3, <1>4, <1>7, <2>2, <2>3, <2>4 DEF RowInv
  <2>5. CASE t # n
    <3>1. RowInv(t)
      BY <1>3
    <3>2. CASE token[t].status = "unborn"
      <4>1. t # o /\ token'[t] = token[t]
        BY <1>2, <1>6, <2>5, <3>2
      <4>2. n < t
        BY <1>1, <2>5, <3>2, NextIs DEF Tokens
      <4>3. \A x \in Tokens : t <= x => token'[x].status = "unborn"
        BY <2>2, <3>1, <3>2, <4>2 DEF RowInv, Tokens
      <4> QED BY <3>1, <3>2, <4>1, <4>3 DEF RowInv
    <3>3. CASE token[t].status # "unborn"
      <4>1. /\ token[t].user \in Users /\ token[t].session \in Tokens
            /\ token[token[t].session].status # "unborn"
            /\ token[token[t].session].session = token[t].session
        BY <3>1, <3>3 DEF RowInv
      <4>2. token'[token[t].session].status # "unborn"
        BY <2>2, <4>1
      <4>3. token'[token[t].session].session = token[t].session
        BY <2>3, <4>1
      <4> QED BY <2>1, <2>5, <3>3, <4>1, <4>2, <4>3 DEF RowInv
    <3> QED BY <3>2, <3>3
  <2> QED BY <2>4, <2>5
<1>9. OneLiveToken'
  <2> HIDE DEF o
  <2> QED BY <1>1, <1>2, <1>3, <1>4, <1>6, <1>7, NextIs DEF IInv, TablesInv, OneLiveToken, RowInv
<1>10. ChainIsTrue'
  <2> HIDE DEF o
  <2> SUFFICES ASSUME NEW t \in Tokens, token'[t].by # NoToken
               PROVE  /\ token'[t].status # "live"
                      /\ token'[t].by > t
                      /\ token'[token'[t].by].status # "unborn"
                      /\ token'[token'[t].by].session = token'[t].session
                      /\ token'[token'[t].by].user = token'[t].user
    BY DEF ChainIsTrue
  <2>1. CASE t = o
    BY <1>2, <1>4, <1>7, <2>1
  <2>2. CASE t # o
    <3>1. t # n /\ token'[t] = token[t]
      BY <1>6, <1>7, <2>2
    <3>2. token[t].by \in Tokens /\ token[t].status # "unborn"
      BY <1>0, <1>3, <3>1 DEF TokenRow, RowInv
    <3>3. token[t].by # n
      BY <1>1, <3>2, NextIs
    <3>4. /\ token'[token[t].by].session = token[token[t].by].session
          /\ token'[token[t].by].user = token[token[t].by].user
          /\ token[token[t].by].status # "unborn" => token'[token[t].by].status # "unborn"
      BY <1>6, <1>7, <3>2, <3>3
    <3> QED BY <3>1, <3>2, <3>4 DEF IInv, TablesInv, ChainIsTrue
  <2> QED BY <2>1, <2>2
<1>11. NoOrphanToken'
  <2> HIDE DEF o
  <2> SUFFICES ASSUME NEW t \in Tokens, TokenExists(t)' PROVE user'[token'[t].user].exists
    BY DEF NoOrphanToken
  <2>1. CASE t \in {n, o}
    BY <1>0, <1>2, <1>7, <2>1
  <2>2. CASE t \notin {n, o}
    <3>1. token'[t] = token[t]
      BY <1>6, <2>2
    <3> QED BY <1>0, <3>1 DEF IInv, TablesInv, NoOrphanToken, TokenExists
  <2> QED BY <2>1, <2>2
<1>12. \A t \in Tokens \ {n} :
           /\ token'[t].user = token[t].user
           /\ token[t].status # "unborn" => token'[t].status # "unborn"
           /\ token'[t].status = "live" => token[t].status = "live"
           /\ token'[t] = token[t] \/ Holds(r, TokenLock(t))
  BY <1>2, <1>6, <1>7
<1>13. TablesInv' /\ token'[n].user = req[r].user /\ token' \in [Tokens -> TokenRow] /\ NextToken(n)
  BY <1>1, <1>2, <1>6, <1>7, <1>8, <1>9, <1>10, <1>11 DEF TablesInv
<1> QED BY <1>0, <1>12, <1>13, InsertInv

LEMMA ExpireInv == ASSUME IInv, NEW t \in Tokens, Expire(t) PROVE IInv'
<1>0. /\ user \in [Users -> UserRow] /\ token \in [Tokens -> TokenRow] /\ UNCHANGED <<user, req, owner, sharers>>
      /\ token' = [token EXCEPT ![t].expired = TRUE]
  BY DEF IInv, TypeOK, Expire
<1>1. /\ [token[t] EXCEPT !.expired = TRUE] \in TokenRow
      /\ token' \in [Tokens -> TokenRow]
      /\ \A x \in Tokens : /\ token'[x].status = token[x].status /\ token'[x].user = token[x].user
                           /\ token'[x].by = token[x].by /\ token'[x].session = token[x].session
                           /\ TokenExists(x)' <=> TokenExists(x)
  BY <1>0 DEF TokenRow, TokenExists
<1>2. TypeOK'
  BY <1>0, <1>1 DEF IInv, TypeOK
<1>3. (\A x \in Tokens : RowInv(x))' /\ OneLiveToken'
  BY <1>1 DEF IInv, TablesInv, RowInv, OneLiveToken
<1>4. ChainIsTrue'
  <2> SUFFICES ASSUME NEW x \in Tokens, token'[x].by # NoToken
               PROVE  /\ token'[x].status # "live"
                      /\ token'[x].by > x
                      /\ token'[token'[x].by].status # "unborn"
                      /\ token'[token'[x].by].session = token'[x].session
                      /\ token'[token'[x].by].user = token'[x].user
    BY DEF ChainIsTrue
  <2>1. token[x].by \in Tokens
    BY <1>0, <1>1 DEF TokenRow
  <2> QED BY <1>1, <2>1 DEF IInv, TablesInv, ChainIsTrue
<1>5. NoOrphanToken' /\ HeldExist' /\ DeleteExcludes'
  BY <1>0, <1>1 DEF IInv, TablesInv, NoOrphanToken, HeldExist, DeleteExcludes, NoKey, Holds
<1>6. ASSUME NEW s \in Requests PROVE RequestInv(s, req[s])'
  <2>1. RequestInv(s, req[s]) /\ req[s] \in Request
    BY DEF IInv, TypeOK
  <2>2. SlotInv(s, req[s])' /\ RefreshInv(s, req[s])' /\ LogoutInv(s, req[s])' /\ RevokeInv(s, req[s])'
    BY <1>0, <1>1, <2>1 DEF RequestInv, SlotInv, RefreshInv, LogoutInv, RevokeInv, Request, Holds
  <2>3. ShareInv(s, req[s])' /\ DeleteInv(s, req[s])'
    BY <1>0, <1>1, <2>1 DEF RequestInv, ShareInv, DeleteInv, TokensOf, Holds
  <2> QED BY <2>2, <2>3 DEF RequestInv
<1> QED BY <1>2, <1>3, <1>4, <1>5, <1>6 DEF IInv, TablesInv

-----------------------------------------------------------------------------
(***************************************************************************)
(* The theorems about states                                               *)
(***************************************************************************)

LEMMA InitInv == Init => IInv
<1> SUFFICES ASSUME Init PROVE IInv
  OBVIOUS
<1>1. TypeOK
  BY IdleIsRequest DEF Init, TypeOK, UserRow, TokenRow
<1>2. TablesInv /\ HeldExist
  BY LocksAreRows DEF Init, TablesInv, RowInv, OneLiveToken, ChainIsTrue, NoOrphanToken, TokenExists, HeldExist
<1>3. DeleteExcludes
  BY DEF Init, DeleteExcludes
<1>4. ASSUME NEW r \in Requests PROVE RequestInv(r, req[r])
  <2>1. req[r] = Idle /\ (\A w \in Rows : ~Holds(r, w)) /\ \A u \in Users : r \notin sharers[u]
    BY DEF Init, Holds
  <2> QED BY <1>1, <2>1, IdleInv
<1> QED BY <1>1, <1>2, <1>3, <1>4 DEF IInv

\* The commits, by which the tables change.
Commits(r) == \/ LoginCommit(r) \/ RefreshCommit(r) \/ LogoutCommit(r) \/ ChangePasswordCommit(r)
              \/ BlockCommit(r) \/ UnblockCommit(r) \/ DeleteUserCommit(r) \/ PurgeCommit(r)

\* Every other step of a request leaves them.
LEMMA StepIs ==
  ASSUME [Next]_vars
  PROVE  \/ UNCHANGED <<user, token>>
         \/ \E t \in Tokens : Expire(t)
         \/ \E r \in Requests : Commits(r)
<1>1. ASSUME NEW r \in Requests, ArriveWithToken(r) \/ ArriveForUser(r) \/ ArrivePurge(r)
      PROVE  UNCHANGED <<user, token>>
  BY <1>1 DEF ArriveWithToken, ArriveForUser, ArrivePurge, Arrive, GoOn
<1>2. ASSUME NEW r \in Requests, LockRow(r) \/ DeadlockAbort(r) \/ Crash(r)
      PROVE  UNCHANGED <<user, token>>
  BY <1>2 DEF LockRow, DeadlockAbort, Crash, Rollback
<1>3. ASSUME NEW r \in Requests, Handle(r) PROVE UNCHANGED <<user, token>> \/ Commits(r)
  BY <1>3 DEF Handle, Commits, Login, Refresh, Logout, ChangePassword, Block, Unblock, DeleteUser, Purge,
     LoginReadUser, Insert, RefreshLockToken, RefreshReadUser, RefreshReject, LogoutReadToken,
     LogoutWriteToken, ChangePasswordRead, BlockRead, UnblockRead, WriteUser, DeleteUserRead,
     DeleteUserRow, DeleteUserCascade, PurgeBegins, PurgeEnds, RevokeAllBegins, RevokeAllEnds,
     Check, GoTo, GoOn, Rollback
<1> QED BY <1>1, <1>2, <1>3 DEF Next, Progress, vars

LEMMA HandleInv == ASSUME IInv, NEW r \in Requests, Handle(r) PROVE IInv'
<1>1. CASE Login(r) \/ Refresh(r) \/ Logout(r)
  BY <1>1, LoginLooksInv, RefreshLooksInv, LogoutLooksInv, LoginCommitInv, RefreshCommitInv, LogoutCommitInv
     DEF Login, Refresh, Logout
<1>2. CASE ChangePassword(r) \/ Block(r) \/ Unblock(r)
  BY <1>2, UserLooksInv, UserCommitInv DEF ChangePassword, Block, Unblock
<1>3. CASE DeleteUser(r)
  BY <1>3, DeleteLooksInv, DeleteUserCommitInv DEF DeleteUser
<1>4. CASE Purge(r) \/ RevokeAllBegins(r) \/ RevokeAllEnds(r)
  BY <1>4, BulkInv, UserCommitInv DEF Purge
<1> QED BY <1>1, <1>2, <1>3, <1>4 DEF Handle

LEMMA StepInv == IInv /\ [Next]_vars => IInv'
<1> SUFFICES ASSUME IInv, [Next]_vars PROVE IInv'
  OBVIOUS
<1>1. CASE UNCHANGED vars
  <2>1. UNCHANGED <<user, token, req, owner, sharers>>
    BY <1>1 DEF vars
  <2>2. TypeOK' /\ TablesInv' /\ HeldExist' /\ DeleteExcludes'
    BY <2>1 DEF IInv, TypeOK, TablesInv, RowInv, OneLiveToken, ChainIsTrue, NoOrphanToken, TokenExists,
       HeldExist, DeleteExcludes, NoKey, Holds
  <2>3. ASSUME NEW s \in Requests PROVE RequestInv(s, req[s])'
    <3>1. RequestInv(s, req[s])
      BY DEF IInv
    <3> QED BY <2>1, <3>1 DEF RequestInv, SlotInv, RefreshInv, LogoutInv, ShareInv, DeleteInv, RevokeInv,
            Holds, TokensOf, TokenExists
  <2> QED BY <2>2, <2>3 DEF IInv
<1>2. ASSUME NEW t \in Tokens, Expire(t) PROVE IInv'
  BY <1>2, ExpireInv
<1>3. ASSUME NEW r \in Requests, LockRow(r) PROVE IInv'
  BY <1>3, ShareRowInv, OwnRowInv
<1>4. ASSUME NEW r \in Requests, DeadlockAbort(r) \/ Crash(r) PROVE IInv'
  BY <1>4, RollbackInv DEF DeadlockAbort, Crash
<1> QED BY <1>1, <1>2, <1>3, <1>4, ArriveInv, HandleInv DEF Next, Progress

\* Tables, requests and locks agree with each other at all times.
THEOREM Invariance == Spec => []IInv
  BY InitInv, StepInv, PTL DEF Spec

\* The types of the tables, the requests and the locks.
THEOREM TypeCorrect == Spec => []TypeOK
<1>1. IInv => TypeOK
  BY DEF IInv
<1> QED BY <1>1, Invariance, PTL

\* However many clients present one token, its session never has two live ones.
THEOREM OnlyOneLiveToken == Spec => []OneLiveToken
<1>1. IInv => OneLiveToken
  BY DEF IInv, TablesInv
<1> QED BY <1>1, Invariance, PTL

\* replaced_by_id tells the truth about exchanges.
THEOREM ChainsAreTrue == Spec => []ChainIsTrue
<1>1. IInv => ChainIsTrue
  BY DEF IInv, TablesInv
<1> QED BY <1>1, Invariance, PTL

\* The cascade misses no token, whatever is inserted while a user is deleted.
THEOREM NoTokenIsOrphaned == Spec => []NoOrphanToken
<1>1. IInv => NoOrphanToken
  BY DEF IInv, TablesInv
<1> QED BY <1>1, Invariance, PTL

-----------------------------------------------------------------------------
(***************************************************************************)
(* What a step may do to sessions                                          *)
(***************************************************************************)

\* The commit of a revocation leaves none of the tokens that it found live.
LEMMA RevocationIs ==
  ASSUME IInv, NEW r \in Requests, req[r].op \in {"change_password", "block"}, req[r].pc = "commit",
         token' = [t \in Tokens |-> RevokeHeld(r, t)], NEW u \in Users
  PROVE  LiveTokensOf(u)' \subseteq LiveTokensOf(u) \ req[r].rows
<1> SUFFICES ASSUME NEW t \in LiveTokensOf(u)' PROVE t \in LiveTokensOf(u) \ req[r].rows
  OBVIOUS
<1>1. t \in Tokens /\ token'[t].status = "live" /\ token'[t].user = u /\ token[t] \in TokenRow
  BY DEF LiveTokensOf, TokensOf, TokenExists, IInv, TypeOK
<1>2. token'[t] = token[t] /\ ~(t \in req[r].rows /\ Holds(r, TokenLock(t)))
  BY <1>1, RevokeIs DEF TokenRow
<1>3. token[t].status = "live" /\ t \in req[r].rows => Holds(r, TokenLock(t))
  BY <1>1 DEF IInv, RequestInv, RevokeInv
<1> QED BY <1>1, <1>2, <1>3 DEF LiveTokensOf, TokensOf, TokenExists

\* A password change and a block reach every token that was live when their UPDATE began.
THEOREM RevocationsReach == Spec => RevocationReaches
<1>1. ASSUME IInv, [Next]_vars, NEW u \in Users, Ended(u)
      PROVE  \E r \in Requests :
               /\ req[r].user = u /\ req[r].pc = "commit" /\ req'[r] = Idle
               /\ LiveTokensOf(u)' \subseteq LiveTokensOf(u) \ req[r].rows
  <2>0. user \in [Users -> UserRow]
    BY <1>1 DEF IInv, TypeOK
  <2>1. user' # user
    BY <1>1 DEF Ended
  <2>2. PICK r \in Requests : Commits(r)
    BY <1>1, <2>1, StepIs DEF Expire
  <2>3. req[r].pc = "commit" /\ End(r)
    BY <2>2 DEF Commits, LoginCommit, RefreshCommit, LogoutCommit, ChangePasswordCommit, BlockCommit,
       UnblockCommit, DeleteUserCommit, PurgeCommit, Done
  <2>4. req'[r] = Idle
    BY <1>1, <2>3, EndIs DEF IInv
  <2>5. CASE ChangePasswordCommit(r)
    <3>1. req[r].user = u
      BY <1>1, <2>0, <2>5 DEF ChangePasswordCommit, Ended, UserRow
    <3> QED BY <1>1, <2>3, <2>4, <2>5, <3>1, RevocationIs DEF ChangePasswordCommit, Done
  <2>6. CASE BlockCommit(r)
    <3>1. req[r].user = u
      BY <1>1, <2>0, <2>6 DEF BlockCommit, Ended, UserRow
    <3> QED BY <1>1, <2>3, <2>4, <2>6, <3>1, RevocationIs DEF BlockCommit, Done
  <2>7. CASE UnblockCommit(r) \/ DeleteUserCommit(r)
    <3>1. user'[u].password = user[u].password
      BY <2>0, <2>7 DEF UnblockCommit, DeleteUserCommit, UserRow
    <3>2. user[u].active => user'[u].active
      BY <2>0, <2>7 DEF UnblockCommit, DeleteUserCommit, UserRow
    <3> QED BY <1>1, <3>1, <3>2 DEF Ended
  <2> QED BY <2>1, <2>2, <2>5, <2>6, <2>7 DEF Commits, LoginCommit, RefreshCommit, LogoutCommit, PurgeCommit
<1>2. IInv /\ [Next]_vars
      => [\A u \in Users : Ended(u) =>
            \E r \in Requests :
              /\ req[r].user = u /\ req[r].pc = "commit" /\ req'[r] = Idle
              /\ LiveTokensOf(u)' \subseteq LiveTokensOf(u) \ req[r].rows]_vars
  BY <1>1
<1> QED BY <1>2, Invariance, PTL DEF Spec, RevocationReaches

SessionMap == [s \in Tokens |-> SessionState(s)]

\* Tokens that are no longer live end sessions.
LEMMA EndsSessions ==
  ASSUME \A t \in Tokens : token'[t].session = token[t].session,
         \A t \in Tokens : token'[t].status = "live" => token[t].status = "live"
  PROVE  \E S \in SUBSET Tokens : /\ \A s \in S : SessionState(s) = "live"
                                  /\ SessionMap' = [s \in Tokens |-> IF s \in S THEN "ended"
                                                                     ELSE SessionState(s)]
<1> DEFINE S == {s \in Tokens : SessionState(s) = "live" /\ SessionState(s)' # "live"}
<1>1. \A s \in Tokens : SessionState(s)' = IF s \in S THEN "ended" ELSE SessionState(s)
  BY DEF SessionState
<1> QED BY <1>1 DEF SessionMap

\* What an exchange and a login do.
LEMMA ExchangeKeeps ==
  ASSUME IInv, NEW r \in Requests, RefreshCommit(r) PROVE \A s \in Tokens : SessionState(s)' = SessionState(s)
<1> DEFINE o == req[r].token
<1>0. token \in [Tokens -> TokenRow] /\ RequestInv(r, req[r]) /\ req[r].op = "refresh" /\ req[r].pc = "commit"
  BY DEF IInv, TypeOK, RefreshCommit, Done
<1>1. PICK n \in Tokens :
        /\ NextToken(n)
        /\ token' = [token EXCEPT ![o].status = "revoked", ![o].by = n,
                                  ![n] = NewToken(token[o].user, token[o].session)]
  BY DEF RefreshCommit
<1>2. o \in Tokens /\ token[o].status = "live" /\ o # n
  BY <1>0, <1>1, NextIs DEF RequestInv, SlotInv, RefreshInv
<1>3. /\ token'[n].status = "live" /\ token'[n].session = token[o].session
      /\ token'[o].status = "revoked" /\ token'[o].session = token[o].session
      /\ \A t \in Tokens \ {n, o} : token'[t] = token[t]
  BY <1>0, <1>1, <1>2 DEF NewToken, TokenRow
<1>4. token[n].session # n /\ token[n].status # "live" /\ token[o].session # n
  BY <1>1, <1>2, NextIs DEF NoToken, Tokens
<1> QED
  <2> HIDE DEF o
  <2> SUFFICES ASSUME NEW s \in Tokens PROVE SessionState(s)' = SessionState(s)
    OBVIOUS
  <2>1. token'[s].session = s <=> token[s].session = s
    BY <1>2, <1>3, <1>4
  <2>2. (\E t \in Tokens : token'[t].status = "live" /\ token'[t].session = s)
        <=> (\E t \in Tokens : token[t].status = "live" /\ token[t].session = s)
    BY <1>2, <1>3, <1>4
  <2> QED BY <2>1, <2>2 DEF SessionState

LEMMA LoginOpens ==
  ASSUME IInv, NEW r \in Requests, LoginCommit(r)
  PROVE  \E n \in Tokens : /\ SessionState(n) = "none" /\ SessionState(n)' = "live"
                           /\ \A s \in Tokens \ {n} : SessionState(s)' = SessionState(s)
<1>0. token \in [Tokens -> TokenRow]
  BY DEF IInv, TypeOK
<1>1. PICK n \in Tokens : NextToken(n) /\ token' = [token EXCEPT ![n] = NewToken(req[r].user, n)]
  BY DEF LoginCommit
<1>2. /\ token'[n].status = "live" /\ token'[n].session = n
      /\ \A t \in Tokens \ {n} : token'[t] = token[t]
      /\ token[n].status # "live" /\ token[n].session # n
  BY <1>0, <1>1, NextIs DEF NewToken, NoToken, Tokens
<1>3. SessionState(n) = "none" /\ SessionState(n)' = "live"
  BY <1>2 DEF SessionState
<1>4. ASSUME NEW s \in Tokens \ {n} PROVE SessionState(s)' = SessionState(s)
  BY <1>2 DEF SessionState
<1> QED BY <1>3, <1>4

\* A revocation or deletion of tokens.
LEMMA SettlingEnds ==
  ASSUME IInv, NEW r \in Requests,
         \/ LogoutCommit(r) \/ ChangePasswordCommit(r) \/ BlockCommit(r) \/ UnblockCommit(r)
         \/ DeleteUserCommit(r) \/ PurgeCommit(r)
  PROVE  /\ \A t \in Tokens : token'[t].session = token[t].session
         /\ \A t \in Tokens : token'[t].status = "live" => token[t].status = "live"
<1>0. token \in [Tokens -> TokenRow]
  BY DEF IInv, TypeOK
<1>1. \A t \in Tokens : \/ token'[t] = token[t]
                        \/ token'[t] = [token[t] EXCEPT !.status = "revoked"]
                        \/ token'[t] = [token[t] EXCEPT !.status = "deleted"]
  BY <1>0, RevokeIs, DeleteIs DEF LogoutCommit, ChangePasswordCommit, BlockCommit, UnblockCommit,
     DeleteUserCommit, PurgeCommit
<1> SUFFICES ASSUME NEW t \in Tokens
             PROVE  /\ token'[t].session = token[t].session
                    /\ token'[t].status = "live" => token[t].status = "live"
  OBVIOUS
<1>2. token[t] \in TokenRow
  BY <1>0
<1>3. /\ [token[t] EXCEPT !.status = "revoked"].session = token[t].session
      /\ [token[t] EXCEPT !.status = "deleted"].session = token[t].session
      /\ [token[t] EXCEPT !.status = "revoked"].status = "revoked"
      /\ [token[t] EXCEPT !.status = "deleted"].status = "deleted"
  BY <1>2 DEF TokenRow
<1> QED BY <1>1, <1>3

\* The tokens implement sessions: every step of theirs opens one session, ends some, or
\* leaves all as they are.
THEOREM TokensImplementSessions == Spec => SessionsSpec
<1>1. Init => Abstract!Init
  BY DEF Init, Abstract!Init, SessionState, Tokens, NoToken
<1>2. IInv /\ [Next]_vars => [Abstract!Next]_SessionMap
  <2> SUFFICES ASSUME IInv, [Next]_vars PROVE Abstract!Next \/ SessionMap' = SessionMap
    OBVIOUS
  <2>1. ASSUME \A t \in Tokens : token'[t].session = token[t].session,
               \A t \in Tokens : token'[t].status = "live" => token[t].status = "live"
        PROVE  Abstract!Next
    BY <2>1, EndsSessions DEF Abstract!Next, Abstract!Finish, SessionMap
  <2>2. CASE UNCHANGED <<user, token>>
    BY <2>1, <2>2
  <2>3. ASSUME NEW t \in Tokens, Expire(t) PROVE Abstract!Next
    BY <2>1, <2>3 DEF Expire, IInv, TypeOK, TokenRow
  <2>4. ASSUME NEW r \in Requests, LoginCommit(r) PROVE Abstract!Next
    <3>1. PICK n \in Tokens : /\ SessionState(n) = "none" /\ SessionState(n)' = "live"
                             /\ \A s \in Tokens \ {n} : SessionState(s)' = SessionState(s)
      BY <2>4, LoginOpens
    <3>2. SessionMap' = [SessionMap EXCEPT ![n] = "live"]
      BY <3>1 DEF SessionMap
    <3> QED BY <3>1, <3>2 DEF Abstract!Next, Abstract!Open, SessionMap
  <2>5. ASSUME NEW r \in Requests, RefreshCommit(r) PROVE SessionMap' = SessionMap
    BY <2>5, ExchangeKeeps DEF SessionMap
  <2> QED BY <2>1, <2>2, <2>3, <2>4, <2>5, StepIs, SettlingEnds DEF Commits
<1>3. IInv /\ [Next]_vars => [Abstract!Next]_([s \in Tokens |-> SessionState(s)])
  BY <1>2 DEF SessionMap
<1> QED BY <1>1, <1>3, Invariance, PTL DEF Spec, SessionsSpec, Abstract!Spec
=============================================================================
