--------------------------- MODULE ApiUserProofs ---------------------------
(***************************************************************************)
(* What concurrent requests make of a user's row, for every number of      *)
(* requests, users and passwords and for failures and panics anywhere: no  *)
(* sign-out is lost and no password is changed by who did not know one.    *)
(* The invariant counts the statements that raise a version, and says      *)
(* which passwords a change under way has had to reckon with.              *)
(***************************************************************************)
EXTENDS ApiProofs

Signing == {"bumpVersion", "updatePassword"}

\* A row that is stored or may still be.
Alive(a) == a.st \in {"free", "pending", "stored"}

\* A change of a password knows the one its user has, and once it is past
\* getUser it has presented one that it knows.
ChangeInv(table, q) ==
    q.op = "ChangeUserPassword" =>
        /\ (q.at = "run" /\ q.wrote = {} /\ q.id \in User /\ Alive(table[q.id]))
              => table[q.id].pw \in q.known
        /\ (q.at = "run" /\ Head(q.todo) # "getUser") \/ q.wrote # {}
              => q.old \subseteq q.known

\* The paging client's connection writes nothing, and may be used again.
PagingInv(r) == r = Walker => req[r].op \in {"ListUsers", "none"} /\ req[r].wrote = {}

UserInv ==
    /\ \A u \in User : users[u].ver = Cardinality(SignOuts(u))
    /\ \A r \in Request : ChangeInv(users, req[r])
    /\ \A r \in Request : PagingInv(r)
-----------------------------------------------------------------------------
(* The sign-outs.                                                          *)

LEMMA FiniteSignOuts == \A u : IsFiniteSet(SignOuts(u))
<1>1. IsFiniteSet({"bumpVersion", "updatePassword"})
  <2>1. IsFiniteSet({}) /\ IsFiniteSet({} \cup {"bumpVersion"})
    BY FS_EmptySet, FS_AddElement
  <2>2. IsFiniteSet(({} \cup {"bumpVersion"}) \cup {"updatePassword"})
    BY <2>1, FS_AddElement
  <2>3. ({} \cup {"bumpVersion"}) \cup {"updatePassword"} = {"bumpVersion", "updatePassword"}
    OBVIOUS
  <2>. QED
    BY <2>2, <2>3
<1>2. IsFiniteSet(Request \X {"bumpVersion", "updatePassword"})
  BY <1>1, ApiAssumption, FS_Product
<1>3. \A u : SignOuts(u) \subseteq Request \X {"bumpVersion", "updatePassword"}
  BY DEF SignOuts
<1>. QED
  BY <1>2, <1>3, FS_Subset

\* A step that writes none of the two leaves the sign-outs as they are.
LEMMA SameSignOuts ==
    ASSUME \A y \in Request : req'[y].wrote \cap Signing = req[y].wrote \cap Signing,
           \A y \in Request : req[y].wrote \cap Signing # {} => req'[y].id = req[y].id,
           NEW u
    PROVE  SignOuts(u)' = SignOuts(u)
<1>1. ASSUME NEW y \in Request, NEW s \in Signing
      PROVE  (req'[y].id = u /\ s \in req'[y].wrote) <=> (req[y].id = u /\ s \in req[y].wrote)
  OBVIOUS
<1>2. ASSUME NEW c \in Request \X Signing
      PROVE  (req'[c[1]].id = u /\ c[2] \in req'[c[1]].wrote)
                <=> (req[c[1]].id = u /\ c[2] \in req[c[1]].wrote)
  BY <1>1
<1>. QED
  BY <1>2 DEF SignOuts, Signing

\* A step that writes one of them adds one sign-out of its user.
LEMMA MoreSignOuts ==
    ASSUME NEW r \in Request, NEW s \in Signing, s \notin req[r].wrote,
           req'[r].wrote = req[r].wrote \cup {s}, req'[r].id = req[r].id,
           \A y \in Request \ {r} : req'[y].wrote = req[y].wrote /\ req'[y].id = req[y].id,
           NEW u
    PROVE  /\ <<r, s>> \notin SignOuts(u)
           /\ SignOuts(u)' = IF u = req[r].id THEN SignOuts(u) \cup {<<r, s>>} ELSE SignOuts(u)
<1>1. <<r, s>> \notin SignOuts(u)
  BY DEF SignOuts
<1>2. ASSUME NEW y \in Request, NEW v \in Signing
      PROVE  (req'[y].id = u /\ v \in req'[y].wrote)
                <=> \/ req[y].id = u /\ v \in req[y].wrote
                    \/ y = r /\ v = s /\ u = req[r].id
  <2>1. CASE y = r
    BY <2>1
  <2>2. CASE y # r
    BY <2>2
  <2>. QED
    BY <2>1, <2>2
<1>3. ASSUME NEW c \in Request \X Signing
      PROVE  (req'[c[1]].id = u /\ c[2] \in req'[c[1]].wrote)
                <=> \/ req[c[1]].id = u /\ c[2] \in req[c[1]].wrote
                    \/ c = <<r, s>> /\ u = req[r].id
  BY <1>2
<1>4. <<r, s>> \in Request \X Signing
  OBVIOUS
<1>. QED
  BY <1>1, <1>3, <1>4 DEF SignOuts, Signing
-----------------------------------------------------------------------------
(* The rows.                                                               *)

LEMMA AppliedRows ==
    ASSUME Inv, NEW r \in Request, req[r].at = "run", Applies(req[r]), users' = Applied(req[r]),
           NEW u \in User
    PROVE  /\ users'[u].ver = IF u = req[r].id /\ Head(req[r].todo) \in Signing
                              THEN users[u].ver + 1 ELSE users[u].ver
           /\ Alive(users'[u]) =>
                 /\ Alive(users[u])
                 /\ \/ users'[u].pw = users[u].pw
                    \/ /\ Head(req[r].todo) = "updatePassword" /\ u = req[r].id
                       /\ users'[u].pw \in req[r].new
           /\ Head(req[r].todo) \in Signing => req[r].id \in User
<1>. DEFINE q == req[r]
<1>1. /\ Working(q)
      /\ Head(q.todo) = "commit" => q.id \in User /\ users[q.id].st = "pending"
  BY Pending
<1>2. users \in [User -> RowType]
  BY DEF Inv
<1>3. \/ Applied(q) = users /\ Head(q.todo) \notin {"bumpVersion", "updatePassword", "commit"}
      \/ \E b \in RowType : RowOf(q, b) /\ Applied(q) = [users EXCEPT ![q.id] = b]
  BY <1>1, <1>2, AppliedRow
<1>4. CASE Applied(q) = users /\ Head(q.todo) \notin {"bumpVersion", "updatePassword", "commit"}
  BY <1>4 DEF Signing
<1>5. CASE \E b \in RowType : RowOf(q, b) /\ Applied(q) = [users EXCEPT ![q.id] = b]
  <2>1. PICK b \in RowType : RowOf(q, b) /\ Applied(q) = [users EXCEPT ![q.id] = b]
    BY <1>5
  <2>2. users' = [users EXCEPT ![q.id] = b]
    BY <2>1
  <2>3. /\ q.id \in User /\ b.st \in {"stored", "gone"}
        /\ users[q.id].st \in {"stored", "pending"}
        /\ b.ver = IF Head(q.todo) \in Signing THEN users[q.id].ver + 1 ELSE users[q.id].ver
        /\ \/ b.pw = users[q.id].pw \/ b.st = "gone"
           \/ Head(q.todo) = "updatePassword" /\ b.pw \in q.new
    BY <2>1 DEF RowOf, Signing
  <2>4. CASE u = q.id
    <3>1. users'[u] = b
      BY <1>2, <2>2, <2>3, <2>4
    <3>. QED
      BY <2>3, <2>4, <3>1 DEF Alive
  <2>5. CASE u # q.id
    <3>1. users'[u] = users[u]
      BY <1>2, <2>2, <2>5
    <3>. QED
      BY <2>3, <2>5, <3>1
  <2>. QED
    BY <2>4, <2>5
<1>. QED
  BY <1>3, <1>4, <1>5

LEMMA AbortedRows ==
    ASSUME Inv, NEW r \in Request, req[r].at \in {"authenticate", "handle", "run"},
           users' = Aborted(req[r]), NEW u \in User
    PROVE  /\ users'[u].ver = users[u].ver
           /\ Alive(users'[u]) => Alive(users[u]) /\ users'[u].pw = users[u].pw
<1>. DEFINE q == req[r]
<1>1. users \in [User -> RowType] /\ RequestInv(q) /\ OpenInv
  BY DEF Inv
<1>2. (q.op = "CreateUser" /\ q.id \in User) => users[q.id].st = "pending"
  <2>1. NoUser \notin User
    BY DEF NoUser, User
  <2>. QED
    BY <1>1, <2>1, Pending DEF RequestInv
<1>3. CASE ~(q.op = "CreateUser" /\ q.id \in User)
  BY <1>3 DEF Aborted
<1>4. CASE q.op = "CreateUser" /\ q.id \in User
  <2>. DEFINE b == [NoRow EXCEPT !.st = "void"]
  <2>1. users' = [users EXCEPT ![q.id] = b]
    BY <1>4 DEF Aborted
  <2>2. b.st = "void" /\ b.ver = 0
    BY NoRowType DEF RowType
  <2>3. users[q.id].ver = 0
    BY <1>1, <1>2, <1>4 DEF OpenInv
  <2>. HIDE DEF b
  <2>4. CASE u = q.id
    <3>1. users'[u] = b
      BY <1>1, <1>4, <2>1, <2>4
    <3>. QED
      BY <2>2, <2>3, <2>4, <3>1 DEF Alive
  <2>5. CASE u # q.id
    BY <1>1, <2>1, <2>5
  <2>. QED
    BY <2>4, <2>5
<1>. QED
  BY <1>3, <1>4
-----------------------------------------------------------------------------
(* The steps.                                                              *)

\* What a change knows stays enough when a password it learns replaces its
\* user's.
LEMMA ChangeKept ==
    ASSUME NEW a, NEW b, NEW q, NEW p, ChangeInv(a, q),
           p.op = q.op, p.at = q.at, p.id = q.id, p.todo = q.todo, p.wrote = q.wrote,
           p.old = q.old, q.known \subseteq p.known,
           \A u \in User : Alive(b[u]) =>
              /\ Alive(a[u])
              /\ b[u].pw = a[u].pw
                 \/ (u = q.id /\ q.op = "ChangeUserPassword" /\ q.at = "run" => b[u].pw \in p.known)
    PROVE  ChangeInv(b, p)
<1>. SUFFICES ASSUME p.op = "ChangeUserPassword"
              PROVE  /\ (p.at = "run" /\ p.wrote = {} /\ p.id \in User /\ Alive(b[p.id]))
                           => b[p.id].pw \in p.known
                     /\ (p.at = "run" /\ Head(p.todo) # "getUser") \/ p.wrote # {}
                           => p.old \subseteq p.known
  BY DEF ChangeInv
<1>1. /\ (q.at = "run" /\ q.wrote = {} /\ q.id \in User /\ Alive(a[q.id])) => a[q.id].pw \in q.known
      /\ (q.at = "run" /\ Head(q.todo) # "getUser") \/ q.wrote # {} => q.old \subseteq q.known
  BY DEF ChangeInv
<1>2. ASSUME p.at = "run", p.wrote = {}, p.id \in User, Alive(b[p.id])
      PROVE  b[p.id].pw \in p.known
  <2>1. Alive(a[q.id]) /\ (b[q.id].pw = a[q.id].pw \/ b[q.id].pw \in p.known)
    BY <1>2
  <2>. QED
    BY <1>1, <1>2, <2>1
<1>3. ASSUME (p.at = "run" /\ Head(p.todo) # "getUser") \/ p.wrote # {}
      PROVE  p.old \subseteq p.known
  BY <1>1, <1>3
<1>. QED
  BY <1>2, <1>3

\* A step that neither raises a version nor replaces a password, and changes
\* no other request.
LEMMA PlainStep ==
    ASSUME Inv, UserInv, NEW r \in Request,
           \A y \in Request \ {r} : req'[y] = req[y],
           \A u \in User : /\ users'[u].ver = users[u].ver
                           /\ Alive(users'[u]) => Alive(users[u]) /\ users'[u].pw = users[u].pw,
           req'[r].wrote = req[r].wrote,
           req[r].wrote # {} => req'[r].id = req[r].id,
           r = Walker => req'[r].op \in {"ListUsers", "none"},
           ChangeInv(users', req'[r])
    PROVE  UserInv'
<1>1. \A y \in Request : /\ req'[y].wrote = req[y].wrote
                         /\ req[y].wrote # {} => req'[y].id = req[y].id
  OBVIOUS
<1>2. ASSUME NEW u \in User
      PROVE  users'[u].ver = Cardinality(SignOuts(u)')
  <2>1. SignOuts(u)' = SignOuts(u)
    BY <1>1, SameSignOuts
  <2>. QED
    BY <2>1 DEF UserInv
<1>3. ASSUME NEW y \in Request
      PROVE  ChangeInv(users', req'[y])
  <2>1. CASE y = r
    BY <2>1
  <2>2. CASE y # r
    <3>1. ChangeInv(users, req[y]) /\ req'[y] = req[y]
      BY <2>2 DEF UserInv
    <3>. QED
      BY <3>1, ChangeKept
  <2>. QED
    BY <2>1, <2>2
<1>4. ASSUME NEW y \in Request
      PROVE  PagingInv(y)'
  <2>1. PagingInv(y)
    BY DEF UserInv
  <2>. QED
    BY <1>1, <2>1 DEF PagingInv
<1>. QED
  BY <1>2, <1>3, <1>4 DEF UserInv

\* A statement that takes effect.
LEMMA EffectStep ==
    ASSUME Inv, UserInv, NEW r \in Request, req[r].at = "run", Applies(req[r]),
           Head(req[r].todo) \in Writing \cup {"ping"},
           \A y \in Request \ {r} : req'[y] = Learned(req[r])[y],
           \/ users' = Applied(req[r])
           \/ users' = Aborted(req[r]) /\ Head(req[r].todo) = "recordEvent",
           req'[r].op = req[r].op, req'[r].id = req[r].id, req'[r].old = req[r].old,
           req'[r].known = req[r].known,
           req'[r].wrote = req[r].wrote \cup ({Head(req[r].todo)} \cap Writing)
    PROVE  UserInv'
<1>. DEFINE q == req[r]
            s == Head(q.todo)
<1>1. /\ Working(q) /\ req \in [Request -> RequestType] /\ \A x \in Request : RequestInv(req[x])
      /\ users \in [User -> RowType]
  BY Pending DEF Inv
<1>2. ASSUME NEW u \in User
      PROVE  /\ users'[u].ver = IF u = q.id /\ s \in Signing
                                THEN users[u].ver + 1 ELSE users[u].ver
             /\ Alive(users'[u]) =>
                   /\ Alive(users[u])
                   /\ \/ users'[u].pw = users[u].pw
                      \/ s = "updatePassword" /\ u = q.id /\ users'[u].pw \in q.new
             /\ s \in Signing => q.id \in User
  <2>1. CASE users' = Applied(q)
    BY <2>1, AppliedRows
  <2>2. CASE users' = Aborted(q) /\ s = "recordEvent"
    BY <2>2, AbortedRows DEF Signing
  <2>. QED
    BY <2>1, <2>2
<1>3. s \in Signing => s \in Writing /\ s \notin q.wrote
  BY <1>1 DEF Working, Signing, Writing, Late
<1>4. \A y \in Request \ {r} : Alike(req'[y], req[y])
  BY <1>1, LearnedAlike
<1>5. ASSUME NEW u \in User
      PROVE  users'[u].ver = Cardinality(SignOuts(u)')
  <2>0. users[u].ver = Cardinality(SignOuts(u)) /\ IsFiniteSet(SignOuts(u))
    BY FiniteSignOuts DEF UserInv
  <2>1. CASE s \in Signing
    <3>1. /\ <<r, s>> \notin SignOuts(u)
          /\ SignOuts(u)' = IF u = q.id THEN SignOuts(u) \cup {<<r, s>>} ELSE SignOuts(u)
      <4>1. q.wrote \cup ({s} \cap Writing) = q.wrote \cup {s}
        BY <1>3, <2>1
      <4>2. \A y \in Request \ {r} : req'[y].wrote = req[y].wrote /\ req'[y].id = req[y].id
        BY <1>4 DEF Alike
      <4>3. s \notin q.wrote /\ req'[r].wrote = q.wrote \cup {s}
        BY <1>3, <2>1, <4>1
      <4>. QED
        BY <2>1, <4>2, <4>3, MoreSignOuts
    <3>2. Cardinality(SignOuts(u) \cup {<<r, s>>}) = Cardinality(SignOuts(u)) + 1
      BY <2>0, <3>1, FS_AddElement
    <3>. QED
      BY <1>2, <2>0, <2>1, <3>1, <3>2
  <2>2. CASE s \notin Signing
    <3>1. /\ \A y \in Request : req'[y].wrote \cap Signing = req[y].wrote \cap Signing
          /\ \A y \in Request : req[y].wrote \cap Signing # {} => req'[y].id = req[y].id
      <4>1. q.wrote \cap Signing = (q.wrote \cup ({s} \cap Writing)) \cap Signing
        BY <2>2
      <4>2. \A y \in Request \ {r} : req'[y].wrote = req[y].wrote /\ req'[y].id = req[y].id
        BY <1>4 DEF Alike
      <4>. QED
        BY <4>1, <4>2
    <3>2. SignOuts(u)' = SignOuts(u)
      BY <3>1, SameSignOuts
    <3>. QED
      BY <1>2, <2>0, <2>2, <3>2
  <2>. QED
    BY <2>1, <2>2
<1>6. ChangeInv(users', req'[r])
  <2>1. ASSUME q.op = "ChangeUserPassword"
        PROVE  s \in {"updatePassword", "revokeUserSessions"}
    BY <1>1, <2>1, StageOperations DEF Working, Writing
  <2>2. ASSUME q.op = "ChangeUserPassword"
        PROVE  q.old \subseteq q.known /\ q.wrote \cup ({s} \cap Writing) # {}
    <3>1. ChangeInv(users, q) /\ s # "getUser" /\ s \in Writing
      BY <2>1, <2>2 DEF UserInv, Writing
    <3>. QED
      BY <2>2, <3>1 DEF ChangeInv
  <2>. QED
    BY <2>2 DEF ChangeInv
<1>7. ASSUME NEW y \in Request \ {r}
      PROVE  ChangeInv(users', req'[y])
  <2>1. ChangeInv(users, req[y]) /\ Alike(req'[y], req[y])
    BY <1>4 DEF UserInv
  <2>2. req[y].known \subseteq req'[y].known
    <3>1. CASE s = "updatePassword" /\ Overlaps(req[y], q)
      <4>1. req'[y] = [req[y] EXCEPT !.known = @ \cup q.new]
        BY <3>1 DEF Learned
      <4>. QED
        BY <1>1, <4>1 DEF RequestType
    <3>2. CASE ~(s = "updatePassword" /\ Overlaps(req[y], q))
      BY <3>2 DEF Learned
    <3>. QED
      BY <3>1, <3>2
  <2>3. ASSUME NEW u \in User, s = "updatePassword", u = q.id, u = req[y].id,
               req[y].op = "ChangeUserPassword", req[y].at = "run"
        PROVE  q.new \subseteq req'[y].known
    <3>1. req'[y] = [req[y] EXCEPT !.known = @ \cup q.new]
      BY <2>3 DEF Learned, Overlaps
    <3>. QED
      BY <1>1, <3>1 DEF RequestType
  <2>4. ASSUME NEW u \in User, Alive(users'[u])
        PROVE  /\ Alive(users[u])
               /\ users'[u].pw = users[u].pw
                  \/ (u = req[y].id /\ req[y].op = "ChangeUserPassword" /\ req[y].at = "run"
                        => users'[u].pw \in req'[y].known)
    BY <1>2, <2>3, <2>4
  <2>. QED
    BY <2>1, <2>2, <2>4, ChangeKept DEF Alike
<1>8. ASSUME NEW y \in Request
      PROVE  PagingInv(y)'
  <2>1. CASE y = r
    <3>1. q.op = "ListUsers" => s \in {"listUsers", "countUsers"}
      BY <1>1, StageOperations DEF Working
    <3>2. q.op \in Operation
      BY <1>1 DEF Working
    <3>3. r # Walker
      BY <3>1, <3>2 DEF UserInv, PagingInv, Writing, Operation
    <3>. QED
      BY <2>1, <3>3 DEF PagingInv
  <2>2. CASE y # r
    BY <1>4, <2>2 DEF UserInv, PagingInv, Alike
  <2>. QED
    BY <2>1, <2>2
<1>. QED
  BY <1>5, <1>6, <1>7, <1>8 DEF UserInv

LEMMA QuietUsers ==
    ASSUME Inv, UserInv, NEW r \in Request, Quiet(r)
    PROVE  UserInv'
<1>. DEFINE q == req[r]
<1>1. /\ req \in [Request -> RequestType] /\ walk \in WalkType /\ RequestInv(q)
      /\ users \in [User -> RowType] /\ ChangeInv(users, q) /\ PagingInv(r)
  BY DEF Inv, UserInv
<1>2. /\ users' = users /\ req' = [req EXCEPT ![r] = req'[r]]
      /\ req'[r].at \in {"run", "answer"} /\ Keeps(req'[r], q)
  BY <1>1, QuietStep
<1>3. Working(q) /\ q.at = "run"
  BY <1>1, Works DEF Quiet, NoRows, Lookup, FindSession, RotateNothing, Conflict, ListUsers,
     CountUsers, Runs, Working
<1>4. ASSUME q.op = "ChangeUserPassword", req'[r].at = "run"
      PROVE  /\ Lookup(r) /\ q.id \in User /\ Alive(users[q.id]) /\ q.wrote = {}
             /\ q.old \subseteq {users[q.id].pw}
  <2>1. Head(q.todo) \in {"getUser", "updatePassword", "revokeUserSessions"}
    BY <1>3, <1>4, StageOperations DEF Working
  <2>2. ~NoRows(r)
    <3>1. ASSUME NoRows(r)
          PROVE  \E error \in AppError : req'[r] = WriteError(q, error)
      <4>1. req'[r] = WriteError(q, Failure(q.op, Head(q.todo),
                          IF Head(q.todo) = "createSession" THEN "foreignKey" ELSE "noRows"))
        BY <1>1, <1>4, <3>1 DEF NoRows, Set
      <4>. QED
        BY <4>1, FailureKinds
    <3>2. \A error \in AppError : WriteError(q, error).at = "answer"
      BY <1>3, Keeping DEF Working
    <3>. QED
      BY <1>4, <3>1, <3>2
  <2>3. Lookup(r)
    BY <2>1, <2>2 DEF Quiet, FindSession, RotateNothing, Conflict, ListUsers, CountUsers, Runs
  <2>4. Head(q.todo) = "getUser" /\ Applies(q)
    BY <2>1, <2>3 DEF Lookup, Runs
  <2>5. q.id \in User /\ Alive(users[q.id]) /\ q.wrote = {}
    BY <1>3, <2>4 DEF Applies, OnUser, Stored, Alive, Working, Late
  <2>6. Verified(q)
    <3>1. Mismatch(q.op) \in AppError
      BY DEF Mismatch, AppError
    <3>2. WriteError(q, Mismatch(q.op)).at = "answer"
      BY <1>3, <3>1, Keeping DEF Working
    <3>. QED
      BY <1>1, <1>4, <2>3, <3>2 DEF Lookup, Set
  <2>. QED
    BY <2>3, <2>5, <2>6 DEF Verified
<1>5. ChangeInv(users', req'[r])
  <2>1. CASE q.op = "ChangeUserPassword" /\ req'[r].at = "run"
    <3>1. q.id \in User /\ Alive(users[q.id]) /\ q.wrote = {} /\ q.old \subseteq {users[q.id].pw}
      BY <1>4, <2>1
    <3>2. users[q.id].pw \in q.known
      BY <1>1, <1>3, <2>1, <3>1 DEF ChangeInv
    <3>. QED
      BY <1>2, <3>1, <3>2 DEF ChangeInv, Keeps
  <2>2. CASE ~(q.op = "ChangeUserPassword" /\ req'[r].at = "run")
    BY <1>1, <1>2, <2>2 DEF ChangeInv, Keeps
  <2>. QED
    BY <2>1, <2>2
<1>6. \A y \in Request \ {r} : req'[y] = req[y]
  BY <1>1, <1>2
<1>7. req'[r].wrote = q.wrote /\ req'[r].id = q.id /\ req'[r].op = q.op
  BY <1>2 DEF Keeps
<1>. QED
  BY <1>1, <1>2, <1>5, <1>6, <1>7, PlainStep DEF PagingInv

\* Steps before and after the use-case.
LEMMA EntryUsers ==
    ASSUME Inv, UserInv, NEW r \in Request,
           \/ Arrive(r) \/ Authenticate(r) \/ Handle(r) \/ Respond(r)
           \/ TakePage(r) \/ RetryPage(r)
    PROVE  UserInv'
<1>. DEFINE q == req[r]
            p == req'[r]
<1>1. /\ req \in [Request -> RequestType] /\ walk \in WalkType /\ RequestInv(q)
      /\ users \in [User -> RowType] /\ ChangeInv(users, q) /\ PagingInv(r)
      /\ (q.at = "authenticate" /\ ~q.entitled => Outdated(users, q.claims))
  BY DEF Inv, UserInv, TokenInv
<1>2. users' = users /\ \A y \in Request \ {r} : req'[y] = req[y]
  <2>1. CASE Arrive(r)
    BY <1>1, <2>1 DEF Arrive
  <2>2. CASE Authenticate(r)
    BY <1>1, <2>2 DEF Authenticate
  <2>3. CASE Handle(r)
    BY <1>1, <2>3 DEF Handle
  <2>4. CASE Respond(r)
    BY <1>1, <2>4 DEF Respond
  <2>5. CASE TakePage(r) \/ RetryPage(r)
    BY <1>1, <2>5 DEF TakePage, RetryPage, Set
  <2>. QED
    BY <2>1, <2>2, <2>3, <2>4, <2>5
<1>3. CASE Arrive(r)
  <2>1. p.at # "run" /\ p.wrote = {} /\ (r = Walker => p.op \in {"ListUsers", "none"})
    BY <1>1, <1>3, ArriveStep
  <2>2. q.wrote = {}
    BY <1>1, <1>3 DEF Arrive, RequestInv
  <2>3. ChangeInv(users', p)
    BY <2>1 DEF ChangeInv
  <2>. QED
    BY <1>2, <2>1, <2>2, <2>3, PlainStep
<1>4. CASE Authenticate(r)
  <2>1. p.at # "run" /\ p.wrote = {} /\ p.op = q.op
    BY <1>1, <1>4, AuthenticateStep DEF Authenticate
  <2>2. q.wrote = {}
    BY <1>1, <1>4 DEF Authenticate, RequestInv
  <2>3. ChangeInv(users', p)
    BY <2>1 DEF ChangeInv
  <2>. QED
    BY <1>1, <1>2, <2>1, <2>2, <2>3, PlainStep DEF PagingInv
<1>5. CASE Handle(r)
  <2>0. req \in [Request -> RequestType] /\ RequestInv(req[r]) /\ users \in [User -> RowType]
    BY <1>1
  <2>1. /\ p.wrote = {} /\ p.op = q.op
        /\ p.at = "run" /\ p.op = "ChangeUserPassword"
              => /\ Head(p.todo) = "getUser"
                 /\ p.id \in User => users[p.id].pw \in p.known
    BY <1>5, <2>0, HandleStep
  <2>2. q.wrote = {}
    BY <1>1, <1>5 DEF Handle, RequestInv
  <2>3. ChangeInv(users', p)
    BY <1>2, <2>1 DEF ChangeInv
  <2>4. r = Walker => p.op \in {"ListUsers", "none"}
    BY <1>1, <2>1 DEF PagingInv
  <2>. QED
    BY <1>2, <2>1, <2>2, <2>3, <2>4, PlainStep
<1>6. CASE Respond(r)
  <2>1. p.at = "done" /\ p.wrote = q.wrote /\ p.id = q.id /\ p.op = q.op
        /\ p.known = q.known /\ p.old = q.old
    BY <1>1, <1>6, RespondStep
  <2>2. ChangeInv(users', p)
    BY <1>1, <2>1 DEF ChangeInv
  <2>. QED
    BY <1>1, <1>2, <2>1, <2>2, PlainStep DEF PagingInv
<1>7. CASE TakePage(r) \/ RetryPage(r)
  <2>1. r = Walker /\ q.wrote = {} /\ q.op # "ChangeUserPassword" /\ q.op \in {"ListUsers", "none"}
    BY <1>1, <1>7 DEF TakePage, RetryPage, PagingInv
  <2>2. p.wrote = {} /\ p.op \in {"ListUsers", "none"}
    <3>1. p = Idle \/ p = [q EXCEPT !.page = << >>]
      BY <1>1, <1>7 DEF TakePage, RetryPage, Set
    <3>2. CASE p = Idle
      BY <3>2 DEF Idle
    <3>3. CASE p = [q EXCEPT !.page = << >>]
      BY <1>1, <2>1, <3>3 DEF RequestType
    <3>. QED
      BY <3>1, <3>2, <3>3
  <2>3. ChangeInv(users', p)
    BY <2>2 DEF ChangeInv
  <2>. QED
    BY <1>2, <2>1, <2>2, <2>3, PlainStep
<1>. QED
  BY <1>3, <1>4, <1>5, <1>6, <1>7

LEMMA InsertUsers ==
    ASSUME Inv, UserInv, NEW r \in Request, InsertUser(r)
    PROVE  UserInv'
<1>. DEFINE q == req[r]
            id == req'[r].id
<1>1. /\ req \in [Request -> RequestType] /\ RequestInv(q) /\ users \in [User -> RowType]
      /\ OpenInv /\ PagingInv(r)
  BY DEF Inv, UserInv
<1>2. /\ req'[r].op = "CreateUser" /\ req'[r].wrote = {} /\ id \in User /\ users[id].st = "free"
      /\ \E n \in Name : users' = [users EXCEPT ![id] = Row("pending", n, FirstPassword, 0)]
  BY <1>1, InsertUserStep
<1>3. Working(q) /\ Head(q.todo) = "insertUser"
  BY <1>1, Works DEF InsertUser, Runs
<1>4. q.op = "CreateUser" /\ q.wrote = {}
  BY <1>3, StageOperations DEF Working, Late
<1>5. r # Walker
  BY <1>1, <1>4 DEF PagingInv
<1>6. ASSUME NEW u \in User
      PROVE  /\ users'[u].ver = users[u].ver
             /\ Alive(users'[u]) => Alive(users[u]) /\ users'[u].pw = users[u].pw
  <2>1. PICK n \in Name : users' = [users EXCEPT ![id] = Row("pending", n, FirstPassword, 0)]
    BY <1>2
  <2>2. users[id].ver = 0 /\ users[id].pw = FirstPassword /\ Alive(users[id])
    BY <1>1, <1>2 DEF OpenInv, Alive
  <2>3. CASE u = id
    <3>1. users'[u] = Row("pending", n, FirstPassword, 0)
      BY <1>1, <1>2, <2>1, <2>3
    <3>. QED
      BY <2>2, <2>3, <3>1 DEF Row
  <2>4. CASE u # id
    BY <1>1, <2>1, <2>4
  <2>. QED
    BY <2>3, <2>4
<1>7. \A y \in Request \ {r} : req'[y] = req[y]
  BY <1>1 DEF InsertUser, Set
<1>8. ChangeInv(users', req'[r])
  BY <1>2 DEF ChangeInv
<1>9. req'[r].wrote = q.wrote /\ q.wrote = {}
  BY <1>2, <1>4
<1>. QED
  BY <1>5, <1>6, <1>7, <1>8, <1>9, PlainStep

LEMMA FailureUsers ==
    ASSUME Inv, UserInv, NEW r \in Request,
           Fail(r) \/ AuthenticateFail(r) \/ Panic(r) \/ Recover(r)
    PROVE  UserInv'
<1>. DEFINE q == req[r]
<1>1. /\ req \in [Request -> RequestType] /\ \A x \in Request : RequestInv(req[x])
      /\ ChangeInv(users, q) /\ PagingInv(r)
  BY DEF Inv, UserInv
<1>2. ASSUME \A y \in Request \ {r} : req'[y] = req[y], req'[r].at # "run",
             req'[r].wrote = q.wrote, req'[r].id = q.id, req'[r].op = q.op,
             req'[r].known = q.known, req'[r].old = q.old,
             \/ users' = users
             \/ q.at \in {"authenticate", "handle", "run"} /\ users' = Aborted(q)
      PROVE  UserInv'
  <2>1. ASSUME NEW u \in User
        PROVE  /\ users'[u].ver = users[u].ver
               /\ Alive(users'[u]) => Alive(users[u]) /\ users'[u].pw = users[u].pw
    BY <1>2, AbortedRows
  <2>2. ChangeInv(users', req'[r])
    BY <1>1, <1>2 DEF ChangeInv
  <2>3. r = Walker => req'[r].op \in {"ListUsers", "none"}
    BY <1>1, <1>2 DEF PagingInv
  <2>. QED
    BY <1>2, <2>1, <2>2, <2>3, PlainStep
<1>3. CASE AuthenticateFail(r) \/ Panic(r) \/ Recover(r)
  <2>1. /\ req'[r].at \in {"panic", "answer"} /\ req'[r].wrote = q.wrote
        /\ req'[r].id = q.id /\ req'[r].op = q.op /\ req'[r].known = q.known
        /\ req'[r].old = q.old
    BY <1>1, <1>3, FailureSteps
  <2>2. \A y \in Request \ {r} : req'[y] = req[y]
    BY <1>1, <1>3 DEF AuthenticateFail, Panic, Recover, Set
  <2>3. \/ users' = users
        \/ q.at \in {"authenticate", "handle", "run"} /\ users' = Aborted(q)
    BY <1>3 DEF AuthenticateFail, Panic, Recover
  <2>. QED
    BY <1>2, <2>1, <2>2, <2>3
<1>4. CASE Fail(r)
  <2>1. /\ Working(q) /\ req'[r].at = "answer" /\ q.at = "run"
        /\ req'[r].op = q.op /\ req'[r].id = q.id /\ req'[r].old = q.old
        /\ req'[r].known = q.known
    BY <1>1, <1>4, FailKeeps DEF Fail
  <2>2. \/ /\ users' = Aborted(q) /\ req'[r].wrote = q.wrote
           /\ \A y \in Request \ {r} : req'[y] = req[y]
        \/ /\ Head(q.todo) \in Writing /\ Applies(q)
           /\ \/ Head(q.todo) = "recordEvent" /\ users' = Aborted(q)
              \/ Head(q.todo) # "recordEvent" /\ users' = Applied(q)
           /\ req'[r].wrote = q.wrote \cup {Head(q.todo)}
           /\ \A y \in Request \ {r} : req'[y] = Learned(q)[y]
    BY <1>1, <1>4, FailKeeps
  <2>3. CASE /\ users' = Aborted(q) /\ req'[r].wrote = q.wrote
             /\ \A y \in Request \ {r} : req'[y] = req[y]
    BY <1>2, <2>1, <2>3
  <2>4. CASE /\ Head(q.todo) \in Writing /\ Applies(q)
             /\ \/ Head(q.todo) = "recordEvent" /\ users' = Aborted(q)
                \/ Head(q.todo) # "recordEvent" /\ users' = Applied(q)
             /\ req'[r].wrote = q.wrote \cup {Head(q.todo)}
             /\ \A y \in Request \ {r} : req'[y] = Learned(q)[y]
    <3>1. q.wrote \cup {Head(q.todo)} = q.wrote \cup ({Head(q.todo)} \cap Writing)
      BY <2>4
    <3>. QED
      BY <2>1, <2>4, <3>1, EffectStep
  <2>. QED
    BY <2>2, <2>3, <2>4
<1>. QED
  BY <1>3, <1>4

LEMMA ExecuteUsers ==
    ASSUME Inv, UserInv, NEW r \in Request, Execute(r)
    PROVE  UserInv'
<1>. DEFINE q == req[r]
<1>1. req \in [Request -> RequestType] /\ \A x \in Request : RequestInv(req[x])
  BY DEF Inv
<1>2. /\ Working(q) /\ Applies(q) /\ users' = Applied(q)
      /\ Head(q.todo) \in Writing \cup {"ping"}
      /\ req'[r].op = q.op /\ req'[r].id = q.id /\ req'[r].old = q.old
      /\ req'[r].known = q.known
      /\ req'[r].wrote = q.wrote \cup ({Head(q.todo)} \cap Writing)
  BY <1>1, ExecuteKeeps
<1>3. \A y \in Request \ {r} : req'[y] = Learned(q)[y]
  BY DEF Execute, Learned
<1>4. q.at = "run"
  BY <1>2 DEF Working
<1>. QED
  BY <1>2, <1>3, <1>4, EffectStep

LEMMA InitUsers == Init => UserInv
<1>. SUFFICES ASSUME Init PROVE UserInv
  OBVIOUS
<1>1. \A r \in Request : req[r] = Idle
  BY DEF Init
<1>2. Idle.wrote = {} /\ Idle.op = "none"
  BY DEF Idle
<1>3. ASSUME NEW u \in User
      PROVE  users[u].ver = 0 /\ SignOuts(u) = {}
  <2>1. PICK name \in [1..Existing -> Name] :
           users = [x \in User |->
                      IF x <= Existing THEN Row("stored", name[x], FirstPassword, 0) ELSE NoRow]
    BY DEF Init
  <2>2. users[u].ver = 0
    BY <2>1 DEF Row, NoRow
  <2>3. SignOuts(u) = {}
    BY <1>1, <1>2 DEF SignOuts
  <2>. QED
    BY <2>2, <2>3
<1>4. \A u \in User : users[u].ver = Cardinality(SignOuts(u))
  BY <1>3, FS_EmptySet
<1>5. \A r \in Request : ChangeInv(users, req[r]) /\ PagingInv(r)
  BY <1>1, <1>2 DEF ChangeInv, PagingInv
<1>. QED
  BY <1>4, <1>5 DEF UserInv

LEMMA StepUsers == Inv /\ UserInv /\ [Next]_vars => UserInv'
<1>. SUFFICES ASSUME Inv, UserInv, [Next]_vars PROVE UserInv'
  OBVIOUS
<1>1. CASE UNCHANGED vars \/ Quiesce
  <2>1. UNCHANGED <<users, req>>
    BY <1>1 DEF Quiesce, vars
  <2>. QED
    BY <2>1 DEF UserInv, ChangeInv, PagingInv, SignOuts
<1>2. ASSUME NEW r \in Request,
             \/ Arrive(r) \/ Authenticate(r) \/ Handle(r) \/ Respond(r)
             \/ TakePage(r) \/ RetryPage(r)
      PROVE  UserInv'
  BY <1>2, EntryUsers
<1>3. ASSUME NEW r \in Request, Step(r)
      PROVE  UserInv'
  <2>1. CASE Execute(r)
    BY <2>1, ExecuteUsers
  <2>2. CASE InsertUser(r)
    BY <2>2, InsertUsers
  <2>3. CASE Quiet(r)
    BY <2>3, QuietUsers
  <2>. QED
    BY <1>3, <2>1, <2>2, <2>3 DEF Step, Quiet
<1>4. ASSUME NEW r \in Request, Fail(r) \/ AuthenticateFail(r) \/ Panic(r) \/ Recover(r)
      PROVE  UserInv'
  BY <1>4, FailureUsers
<1>. QED
  BY <1>1, <1>2, <1>3, <1>4 DEF Next

LEMMA UserInvariant == Spec => []UserInv
<1>. QED
  BY InitUsers, StepUsers, Invariant, PTL DEF Spec

\* However many requests sign a user out at the same time, each raises the
\* version: token_version + 1 is computed in the statement, so no sign-out is
\* lost to another's.
THEOREM SignOutsCounted == Spec => []SignOutsCount
<1>1. UserInv => SignOutsCount
  BY DEF UserInv, SignOutsCount
<1>. QED
  BY <1>1, UserInvariant, PTL

\* Who replaced a password presented one that was the user's at some time
\* since the request came in, however many changes of the same user overlap.
THEOREM PasswordsKnown == Spec => []PasswordKnown
<1>1. UserInv => PasswordKnown
  BY DEF UserInv, ChangeInv, PasswordKnown
<1>. QED
  BY <1>1, UserInvariant, PTL
=============================================================================
