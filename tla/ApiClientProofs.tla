---------------------------- MODULE ApiClientProofs ----------------------------
(***************************************************************************)
(* What the generated client gets to see, for every order and search, page *)
(* size, table and number of concurrent requests: a client that pages      *)
(* through the users misses nobody who stays and meets nobody twice, and   *)
(* every answer is one for which the client has a type.                    *)
(*                                                                         *)
(* The walk. The argument counts, for each user, the listed users ahead of *)
(* it: its rank. A page has the users whose ranks it covers, at the moment *)
(* it is read. Ranks only rise while nobody leaves and only fall while     *)
(* nobody comes, so a user not seen yet stays behind the offset in the one *)
(* case and a user seen stays before it in the other.                      *)
(*                                                                         *)
(* The answers. A request that the client built is at a stage of the use-  *)
(* case its call reaches, and each error that a statement of this use-case *)
(* can report has a status the document lists (Foreseen).                  *)
(***************************************************************************)
EXTENDS ApiUserProofs, FunctionTheorems

\* The users the walk lists now, and their order in it.
Rows == Matching(walk.search)
Before(u, v) ==
    IF walk.dir = "asc" THEN Less(u, v, OrderBy(walk.by)) ELSE Less(v, u, OrderBy(walk.by))
Ahead(u) == {v \in Rows : Before(v, u)}
Rank(u) == Cardinality(Ahead(u))

\* The client's request has read its page; it has also counted the users.
Listed(q) == q.at = "run" /\ Head(q.todo) = "countUsers"
Counted(q) == q.at \in {"answer", "done"} /\ q.status = 200
HasPage ==
    Walker \in Request /\ walk.at = "on" /\ (Listed(req[Walker]) \/ Counted(req[Walker]))
OnPage == {req[Walker].page[i] : i \in DOMAIN req[Walker].page}
NextOffset == walk.offset + PageSize

\* While nobody leaves, whom the walk has yet to show is at its offset or
\* behind it, and the last page is not yet reached.
MissInv ==
    (~walk.shrank /\ ~walk.renamed) =>
        /\ walk.at = "on" =>
             /\ walk.start \subseteq Rows
             /\ \A u \in walk.start \ Seen : walk.offset <= Rank(u)
        /\ HasPage => \A u \in walk.start \ (Seen \cup OnPage) :
             /\ NextOffset <= Rank(u)
             /\ Counted(req[Walker]) => NextOffset < req[Walker].total
        /\ walk.at = "over" => walk.start \subseteq Seen

Distinct(s) == \A i, j \in DOMAIN s : s[i] = s[j] => i = j

\* While nobody comes, whom the walk has shown is before its offset.
RepeatInv ==
    (~walk.grew /\ ~walk.renamed) =>
        /\ Distinct(walk.got)
        /\ walk.at = "on" => \A u \in Seen \cap Rows : Rank(u) < walk.offset
        /\ HasPage =>
             /\ Distinct(req[Walker].page) /\ OnPage \cap Seen = {}
             /\ \A u \in OnPage \cap Rows : Rank(u) < NextOffset
-----------------------------------------------------------------------------
(* The order of the listing.                                               *)

\* What the ORDER BY of the listing compares.
OrderMeaning ==
    \A u, v :
        /\ Less(u, v, OrderBy("id")) <=> u < v
        /\ Less(u, v, OrderBy("name")) <=>
             \/ users[u].name < users[v].name
             \/ users[u].name = users[v].name /\ u < v

LEMMA LessMeans == OrderMeaning
<1>. SUFFICES ASSUME NEW u, NEW v
              PROVE  /\ Less(u, v, OrderBy("id")) <=> u < v
                     /\ Less(u, v, OrderBy("name")) <=>
                          \/ users[u].name < users[v].name
                          \/ users[u].name = users[v].name /\ u < v
  BY DEF OrderMeaning
<1>1. OrderBy("id") = <<"id">> /\ OrderBy("name") = <<"name", "id">>
  BY DEF OrderBy
<1>2. Less(u, v, <<"id">>) <=> u < v
  <2>1. DOMAIN <<"id">> = {1} /\ <<"id">>[1] = "id"
    OBVIOUS
  <2>. QED
    BY <2>1 DEF Less, Key
<1>3. Less(u, v, <<"name", "id">>) <=>
         \/ users[u].name < users[v].name
         \/ users[u].name = users[v].name /\ u < v
  <2>. DEFINE c == <<"name", "id">>
  <2>1. DOMAIN c = {1, 2} /\ c[1] = "name" /\ c[2] = "id"
    OBVIOUS
  <2>2. /\ Key(u, c[1]) = users[u].name /\ Key(v, c[1]) = users[v].name
        /\ Key(u, c[2]) = u /\ Key(v, c[2]) = v
    BY <2>1 DEF Key
  <2>3. 1..(1 - 1) = {} /\ 1..(2 - 1) = {1}
    OBVIOUS
  <2>. HIDE DEF c
  <2>4. Less(u, v, c) <=> \/ Key(u, c[1]) < Key(v, c[1])
                          \/ Key(u, c[2]) < Key(v, c[2]) /\ Key(u, c[1]) = Key(v, c[1])
    BY <2>1, <2>3 DEF Less
  <2>. QED
    BY <2>2, <2>4 DEF c
<1>. QED
  BY <1>1, <1>2, <1>3

\* No two users are tied: the order by the name is completed by the id.
LEMMA OrderTotal ==
    ASSUME users \in [User -> RowType], walk \in WalkType, NEW u \in User, NEW v \in User
    PROVE  /\ u # v => Before(u, v) \/ Before(v, u)
           /\ ~(Before(u, v) /\ Before(v, u))
<1>1. u \in Nat /\ v \in Nat /\ users[u].name \in Nat /\ users[v].name \in Nat
  <2>1. users[u].name \in Name \cup {0} /\ users[v].name \in Name \cup {0}
    BY DEF RowType
  <2>2. MaxUser \in Nat /\ \A n \in Name \cup {0} : n \in Nat
    BY ApiAssumption
  <2>3. u \in Nat /\ v \in Nat
    BY <2>2 DEF User
  <2>. QED
    BY <2>1, <2>2, <2>3
<1>2. walk.by \in {"id", "name"}
  BY DEF WalkType
<1>. QED
  BY <1>1, <1>2, LessMeans DEF Before, OrderMeaning

LEMMA RowsFinite ==
    /\ Rows \subseteq User /\ IsFiniteSet(Rows) /\ Cardinality(Rows) \in Nat
    /\ \A u : IsFiniteSet(Ahead(u)) /\ Rank(u) \in Nat
<1>1. Rows \subseteq User /\ \A u : Ahead(u) \subseteq Rows
  BY DEF Rows, Matching, Ahead
<1>2. IsFiniteSet(User)
  BY FS_Interval, ApiAssumption DEF User
<1>3. IsFiniteSet(Rows)
  BY <1>1, <1>2, FS_Subset
<1>4. ASSUME NEW u PROVE IsFiniteSet(Ahead(u)) /\ Rank(u) \in Nat
  BY <1>1, <1>3, FS_Subset, FS_CardinalityType DEF Rank
<1>. QED
  BY <1>1, <1>3, <1>4, FS_CardinalityType

\* There are more users than are ahead of one of them.
LEMMA RankBelowCount ==
    ASSUME users \in [User -> RowType], walk \in WalkType, NEW u \in Rows
    PROVE  Rank(u) < Cardinality(Rows)
<1>1. Ahead(u) \subseteq Rows /\ u \notin Ahead(u)
  BY OrderTotal, RowsFinite DEF Ahead
<1>2. Cardinality(Ahead(u)) <= Cardinality(Rows) /\ Cardinality(Ahead(u)) # Cardinality(Rows)
  BY <1>1, RowsFinite, FS_Subset
<1>. QED
  BY <1>2, RowsFinite DEF Rank

\* A sequence the ORDER BY allows has the users in the order of their ranks.
LEMMA ListingRanks ==
    ASSUME users \in [User -> RowType], walk \in WalkType,
           NEW s \in Listings(Rows, OrderBy(walk.by), walk.dir)
    PROVE  /\ s \in [1..Cardinality(Rows) -> Rows]
           /\ \A i, j \in 1..Cardinality(Rows) : s[i] = s[j] => i = j
           /\ \A u \in Rows : \E i \in 1..Cardinality(Rows) : s[i] = u
           /\ \A i \in 1..Cardinality(Rows) : Rank(s[i]) = i - 1
<1>. DEFINE n == Cardinality(Rows)
<1>0. n \in Nat /\ Rows \subseteq User /\ IsFiniteSet(Rows)
  BY RowsFinite
<1>1. /\ s \in [1..n -> Rows]
      /\ \A i, j \in 1..n : i < j =>
            /\ s[i] # s[j]
            /\ IF walk.dir = "asc" THEN ~Less(s[j], s[i], OrderBy(walk.by))
               ELSE ~Less(s[i], s[j], OrderBy(walk.by))
  BY DEF Listings
<1>. HIDE DEF n
<1>2. \A i, j \in 1..n : s[i] = s[j] => i = j
  BY <1>0, <1>1
<1>3. \A u \in Rows : \E i \in 1..n : s[i] = u
  <2>1. s \in Injection(1..n, Rows)
    BY <1>1, <1>2, Fun_IsInj
  <2>2. Cardinality(1..n) = n
    BY <1>0, FS_Interval
  <2>3. s \in Surjection(1..n, Rows)
    BY <1>0, <2>1, <2>2, FS_Injection DEF n
  <2>. QED
    BY <2>3 DEF Surjection
<1>4. \A i, j \in 1..n : Before(s[j], s[i]) <=> j < i
  <2>. SUFFICES ASSUME NEW i \in 1..n, NEW j \in 1..n
                PROVE  Before(s[j], s[i]) <=> j < i
    OBVIOUS
  <2>1. s[i] \in User /\ s[j] \in User
    BY <1>0, <1>1
  <2>2. /\ i < j => s[i] # s[j] /\ ~Before(s[j], s[i])
        /\ j < i => s[i] # s[j] /\ ~Before(s[i], s[j])
    BY <1>1 DEF Before
  <2>3. i < j \/ j < i \/ i = j
    BY <1>0
  <2>. QED
    BY <1>0, <2>1, <2>2, <2>3, OrderTotal
<1>5. ASSUME NEW i \in 1..n PROVE Rank(s[i]) = i - 1
  <2>. DEFINE m == i - 1
              f == [j \in 1..m |-> s[j]]
  <2>1. m \in Nat /\ 1..m \subseteq 1..n /\ \A j \in 1..n : j \in 1..m <=> j < i
    BY <1>0
  <2>2. Ahead(s[i]) = {s[j] : j \in 1..m}
    BY <1>1, <1>3, <1>4, <2>1 DEF Ahead
  <2>3. f \in Bijection(1..m, Ahead(s[i]))
    <3>1. f \in [1..m -> Ahead(s[i])]
      BY <2>2
    <3>2. \A a, b \in 1..m : f[a] = f[b] => a = b
      BY <1>2, <2>1
    <3>3. \A v \in Ahead(s[i]) : \E j \in 1..m : f[j] = v
      BY <2>2
    <3>. HIDE DEF f
    <3>. QED
      BY <3>1, <3>2, <3>3, Fun_IsBij
  <2>4. ExistsBijection(1..m, Ahead(s[i]))
    BY <2>3, Fun_ExistsBij
  <2>. QED
    BY <2>1, <2>4, FS_CountingElements DEF Rank
<1>. QED
  BY <1>1, <1>2, <1>3, <1>5 DEF n

\* A page has the users whose ranks lie between its offset and the next.
LEMMA PageRanks ==
    ASSUME users \in [User -> RowType], walk \in WalkType,
           NEW s \in Listings(Rows, OrderBy(walk.by), walk.dir),
           NEW page, page = Page(s, PageSize, walk.offset)
    PROVE  /\ Distinct(page)
           /\ \A i \in DOMAIN page : /\ page[i] \in Rows
                                     /\ walk.offset <= Rank(page[i])
                                     /\ Rank(page[i]) < NextOffset
           /\ \A u \in Rows : walk.offset <= Rank(u) /\ Rank(u) < NextOffset
                              => \E i \in DOMAIN page : page[i] = u
<1>. DEFINE n == Cardinality(Rows)
            k == walk.offset
            last == IF k + PageSize <= Len(s) THEN k + PageSize ELSE Len(s)
<1>1. n \in Nat /\ k \in Nat /\ PageSize \in Nat
  BY RowsFinite, ApiAssumption DEF WalkType
<1>2. /\ s \in [1..n -> Rows]
      /\ \A i, j \in 1..n : s[i] = s[j] => i = j
      /\ \A u \in Rows : \E i \in 1..n : s[i] = u
      /\ \A i \in 1..n : Rank(s[i]) = i - 1
  BY ListingRanks
<1>3. s \in Seq(Rows) /\ Len(s) = n
  BY <1>1, <1>2
<1>4. last \in Nat /\ last <= n /\ last <= k + PageSize
      /\ \A i \in 1..n : i <= k + PageSize => i <= last
  BY <1>1, <1>3
<1>5. page = SubSeq(s, k + 1, last)
  BY DEF Page
<1>. HIDE DEF last, k, n
<1>6. /\ page \in Seq(Rows)
      /\ Len(page) = IF k + 1 <= last THEN last - (k + 1) + 1 ELSE 0
      /\ \A i \in 1..Len(page) : page[i] = s[k + i]
  <2>1. \A i \in (k + 1)..last : s[i] \in Rows
    BY <1>1, <1>2, <1>4
  <2>. QED
    BY <1>1, <1>3, <1>4, <1>5, <2>1, SubSeqProperties
<1>7. DOMAIN page = 1..Len(page) /\ Len(page) \in Nat
  BY <1>6
<1>8. \A i \in DOMAIN page : /\ k + i \in 1..n /\ page[i] = s[k + i] /\ i \in Nat
                             /\ k + i <= k + PageSize
  BY <1>1, <1>4, <1>6, <1>7
<1>9. Distinct(page)
  BY <1>1, <1>2, <1>8 DEF Distinct
<1>10. ASSUME NEW i \in DOMAIN page
       PROVE  page[i] \in Rows /\ k <= Rank(page[i]) /\ Rank(page[i]) < k + PageSize
  <2>1. page[i] \in Rows /\ Rank(page[i]) = (k + i) - 1 /\ i >= 1
    BY <1>2, <1>7, <1>8
  <2>. QED
    BY <1>1, <1>8, <2>1
<1>11. ASSUME NEW u \in Rows, k <= Rank(u), Rank(u) < k + PageSize
       PROVE  \E i \in DOMAIN page : page[i] = u
  <2>1. PICK i \in 1..n : s[i] = u /\ Rank(u) = i - 1
    BY <1>2
  <2>2. k + 1 <= i /\ i <= last
    BY <1>1, <1>4, <1>11, <2>1
  <2>3. i - k \in DOMAIN page /\ page[i - k] = s[k + (i - k)] /\ k + (i - k) = i
    BY <1>1, <1>4, <1>6, <1>7, <2>1, <2>2
  <2>. QED
    BY <2>1, <2>3
<1>. QED
  BY <1>9, <1>10, <1>11 DEF k, NextOffset
-----------------------------------------------------------------------------
(* What a step does to the ranks.                                          *)

SameOrder == \A u, v \in Rows \cap Rows' : Before(u, v)' <=> Before(u, v)

\* While nobody leaves or moves, no user gets nearer to the front.
LEMMA RanksRise ==
    ASSUME Rows \subseteq Rows', SameOrder, NEW u \in Rows
    PROVE  Rank(u) <= Rank(u)'
<1>1. IsFiniteSet(Ahead(u)')
  <2>1. Ahead(u)' \subseteq User
    BY DEF Ahead, Rows, Matching
  <2>2. IsFiniteSet(User)
    BY FS_Interval, ApiAssumption DEF User
  <2>. QED
    BY <2>1, <2>2, FS_Subset
<1>2. Ahead(u) \subseteq Ahead(u)'
  BY DEF SameOrder, Ahead
<1>3. Cardinality(Ahead(u)) <= Cardinality(Ahead(u)')
  BY <1>1, <1>2, FS_Subset
<1>. QED
  BY <1>3 DEF Rank

\* While nobody comes or moves, no user gets farther from the front.
LEMMA RanksFall ==
    ASSUME Rows' \subseteq Rows, SameOrder, NEW u \in Rows'
    PROVE  Rank(u)' <= Rank(u)
<1>1. IsFiniteSet(Ahead(u))
  BY RowsFinite
<1>2. Ahead(u)' \subseteq Ahead(u)
  BY DEF SameOrder, Ahead
<1>3. Cardinality(Ahead(u)') <= Cardinality(Ahead(u))
  BY <1>1, <1>2, FS_Subset
<1>. QED
  BY <1>3 DEF Rank

\* The walk stays where it is and only notes what happens to the listing.
Flagged ==
    walk' \in {walk, [walk EXCEPT !.grew = TRUE], [walk EXCEPT !.shrank = TRUE],
               [walk EXCEPT !.renamed = TRUE]}
Continues ==
    /\ walk'.at = walk.at /\ walk'.offset = walk.offset
    /\ walk'.got = walk.got /\ walk'.start = walk.start
    /\ walk.grew => walk'.grew
    /\ walk.shrank => walk'.shrank
    /\ walk.renamed => walk'.renamed
    /\ walk.at = "on" =>
         /\ Rows \subseteq Rows' \/ walk'.shrank \/ walk'.renamed
         /\ Rows' \subseteq Rows \/ walk'.grew \/ walk'.renamed
         /\ SameOrder \/ walk'.renamed

LEMMA FlagsOnly ==
    ASSUME walk \in WalkType, Flagged
    PROVE  /\ walk'.at = walk.at /\ walk'.offset = walk.offset
           /\ walk'.got = walk.got /\ walk'.start = walk.start
           /\ walk'.by = walk.by /\ walk'.dir = walk.dir /\ walk'.search = walk.search
           /\ walk.grew => walk'.grew
           /\ walk.shrank => walk'.shrank
           /\ walk.renamed => walk'.renamed
BY DEF Flagged, WalkType

LEMMA OrderKept ==
    ASSUME walk \in WalkType, Flagged,
           \/ walk.by = "id"
           \/ \A u \in Rows \cap Rows' : users'[u].name = users[u].name
    PROVE  SameOrder
<1>. SUFFICES ASSUME NEW u \in Rows \cap Rows', NEW v \in Rows \cap Rows'
              PROVE  Before(u, v)' <=> Before(u, v)
  BY DEF SameOrder
<1>1. walk'.by = walk.by /\ walk'.dir = walk.dir /\ walk.by \in {"id", "name"}
  BY FlagsOnly DEF WalkType
<1>2. OrderMeaning'
  BY LessMeans, PTL
<1>3. CASE walk.by = "id"
  BY <1>1, <1>2, <1>3, LessMeans DEF Before, OrderMeaning
<1>4. CASE walk.by = "name" /\ \A x \in Rows \cap Rows' : users'[x].name = users[x].name
  <2>1. users'[u].name = users[u].name /\ users'[v].name = users[v].name
    BY <1>4
  <2>. QED
    BY <1>1, <1>2, <1>4, <2>1, LessMeans DEF Before, OrderMeaning
<1>. QED
  BY <1>1, <1>3, <1>4

\* The table looks the same to everybody.
LEMMA Unseen ==
    ASSUME walk \in WalkType, Flagged,
           \A u \in User : /\ Stored(u)' <=> Stored(u)
                           /\ Stored(u) => users'[u].name = users[u].name
    PROVE  Continues
<1>1. walk'.search = walk.search
  BY FlagsOnly
<1>2. Rows' = Rows /\ \A u \in Rows : users'[u].name = users[u].name
  BY <1>1 DEF Rows, Matching
<1>. QED
  BY <1>2, FlagsOnly, OrderKept DEF Continues

LEMMA AppliedWalk ==
    ASSUME Inv, NEW r \in Request, req[r].at = "run", Applies(req[r]),
           users' = Applied(req[r]), walk' = Noticed(req[r])
    PROVE  Continues
<1>. DEFINE q == req[r]
            id == q.id
<1>1. users \in [User -> RowType] /\ walk \in WalkType
  BY DEF Inv
<1>2. Flagged
  BY DEF Flagged, Noticed
<1>3. /\ Head(q.todo) = "commit" => id \in User /\ users[id].st = "pending"
      /\ Head(q.todo) \in OnUser => id \in User /\ Stored(id)
  BY Pending DEF Applies, Stored
<1>4. walk.at = "on" => walk'.at = "on"
  BY <1>1, <1>2, FlagsOnly
<1>5. CASE Head(q.todo) \in {"bumpVersion", "updatePassword"}
  <2>1. id \in User /\ Stored(id)
    BY <1>3, <1>5 DEF OnUser
  <2>2. \E b : /\ users' = [users EXCEPT ![id] = b]
               /\ b.st = users[id].st /\ b.name = users[id].name
    <3>. DEFINE b == [users[id] EXCEPT !.ver = NextVersion(users[id].ver)]
                c == [users[id] EXCEPT !.ver = NextVersion(users[id].ver),
                                       !.pw = CHOOSE pw \in q.new : TRUE]
    <3>1. users[id] \in RowType
      BY <1>1, <2>1
    <3>2. b.st = users[id].st /\ b.name = users[id].name
          /\ c.st = users[id].st /\ c.name = users[id].name
      BY <3>1 DEF RowType
    <3>3. CASE Head(q.todo) = "bumpVersion"
      <4>1. users' = [users EXCEPT ![id] = b]
        BY <2>1, <3>3 DEF Applied
      <4>. QED
        BY <3>2, <4>1
    <3>4. CASE Head(q.todo) = "updatePassword"
      <4>1. users' = [users EXCEPT ![id].ver = NextVersion(@),
                                   ![id].pw = CHOOSE pw \in q.new : TRUE]
        BY <2>1, <3>4 DEF Applied
      <4>2. users' = [users EXCEPT ![id] = c]
        BY <1>1, <2>1, <4>1
      <4>. QED
        BY <3>2, <4>2
    <3>. QED
      BY <1>5, <3>3, <3>4
  <2>. QED
    BY <1>1, <1>2, <2>1, <2>2, Unseen DEF Stored
<1>6. CASE Head(q.todo) = "updateUser"
  <2>1. id \in User /\ Stored(id)
    BY <1>3, <1>6 DEF OnUser
  <2>. DEFINE b == [users[id] EXCEPT !.name = CHOOSE n \in q.new : TRUE]
  <2>2. users' = [users EXCEPT ![id] = b]
    BY <1>6, <2>1 DEF Applied
  <2>3. b.st = users[id].st
    BY <1>1, <2>1 DEF RowType
  <2>. HIDE DEF b
  <2>4. \A u \in User : Stored(u)' <=> Stored(u)
    BY <1>1, <2>1, <2>2, <2>3 DEF Stored
  <2>5. CASE walk.at = "on" /\ (walk.by = "name" \/ walk.search # 0)
    <3>1. walk' = [walk EXCEPT !.renamed = TRUE]
      BY <1>6, <2>5 DEF Noticed
    <3>2. walk'.renamed
      BY <1>1, <3>1 DEF WalkType
    <3>. QED
      BY <1>1, <1>2, <3>2, FlagsOnly DEF Continues
  <2>6. CASE walk.at = "on" /\ walk.by = "id" /\ walk.search = 0
    <3>1. walk'.search = 0
      BY <1>1, <1>2, <2>6, FlagsOnly
    <3>2. Rows' = Rows
      BY <2>4, <2>6, <3>1 DEF Rows, Matching
    <3>. QED
      BY <1>1, <1>2, <2>6, <3>2, FlagsOnly, OrderKept DEF Continues
  <2>. QED
    BY <1>1, <1>2, <2>5, <2>6, FlagsOnly DEF Continues, WalkType
<1>7. CASE Head(q.todo) = "deleteUser"
  <2>1. id \in User /\ Stored(id)
    BY <1>3, <1>7 DEF OnUser
  <2>. DEFINE b == [NoRow EXCEPT !.st = "gone", !.ver = users[id].ver]
  <2>2. users' = [users EXCEPT ![id] = b]
    BY <1>7, <2>1 DEF Applied
  <2>3. b.st = "gone"
    BY NoRowType DEF RowType
  <2>. HIDE DEF b
  <2>4. \A u \in User : Stored(u)' => Stored(u) /\ users'[u].name = users[u].name
    BY <1>1, <2>1, <2>2, <2>3 DEF Stored
  <2>5. walk.at = "on" => walk'.shrank
    BY <1>1, <1>7 DEF Noticed, WalkType
  <2>6. walk'.search = walk.search
    BY <1>1, <1>2, FlagsOnly
  <2>7. Rows' \subseteq Rows /\ \A u \in Rows' : users'[u].name = users[u].name
    BY <2>4, <2>6 DEF Rows, Matching
  <2>8. SameOrder
    BY <1>1, <1>2, <2>7, OrderKept
  <2>. QED
    BY <1>1, <1>2, <2>5, <2>7, <2>8, FlagsOnly DEF Continues
<1>8. CASE Head(q.todo) = "commit"
  <2>1. id \in User /\ users[id].st = "pending"
    BY <1>3, <1>8
  <2>. DEFINE b == [users[id] EXCEPT !.st = "stored"]
  <2>2. users' = [users EXCEPT ![id] = b]
    BY <1>8 DEF Applied
  <2>. HIDE DEF b
  <2>3. \A u \in User : Stored(u) => Stored(u)' /\ users'[u].name = users[u].name
    BY <1>1, <2>1, <2>2 DEF Stored
  <2>4. walk.at = "on" => walk'.grew
    BY <1>1, <1>8 DEF Noticed, WalkType
  <2>5. walk'.search = walk.search
    BY <1>1, <1>2, FlagsOnly
  <2>6. Rows \subseteq Rows' /\ \A u \in Rows : users'[u].name = users[u].name
    BY <2>3, <2>5 DEF Rows, Matching
  <2>7. SameOrder
    BY <1>1, <1>2, <2>6, OrderKept
  <2>. QED
    BY <1>1, <1>2, <2>4, <2>6, <2>7, FlagsOnly DEF Continues
<1>9. CASE Head(q.todo) \notin {"bumpVersion", "updatePassword", "updateUser", "deleteUser", "commit"}
  <2>1. users' = users
    BY <1>9 DEF Applied
  <2>. QED
    BY <1>1, <1>2, <2>1, Unseen DEF Stored
<1>. QED
  BY <1>5, <1>6, <1>7, <1>8, <1>9

LEMMA AbortedWalk ==
    ASSUME Inv, NEW r \in Request, req[r].at \in {"authenticate", "handle", "run"},
           users' = Aborted(req[r]), walk' = walk
    PROVE  Continues
<1>. DEFINE q == req[r]
<1>1. users \in [User -> RowType] /\ walk \in WalkType /\ RequestInv(q)
  BY DEF Inv
<1>2. (q.op = "CreateUser" /\ q.id \in User) => users[q.id].st = "pending"
  <2>1. NoUser \notin User
    BY DEF NoUser, User
  <2>. QED
    BY <1>1, <2>1, Pending DEF RequestInv
<1>3. CASE ~(q.op = "CreateUser" /\ q.id \in User)
  <2>1. users' = users
    BY <1>3 DEF Aborted
  <2>. QED
    BY <1>1, <2>1, Unseen DEF Flagged, Stored
<1>4. CASE q.op = "CreateUser" /\ q.id \in User
  <2>. DEFINE b == [NoRow EXCEPT !.st = "void"]
  <2>1. users' = [users EXCEPT ![q.id] = b]
    BY <1>4 DEF Aborted
  <2>2. b.st = "void"
    BY NoRowType DEF RowType
  <2>. HIDE DEF b
  <2>3. \A u \in User : /\ Stored(u)' <=> Stored(u)
                        /\ Stored(u) => users'[u].name = users[u].name
    BY <1>1, <1>2, <1>4, <2>1, <2>2 DEF Stored
  <2>. QED
    BY <1>1, <2>3, Unseen DEF Flagged
<1>. QED
  BY <1>3, <1>4

\* A row inserted is not committed yet, so nobody lists it.
LEMMA InsertWalk ==
    ASSUME Inv, NEW r \in Request, InsertUser(r)
    PROVE  Continues
<1>. DEFINE id == req'[r].id
<1>1. /\ users \in [User -> RowType] /\ walk \in WalkType
      /\ req \in [Request -> RequestType] /\ RequestInv(req[r])
  BY DEF Inv
<1>2. id \in User /\ users[id].st = "free"
      /\ \E n \in Name : users' = [users EXCEPT ![id] = Row("pending", n, FirstPassword, 0)]
  BY <1>1, InsertUserStep
<1>3. PICK n \in Name : users' = [users EXCEPT ![id] = Row("pending", n, FirstPassword, 0)]
  BY <1>2
<1>4. Row("pending", n, FirstPassword, 0).st = "pending"
  BY DEF Row
<1>5. \A u \in User : /\ Stored(u)' <=> Stored(u)
                      /\ Stored(u) => users'[u].name = users[u].name
  BY <1>1, <1>2, <1>3, <1>4 DEF Stored
<1>6. walk' = walk
  BY DEF InsertUser
<1>. QED
  BY <1>1, <1>5, <1>6, Unseen DEF Flagged

LEMMA SameWalk ==
    ASSUME Inv, users' = users, walk' = walk
    PROVE  Continues
<1>1. walk \in WalkType
  BY DEF Inv
<1>. QED
  BY <1>1, Unseen DEF Flagged, Stored

\* A step goes on with the walk, begins it or takes the next page.
BeginsWalk ==
    /\ users' = users /\ walk.at = "none"
    /\ \E by \in {"id", "name"}, dir \in {"asc", "desc"}, search \in Search :
          walk' = [NoWalk EXCEPT !.at = "on", !.by = by, !.dir = dir, !.search = search,
                                 !.start = Matching(search)]

\* What a step of any connection does to the table the walk reads, and to what the
\* walk remembers of it.
LEMMA WalkSteps ==
    ASSUME Inv, NEW r \in Request,
           \/ Arrive(r) \/ Authenticate(r) \/ Handle(r) \/ Step(r) \/ Fail(r)
           \/ AuthenticateFail(r) \/ Panic(r) \/ Recover(r) \/ Respond(r) \/ RetryPage(r)
    PROVE  Continues \/ (BeginsWalk /\ r = Walker /\ Arrive(r))
<1>1. CASE Arrive(r)
  <2>1. users' = users
    BY <1>1 DEF Arrive
  <2>2. CASE r = Walker /\ walk.at = "none"
    BY <1>1, <2>1, <2>2 DEF Arrive, WalkOn, BeginsWalk
  <2>3. CASE ~(r = Walker /\ walk.at = "none")
    <3>1. walk' = walk
      BY <1>1, <2>3 DEF Arrive, WalkOn
    <3>. QED
      BY <2>1, <3>1, SameWalk
  <2>. QED
    BY <2>2, <2>3
<1>2. CASE Authenticate(r) \/ Handle(r) \/ AuthenticateFail(r) \/ Recover(r)
           \/ Respond(r) \/ RetryPage(r) \/ Quiet(r)
  <2>1. users' = users /\ walk' = walk
    BY <1>2 DEF Authenticate, Handle, AuthenticateFail, Recover, Respond, RetryPage, Quiet,
       NoRows, Lookup, FindSession, RotateNothing, Conflict, ListUsers, CountUsers
  <2>. QED
    BY <2>1, SameWalk
<1>3. CASE Panic(r)
  BY <1>3, AbortedWalk DEF Panic
<1>4. CASE InsertUser(r)
  BY <1>4, InsertWalk
<1>5. CASE Execute(r)
  BY <1>5, AppliedWalk DEF Execute, TakesEffect, Runs
<1>6. CASE Fail(r)
  <2>. DEFINE q == req[r]
  <2>1. \/ users' = Aborted(q) /\ walk' = walk
        \/ /\ Applies(q) /\ walk' = Noticed(q)
           /\ users' = IF Head(q.todo) = "recordEvent" THEN Aborted(q) ELSE Applied(q)
    BY <1>6 DEF Fail
  <2>2. Head(q.todo) = "recordEvent" => Noticed(q) = walk
    BY DEF Noticed
  <2>3. q.at = "run"
    BY <1>6 DEF Fail
  <2>. QED
    BY <2>1, <2>2, <2>3, AbortedWalk, AppliedWalk
<1>. QED
  BY <1>1, <1>2, <1>3, <1>4, <1>5, <1>6 DEF Step, Quiet
-----------------------------------------------------------------------------
(* The client's own request.                                               *)

SamePage(p, q) ==
    /\ Listed(p) => Listed(q) /\ p.page = q.page
    /\ Counted(p) => Counted(q) /\ p.page = q.page /\ p.total = q.total

\* It has no page once it is answered with an error.
LEMMA NoPage ==
    ASSUME NEW q \in RequestType, NEW error \in AppError, NEW p, p = WriteError(q, error)
    PROVE  ~Listed(p) /\ ~Counted(p)
<1>1. p.at = "answer" /\ p.status = Code(error)
  BY Written
<1>2. ~Good(Code(error))
  BY StatusOf
<1>. QED
  BY <1>1, <1>2 DEF Listed, Counted, Good

\* The two statements of a listing are read in this order.
LEMMA ListStages ==
    ASSUME NEW q, Working(q), q.op = "ListUsers"
    PROVE  q.todo = <<"listUsers", "countUsers">> \/ q.todo = <<"countUsers">>
BY DEF Working, Stage, One, Two, Three

\* ListUsers has read the page that begins at the walk's offset.
ReadsPage(p) ==
    /\ users' = users /\ walk' = walk
    /\ Listed(p) /\ ~Counted(p)
    /\ \E s \in Listings(Rows, OrderBy(walk.by), walk.dir) :
          p.page = Page(s, PageSize, walk.offset)
CountsRows(p, q) ==
    /\ users' = users /\ walk' = walk
    /\ Listed(q) /\ ~Listed(p) /\ p.page = q.page /\ p.total = Cardinality(Rows)

LEMMA WalkerStatement ==
    ASSUME Inv, UserInv, Walker \in Request, Step(Walker)
    PROVE  LET q == req[Walker]  p == req'[Walker]
           IN  ReadsPage(p) \/ CountsRows(p, q)
<1>. DEFINE q == req[Walker]
            p == req'[Walker]
<1>1. /\ req \in [Request -> RequestType] /\ RequestInv(q) /\ PagingInv(Walker)
  BY DEF Inv, UserInv
<1>2. q.at = "run"
  BY DEF Step, NoRows, Lookup, FindSession, RotateNothing, Execute, InsertUser, Conflict,
     ListUsers, CountUsers, Runs
<1>3. Working(q) /\ q.op = "ListUsers"
  <2>1. Working(q)
    BY <1>1, <1>2, Works
  <2>. QED
    BY <1>1, <2>1 DEF PagingInv, Working, Operation
<1>4. q.todo = <<"listUsers", "countUsers">> \/ q.todo = <<"countUsers">>
  BY <1>3, ListStages
<1>5. Head(q.todo) \in {"listUsers", "countUsers"}
  BY <1>4
<1>6. ListUsers(Walker) \/ CountUsers(Walker)
  BY <1>5 DEF Step, NoRows, Lookup, FindSession, RotateNothing, Execute, InsertUser, Conflict,
     Runs, OnUser, Writing
<1>7. CASE ListUsers(Walker)
  <2>1. PICK s \in Listings(Rows, OrderBy(walk.by), walk.dir) :
           p = Proceed([q EXCEPT !.page = Page(s, PageSize, walk.offset)])
    BY <1>1, <1>7 DEF ListUsers, Set, Rows
  <2>. DEFINE page == Page(s, PageSize, walk.offset)
              b == [q EXCEPT !.page = page]
  <2>. HIDE DEF page
  <2>2. b.at = "run" /\ b.todo = q.todo /\ b.page = page
    BY <1>1, <1>2 DEF RequestType
  <2>3. q.todo = <<"listUsers", "countUsers">>
    BY <1>4, <1>7 DEF ListUsers, Runs
  <2>4. Len(q.todo) > 1 /\ Tail(q.todo) = <<"countUsers">>
    BY <2>3
  <2>5. p = [b EXCEPT !.todo = Tail(@)]
    BY <2>1, <2>2, <2>4 DEF Proceed, page
  <2>6. p.at = "run" /\ p.todo = <<"countUsers">> /\ p.page = page
    BY <1>1, <2>2, <2>4, <2>5 DEF RequestType
  <2>7. Listed(p) /\ ~Counted(p)
    BY <2>6 DEF Listed, Counted
  <2>. QED
    BY <1>7, <2>6, <2>7 DEF ReadsPage, ListUsers, page
<1>8. CASE CountUsers(Walker)
  <2>. DEFINE b == [q EXCEPT !.total = Cardinality(Rows)]
  <2>1. p = Proceed(b)
    BY <1>1, <1>8 DEF CountUsers, Set, Rows
  <2>2. b.todo = q.todo /\ b.page = q.page /\ b.total = Cardinality(Rows)
    BY <1>1 DEF RequestType
  <2>3. q.todo = <<"countUsers">>
    BY <1>4, <1>8 DEF CountUsers, Runs
  <2>4. ~(Len(q.todo) > 1)
    BY <2>3
  <2>5. p = Reply(b, Success(b.op))
    BY <2>1, <2>2, <2>4 DEF Proceed
  <2>6. p.at = "answer" /\ p.page = q.page /\ p.total = Cardinality(Rows)
    BY <1>1, <2>2, <2>5 DEF RequestType, Reply
  <2>7. Listed(q) /\ ~Listed(p)
    BY <1>2, <1>8, <2>6 DEF Listed, CountUsers, Runs
  <2>. QED
    BY <1>8, <2>6, <2>7 DEF CountsRows, CountUsers
<1>. QED
  BY <1>6, <1>7, <1>8


\* How a request comes in.
Entered(p, call, token, q) ==
    /\ q.asked = call.op /\ q.op = OpOf(call) /\ q.id = NoUser /\ q.old = {} /\ ~q.panicked
    /\ \/ q.op = "none" /\ p = WriteError(q, "NotFound")
       \/ q.op \in Pages /\ p = Reply(q, 200)
       \/ q.op \in Operation /\ Binds(q.op) /\ p = WriteError(q, "BadRequest")
       \/ q.op \in Operation /\ Open(q.op, token) /\ p = [q EXCEPT !.at = "handle"]
       \/ /\ q.op \in Operation /\ ~Open(q.op, token)
          /\ \/ token = NoToken /\ p = WriteError(q, "Unauthorized")
             \/ token \in Tokens /\ p = [q EXCEPT !.at = "authenticate", !.claims = token]

LEMMA Entrance ==
    ASSUME NEW r \in Request, req \in [Request -> RequestType], Arrive(r)
    PROVE  \E call \in CallsOn(r), token \in {NoToken} \cup Tokens, q \in RequestType :
              Entered(req'[r], call, token, q)
<1>1. PICK call \in CallsOn(r), token \in {NoToken} \cup Tokens, bound \in BOOLEAN :
         /\ bound \/ Binds(OpOf(call))
         /\ req' = [req EXCEPT ![r] =
                       Enter([Idle EXCEPT !.asked = call.op, !.op = OpOf(call),
                                          !.entitled = Entitled(call.op, token)], token, bound)]
  BY DEF Arrive
<1>. DEFINE q == [Idle EXCEPT !.asked = call.op, !.op = OpOf(call),
                              !.entitled = Entitled(call.op, token)]
<1>2. call \in Calls
  BY DEF CallsOn
<1>3. Entitled(call.op, token) \in BOOLEAN
  BY DEF Entitled, Current, Stored
<1>4. call.op \in Asked /\ OpOf(call) \in Operation \cup Pages \cup {"none"}
  BY <1>2, CallNames, Routed DEF Asked
<1>5. q \in RequestType
  BY <1>3, <1>4, IdleType DEF RequestType
<1>6. q.asked = call.op /\ q.op = OpOf(call) /\ q.id = NoUser /\ q.old = {} /\ ~q.panicked
  BY DEF Idle
<1>7. req'[r] = Enter(q, token, bound)
  BY <1>1
<1>. HIDE DEF q
<1>8. "none" \notin Operation \cup Pages /\ Pages \cap Operation = {}
  BY PageNames DEF Operation
<1>9. Entered(req'[r], call, token, q)
  BY <1>1, <1>4, <1>6, <1>7, <1>8 DEF Entered, Enter
<1>. QED
  BY <1>5, <1>9

LEMMA WalkerEnters ==
    ASSUME Inv, Walker \in Request, Arrive(Walker)
    PROVE  ~Listed(req'[Walker]) /\ ~Counted(req'[Walker])
<1>. DEFINE p == req'[Walker]
<1>1. req \in [Request -> RequestType]
  BY DEF Inv
<1>2. PICK call \in CallsOn(Walker), token \in {NoToken} \cup Tokens, q \in RequestType :
         Entered(p, call, token, q)
  BY <1>1, Entrance
<1>3. q.op \notin Pages
  <2>1. call \in Calls /\ call.op = "ListUsers" /\ q.op = OpOf(call)
    BY <1>2 DEF CallsOn, Entered
  <2>. QED
    BY <2>1, Routed, PageNames
<1>4. \/ p.at \in {"handle", "authenticate"}
      \/ \E error \in AppError : p = WriteError(q, error)
  BY <1>2, <1>3 DEF Entered, AppError, RequestType
<1>. QED
  BY <1>4, NoPage DEF Listed, Counted

\* The other steps of its own leave the page as it is or the request without.
LEMMA WalkerRest ==
    ASSUME Inv, UserInv, Walker \in Request,
           \/ Authenticate(Walker) \/ Handle(Walker) \/ Fail(Walker) \/ AuthenticateFail(Walker)
           \/ Panic(Walker) \/ Recover(Walker) \/ Respond(Walker) \/ RetryPage(Walker)
    PROVE  SamePage(req'[Walker], req[Walker])
<1>. DEFINE q == req[Walker]
            p == req'[Walker]
<1>1. /\ req \in [Request -> RequestType] /\ RequestInv(q) /\ PagingInv(Walker)
      /\ q \in RequestType /\ [q EXCEPT !.claims = NoToken] \in RequestType
  BY TokenType, Given DEF Inv, UserInv
<1>2. {"Unauthorized", "Internal", "BadRequest", "TooLarge", "Validation"} \subseteq AppError
  BY DEF AppError
<1>3. CASE Authenticate(Walker)
  <2>1. \/ p = [q EXCEPT !.at = "handle"]
        \/ p = WriteError([q EXCEPT !.claims = NoToken], "Unauthorized")
    BY <1>1, <1>3 DEF Authenticate
  <2>2. p = [q EXCEPT !.at = "handle"] => ~Listed(p) /\ ~Counted(p)
    BY <1>1 DEF Listed, Counted, RequestType
  <2>. QED
    BY <1>1, <1>2, <2>1, <2>2, NoPage DEF SamePage
<1>4. CASE Handle(Walker)
  <2>1. q.op = "ListUsers"
    BY <1>1, <1>4 DEF Handle, RequestInv, PagingInv, Operation
  <2>2. CASE \E error \in Undecoded(q.op) \cup Invalid(q.op) \cup Unlistable(q.op) :
                req' = [req EXCEPT ![Walker] = WriteError([q EXCEPT !.claims = NoToken], error)]
    <3>1. PICK error \in AppError : p = WriteError([q EXCEPT !.claims = NoToken], error)
      BY <1>1, <1>2, <2>2 DEF Undecoded, Invalid, Unlistable, Oversized
    <3>. QED
      BY <1>1, <3>1, NoPage DEF SamePage
  <2>3. CASE \E id \in Subjects(q), old \in Presents(q.op), new \in Stores(q.op) :
                req' = [req EXCEPT ![Walker] =
                          Begin([q EXCEPT !.claims = NoToken, !.id = id, !.old = old, !.new = new,
                                          !.known = IF id \in User /\ q.op = "ChangeUserPassword"
                                                    THEN {users[id].pw} ELSE {}])]
    <3>1. PICK id \in Subjects(q), old \in Presents(q.op), new \in Stores(q.op) :
             p = Begin([q EXCEPT !.claims = NoToken, !.id = id, !.old = old, !.new = new,
                                 !.known = IF id \in User /\ q.op = "ChangeUserPassword"
                                           THEN {users[id].pw} ELSE {}])
      BY <1>1, <2>3
    <3>. DEFINE b == [q EXCEPT !.claims = NoToken, !.id = id, !.old = old, !.new = new,
                               !.known = IF id \in User /\ q.op = "ChangeUserPassword"
                                         THEN {users[id].pw} ELSE {}]
    <3>2. p = Begin(b)
      BY <3>1
    <3>3. b.op = "ListUsers" /\ DOMAIN b = DOMAIN q /\ "at" \in DOMAIN b /\ "todo" \in DOMAIN b
      BY <1>1, <2>1 DEF RequestType
    <3>. HIDE DEF b
    <3>4. Program["ListUsers"] = <<"listUsers", "countUsers">>
      BY DEF Program, Operation, SessionProgram, AccountProgram, ListProgram
    <3>5. p = [b EXCEPT !.at = "run", !.todo = <<"listUsers", "countUsers">>]
      BY <3>2, <3>3, <3>4 DEF Begin
    <3>6. p.at = "run" /\ p.todo = <<"listUsers", "countUsers">>
      BY <3>3, <3>5
    <3>. QED
      BY <3>6 DEF SamePage, Listed, Counted
  <2>. QED
    BY <1>4, <2>2, <2>3 DEF Handle
<1>5. CASE Fail(Walker)
  <2>1. \E b \in RequestType, error \in AppError : p = WriteError(b, error)
    <3>1. Failure(q.op, Head(q.todo), "driver") \in AppError
      BY FailureKinds
    <3>2. Head(q.todo) \in Writing => Took(q) \in RequestType
      BY <1>1, Moved DEF Took, RequestType
    <3>3. \/ req' = [req EXCEPT ![Walker] = WriteError(q, Failure(q.op, Head(q.todo), "driver"))]
          \/ /\ Head(q.todo) \in Writing
             /\ req' = [Learned(q) EXCEPT ![Walker] =
                          WriteError(Took(q), Failure(q.op, Head(q.todo), "driver"))]
      BY <1>5 DEF Fail, Set
    <3>4. Walker \in DOMAIN Learned(q)
      BY DEF Learned
    <3>. QED
      BY <1>1, <3>1, <3>2, <3>3, <3>4
  <2>. QED
    BY <2>1, NoPage DEF SamePage
<1>6. CASE AuthenticateFail(Walker)
  BY <1>1, <1>2, <1>6, NoPage DEF AuthenticateFail, Set, SamePage
<1>7. CASE Panic(Walker)
  <2>1. p = [q EXCEPT !.at = "panic", !.todo = << >>, !.claims = NoToken, !.panicked = TRUE]
    BY <1>1, <1>7 DEF Panic, Set
  <2>2. p.at = "panic"
    BY <1>1, <2>1 DEF RequestType
  <2>. QED
    BY <2>2 DEF SamePage, Listed, Counted
<1>8. CASE Recover(Walker)
  <2>1. p = WriteError(q, "Internal")
    BY <1>1, <1>8 DEF Recover
  <2>. QED
    BY <1>1, <1>2, <2>1, NoPage DEF SamePage
<1>9. CASE Respond(Walker)
  <2>1. PICK log \in {IF LoggerReturns(q) THEN {LogLine(q)} ELSE {}} :
           p = [q EXCEPT !.at = "done", !.log = log]
    BY <1>1, <1>9 DEF Respond
  <2>2. p.at = "done" /\ p.status = q.status /\ p.page = q.page /\ p.total = q.total
    BY <1>1, <2>1 DEF RequestType
  <2>3. q.at = "answer"
    BY <1>9 DEF Respond
  <2>. QED
    BY <2>2, <2>3 DEF SamePage, Listed, Counted
<1>10. CASE RetryPage(Walker)
  <2>1. p = Idle
    BY <1>1, <1>10 DEF RetryPage, Set
  <2>. QED
    BY <2>1 DEF SamePage, Listed, Counted, Idle
<1>. QED
  BY <1>3, <1>4, <1>5, <1>6, <1>7, <1>8, <1>9, <1>10

\* Other connections do not touch it.
LEMMA OthersStep ==
    ASSUME Inv, UserInv, Walker \in Request, NEW r \in Request \ {Walker},
           \/ Arrive(r) \/ Authenticate(r) \/ Handle(r) \/ Step(r) \/ Fail(r)
           \/ AuthenticateFail(r) \/ Panic(r) \/ Recover(r) \/ Respond(r)
           \/ TakePage(r) \/ RetryPage(r)
    PROVE  req'[Walker] = req[Walker]
<1>1. /\ req \in [Request -> RequestType] /\ PagingInv(Walker)
      /\ \A x \in Request : RequestInv(req[x])
  BY DEF Inv, UserInv
<1>2. Learned(req[r])[Walker] = req[Walker]
  BY <1>1 DEF Learned, Overlaps, PagingInv
<1>3. CASE Fail(r)
  BY <1>1, <1>2, <1>3, FailKeeps
<1>4. CASE Execute(r)
  BY <1>2, <1>4 DEF Execute, Learned
<1>5. CASE InsertUser(r)
  BY <1>1, <1>5 DEF InsertUser, Set
<1>6. CASE Quiet(r)
  <2>1. req' = [req EXCEPT ![r] = req'[r]]
    BY <1>1, <1>6, QuietStep DEF Inv
  <2>. QED
    BY <1>1, <2>1
<1>7. CASE Arrive(r)
  BY <1>1, <1>7 DEF Arrive
<1>8. CASE Authenticate(r) \/ Recover(r) \/ Respond(r) \/ AuthenticateFail(r) \/ Panic(r)
           \/ TakePage(r) \/ RetryPage(r)
  BY <1>1, <1>8 DEF Authenticate, Recover, Respond, AuthenticateFail, Panic, TakePage, RetryPage, Set
<1>9. CASE Handle(r)
  BY <1>1, <1>9 DEF Handle
<1>. QED
  BY <1>3, <1>4, <1>5, <1>6, <1>7, <1>8, <1>9 DEF Step, Quiet

\* What a step does to the client's request while the walk goes on.
LEMMA WalkerStep ==
    ASSUME Inv, UserInv, Walker \in Request, NEW r \in Request,
           \/ Arrive(r) \/ Authenticate(r) \/ Handle(r) \/ Step(r) \/ Fail(r)
           \/ AuthenticateFail(r) \/ Panic(r) \/ Recover(r) \/ Respond(r) \/ RetryPage(r)
    PROVE  LET q == req[Walker]  p == req'[Walker]
           IN  SamePage(p, q) \/ ReadsPage(p) \/ CountsRows(p, q)
<1>1. CASE r # Walker
  <2>1. req'[Walker] = req[Walker]
    BY <1>1, OthersStep
  <2>. QED
    BY <2>1 DEF SamePage
<1>2. CASE r = Walker /\ Arrive(Walker)
  BY <1>2, WalkerEnters DEF SamePage
<1>3. CASE r = Walker /\ Step(Walker)
  BY <1>3, WalkerStatement
<1>4. CASE r = Walker /\ ~Arrive(Walker) /\ ~Step(Walker)
  BY <1>4, WalkerRest
<1>. QED
  BY <1>1, <1>2, <1>3, <1>4
-----------------------------------------------------------------------------
(* The walk's invariant.                                                   *)

LEMMA SameRanks ==
    ASSUME users' = users, walk'.by = walk.by, walk'.dir = walk.dir, walk'.search = walk.search
    PROVE  Rows' = Rows /\ \A u : Rank(u)' = Rank(u)
<1>1. Rows' = Rows
  BY DEF Rows, Matching, Stored
<1>2. ASSUME NEW u, NEW v
      PROVE  Before(v, u)' <=> Before(v, u)
  BY DEF Before, Less, Key
<1>3. \A u : Ahead(u)' = Ahead(u)
  BY <1>1, <1>2 DEF Ahead
<1>. QED
  BY <1>1, <1>3 DEF Rank

LEMMA BeginsKept ==
    ASSUME Inv, BeginsWalk, Walker \in Request =>
              ~Listed(req'[Walker]) /\ ~Counted(req'[Walker])
    PROVE  MissInv' /\ RepeatInv'
<1>1. PICK by \in {"id", "name"}, dir \in {"asc", "desc"}, search \in Search :
         walk' = [NoWalk EXCEPT !.at = "on", !.by = by, !.dir = dir, !.search = search,
                                !.start = Matching(search)]
  BY DEF BeginsWalk
<1>2. walk'.at = "on" /\ walk'.offset = 0 /\ walk'.got = << >>
      /\ walk'.search = search /\ walk'.start = Matching(search)
  BY <1>1 DEF NoWalk
<1>3. users' = users
  BY DEF BeginsWalk
<1>4. Rows' = walk'.start
  BY <1>2, <1>3 DEF Rows, Matching, Stored
<1>5. ~HasPage'
  BY DEF HasPage
<1>6. Seen' = {} /\ Distinct(walk'.got)
  BY <1>2 DEF Seen, Distinct
<1>7. ASSUME NEW u
      PROVE  walk'.offset <= Rank(u)'
  <2>1. IsFiniteSet(Ahead(u)')
    <3>1. Ahead(u)' \subseteq User
      BY DEF Ahead, Rows, Matching
    <3>2. IsFiniteSet(User)
      BY FS_Interval, ApiAssumption DEF User
    <3>. QED
      BY <3>1, <3>2, FS_Subset
  <2>2. Rank(u)' \in Nat
    BY <2>1, FS_CardinalityType DEF Rank
  <2>. QED
    BY <1>2, <2>2
<1>8. MissInv'
  BY <1>2, <1>4, <1>5, <1>7 DEF MissInv
<1>9. RepeatInv'
  BY <1>2, <1>5, <1>6 DEF RepeatInv
<1>. QED
  BY <1>8, <1>9

\* Two sequences one after the other.
LEMMA Appended ==
    ASSUME NEW S, NEW g \in Seq(S), NEW s \in Seq(S)
    PROVE  /\ {(g \o s)[i] : i \in DOMAIN (g \o s)}
                = {g[i] : i \in DOMAIN g} \cup {s[i] : i \in DOMAIN s}
           /\ (/\ Distinct(g) /\ Distinct(s)
               /\ {g[i] : i \in DOMAIN g} \cap {s[i] : i \in DOMAIN s} = {}) => Distinct(g \o s)
<1>. DEFINE m == Len(g)
            n == Len(s)
            c == g \o s
<1>1. m \in Nat /\ n \in Nat /\ DOMAIN g = 1..m /\ DOMAIN s = 1..n
  OBVIOUS
<1>2. c \in Seq(S) /\ Len(c) = m + n
  OBVIOUS
<1>3. DOMAIN c = 1..(m + n)
  BY <1>2
<1>4. \A i \in 1..(m + n) : c[i] = IF i <= m THEN g[i] ELSE s[i - m]
  OBVIOUS
<1>. HIDE DEF m, n, c
<1>5. ASSUME NEW i \in 1..(m + n)
      PROVE  (i \in 1..m /\ c[i] = g[i]) \/ (i - m \in 1..n /\ c[i] = s[i - m])
  <2>1. CASE i <= m
    BY <1>1, <1>4, <2>1
  <2>2. CASE ~(i <= m)
    BY <1>1, <1>4, <2>2
  <2>. QED
    BY <2>1, <2>2
<1>6. \A i \in 1..m : i \in 1..(m + n) /\ c[i] = g[i]
  BY <1>1, <1>4
<1>7. ASSUME NEW i \in 1..n PROVE i + m \in 1..(m + n) /\ c[i + m] = s[i]
  <2>1. i + m \in 1..(m + n) /\ ~(i + m <= m) /\ (i + m) - m = i
    BY <1>1
  <2>. QED
    BY <1>4, <2>1
<1>8. {c[i] : i \in DOMAIN c} = {g[i] : i \in DOMAIN g} \cup {s[i] : i \in DOMAIN s}
  <2>1. ASSUME NEW i \in DOMAIN c
        PROVE  (\E k \in DOMAIN g : c[i] = g[k]) \/ (\E k \in DOMAIN s : c[i] = s[k])
    BY <1>1, <1>3, <1>5
  <2>2. \A k \in DOMAIN g : \E i \in DOMAIN c : c[i] = g[k]
    BY <1>1, <1>3, <1>6
  <2>3. \A k \in DOMAIN s : \E i \in DOMAIN c : c[i] = s[k]
    BY <1>1, <1>3, <1>7
  <2>. QED
    BY <2>1, <2>2, <2>3
<1>9. ASSUME Distinct(g), Distinct(s), {g[i] : i \in DOMAIN g} \cap {s[i] : i \in DOMAIN s} = {}
      PROVE  Distinct(c)
  <2>1. \A i \in 1..m, j \in 1..n : g[i] # s[j]
    BY <1>1, <1>9
  <2>2. ASSUME NEW i \in 1..(m + n), NEW j \in 1..(m + n), c[i] = c[j]
        PROVE  i = j
    <3>1. CASE i \in 1..m /\ c[i] = g[i] /\ j \in 1..m /\ c[j] = g[j]
      BY <1>1, <1>9, <2>2, <3>1 DEF Distinct
    <3>2. CASE i - m \in 1..n /\ c[i] = s[i - m] /\ j - m \in 1..n /\ c[j] = s[j - m]
      <4>1. i - m = j - m
        BY <1>1, <1>9, <2>2, <3>2 DEF Distinct
      <4>. QED
        BY <1>1, <4>1
    <3>. QED
      BY <1>5, <2>1, <2>2, <3>1, <3>2
  <2>. QED
    BY <1>3, <2>2 DEF Distinct
<1>. QED
  BY <1>8, <1>9 DEF c

LEMMA TakesKept ==
    ASSUME Inv, MissInv, RepeatInv, Walker \in Request, TakePage(Walker)
    PROVE  MissInv' /\ RepeatInv'
<1>. DEFINE q == req[Walker]
<1>1. /\ req \in [Request -> RequestType] /\ walk \in WalkType /\ q \in RequestType
      /\ users' = users /\ walk.at = "on" /\ q.at = "done" /\ q.status = 200
  BY DEF Inv, RequestInv, TakePage
<1>2. /\ walk.got \in Seq(User) /\ q.page \in Seq(User) /\ walk.offset \in Nat
      /\ PageSize \in Nat /\ q.total \in Nat /\ walk.start \subseteq User
  BY <1>1, ApiAssumption DEF WalkType, RequestType, PageType
<1>3. HasPage /\ Counted(q)
  BY <1>1 DEF HasPage, Counted
<1>4. /\ walk'.got = walk.got \o q.page /\ walk'.offset = NextOffset
      /\ walk'.at = IF NextOffset >= q.total THEN "over" ELSE "on"
      /\ walk'.by = walk.by /\ walk'.dir = walk.dir /\ walk'.search = walk.search
      /\ walk'.start = walk.start /\ walk'.grew = walk.grew
      /\ walk'.shrank = walk.shrank /\ walk'.renamed = walk.renamed
  BY <1>1 DEF TakePage, NextOffset, WalkType
<1>5. Rows' = Rows /\ \A u : Rank(u)' = Rank(u)
  BY <1>1, <1>4, SameRanks
<1>6. ~HasPage'
  <2>1. CASE NextOffset >= q.total
    BY <1>4, <2>1 DEF HasPage
  <2>2. CASE ~(NextOffset >= q.total)
    <3>1. req'[Walker] = Idle
      BY <1>1, <2>2 DEF TakePage, Set, NextOffset
    <3>. QED
      BY <3>1 DEF HasPage, Listed, Counted, Idle
  <2>. QED
    BY <2>1, <2>2
<1>7. /\ Seen' = Seen \cup OnPage
      /\ Distinct(walk.got) /\ Distinct(q.page) /\ OnPage \cap Seen = {} => Distinct(walk'.got)
  <2>. DEFINE g == walk.got
              s == q.page
  <2>1. /\ {(g \o s)[i] : i \in DOMAIN (g \o s)}
             = {g[i] : i \in DOMAIN g} \cup {s[i] : i \in DOMAIN s}
        /\ (/\ Distinct(g) /\ Distinct(s)
            /\ {g[i] : i \in DOMAIN g} \cap {s[i] : i \in DOMAIN s} = {}) => Distinct(g \o s)
    BY <1>2, Appended
  <2>2. /\ Seen = {g[i] : i \in DOMAIN g} /\ OnPage = {s[i] : i \in DOMAIN s}
        /\ Seen' = {(g \o s)[i] : i \in DOMAIN (g \o s)} /\ walk'.got = g \o s
    BY <1>4 DEF Seen, OnPage
  <2>. HIDE DEF g, s
  <2>. QED
    BY <2>1, <2>2 DEF g, s
<1>8. MissInv'
  <2>. SUFFICES ASSUME ~walk.shrank, ~walk.renamed
                PROVE  /\ walk'.at = "on" =>
                            /\ walk.start \subseteq Rows
                            /\ \A u \in walk.start \ (Seen \cup OnPage) : NextOffset <= Rank(u)
                       /\ walk'.at = "over" => walk.start \subseteq Seen \cup OnPage
    BY <1>4, <1>5, <1>6, <1>7 DEF MissInv
  <2>1. /\ walk.start \subseteq Rows
        /\ \A u \in walk.start \ (Seen \cup OnPage) : NextOffset <= Rank(u) /\ NextOffset < q.total
    BY <1>1, <1>3 DEF MissInv
  <2>2. walk'.at = "over" => ~(NextOffset < q.total)
    BY <1>2, <1>4 DEF NextOffset
  <2>. QED
    BY <2>1, <2>2
<1>9. RepeatInv'
  <2>. SUFFICES ASSUME ~walk.grew, ~walk.renamed
                PROVE  /\ Distinct(walk'.got)
                       /\ \A u \in (Seen \cup OnPage) \cap Rows : Rank(u) < NextOffset
    BY <1>4, <1>5, <1>6, <1>7 DEF RepeatInv
  <2>1. /\ Distinct(walk.got) /\ Distinct(q.page) /\ OnPage \cap Seen = {}
        /\ \A u \in Seen \cap Rows : Rank(u) < walk.offset
        /\ \A u \in OnPage \cap Rows : Rank(u) < NextOffset
    BY <1>1, <1>3 DEF RepeatInv
  <2>2. \A u \in Seen \cap Rows : Rank(u) < NextOffset
    <3>1. \A u : Rank(u) \in Nat
      BY RowsFinite
    <3>. QED
      BY <1>2, <2>1, <3>1 DEF NextOffset
  <2>. QED
    BY <1>7, <2>1, <2>2
<1>. QED
  BY <1>8, <1>9

LEMMA ReadsKept ==
    ASSUME Inv, MissInv, RepeatInv, Walker \in Request, ReadsPage(req'[Walker])
    PROVE  MissInv' /\ RepeatInv'
<1>. DEFINE p == req'[Walker]
<1>1. users \in [User -> RowType] /\ walk \in WalkType
  BY DEF Inv
<1>2. users' = users /\ walk' = walk /\ Listed(p) /\ ~Counted(p)
  BY DEF ReadsPage
<1>3. Rows' = Rows /\ \A u : Rank(u)' = Rank(u)
  BY <1>2, SameRanks
<1>4. PICK s \in Listings(Rows, OrderBy(walk.by), walk.dir) : p.page = Page(s, PageSize, walk.offset)
  BY DEF ReadsPage
<1>5. /\ Distinct(p.page)
      /\ \A i \in DOMAIN p.page : /\ p.page[i] \in Rows
                                   /\ walk.offset <= Rank(p.page[i])
                                   /\ Rank(p.page[i]) < NextOffset
      /\ \A u \in Rows : walk.offset <= Rank(u) /\ Rank(u) < NextOffset
                            => \E i \in DOMAIN p.page : p.page[i] = u
  BY <1>1, <1>4, PageRanks
<1>6. /\ OnPage' = {p.page[i] : i \in DOMAIN p.page} /\ Seen' = Seen /\ NextOffset' = NextOffset
      /\ HasPage' => walk.at = "on"
  BY <1>2 DEF OnPage, Seen, NextOffset, HasPage
<1>7. walk.offset \in Nat /\ NextOffset \in Nat /\ \A u : Rank(u) \in Nat
  BY <1>1, RowsFinite, ApiAssumption DEF WalkType, NextOffset
<1>8. MissInv'
  <2>. SUFFICES ASSUME ~walk.shrank, ~walk.renamed
                PROVE  /\ walk.at = "on" =>
                            /\ walk.start \subseteq Rows
                            /\ \A u \in walk.start \ Seen : walk.offset <= Rank(u)
                       /\ HasPage' => \A u \in walk.start \ (Seen \cup OnPage') :
                                        NextOffset <= Rank(u)
                       /\ walk.at = "over" => walk.start \subseteq Seen
    BY <1>2, <1>3, <1>6 DEF MissInv
  <2>1. ASSUME walk.at = "on", NEW u \in walk.start \ (Seen \cup OnPage')
        PROVE  NextOffset <= Rank(u)
    <3>1. u \in Rows /\ walk.offset <= Rank(u)
      BY <2>1 DEF MissInv
    <3>2. ~(Rank(u) < NextOffset)
      BY <1>5, <1>6, <2>1, <3>1
    <3>. QED
      BY <1>7, <3>2
  <2>. QED
    BY <1>6, <2>1 DEF MissInv
<1>9. RepeatInv'
  <2>. SUFFICES ASSUME ~walk.grew, ~walk.renamed
                PROVE  /\ Distinct(walk.got)
                       /\ walk.at = "on" => \A u \in Seen \cap Rows : Rank(u) < walk.offset
                       /\ HasPage' => /\ Distinct(p.page) /\ OnPage' \cap Seen = {}
                                      /\ \A u \in OnPage' \cap Rows : Rank(u) < NextOffset
    BY <1>2, <1>3, <1>6 DEF RepeatInv
  <2>1. walk.at = "on" => \A u \in Seen \cap Rows : Rank(u) < walk.offset
    BY DEF RepeatInv
  <2>2. ASSUME walk.at = "on", NEW u \in OnPage'
        PROVE  u \notin Seen /\ Rank(u) < NextOffset
    <3>1. u \in Rows /\ walk.offset <= Rank(u) /\ Rank(u) < NextOffset
      BY <1>5, <1>6
    <3>. QED
      BY <1>7, <2>1, <2>2, <3>1
  <2>. QED
    BY <1>5, <1>6, <2>1, <2>2 DEF RepeatInv
<1>. QED
  BY <1>8, <1>9

LEMMA CountsKept ==
    ASSUME Inv, MissInv, RepeatInv, Walker \in Request, CountsRows(req'[Walker], req[Walker])
    PROVE  MissInv' /\ RepeatInv'
<1>. DEFINE q == req[Walker]
            p == req'[Walker]
<1>1. users \in [User -> RowType] /\ walk \in WalkType
  BY DEF Inv
<1>2. /\ users' = users /\ walk' = walk /\ Listed(q) /\ ~Listed(p) /\ p.page = q.page
      /\ p.total = Cardinality(Rows)
  BY DEF CountsRows
<1>3. Rows' = Rows /\ \A u : Rank(u)' = Rank(u)
  BY <1>2, SameRanks
<1>4. /\ OnPage' = OnPage /\ Seen' = Seen /\ NextOffset' = NextOffset
      /\ HasPage' => HasPage /\ walk.at = "on"
  BY <1>2 DEF OnPage, Seen, NextOffset, HasPage
<1>5. \A u \in Rows : NextOffset <= Rank(u) => NextOffset < Cardinality(Rows)
  <2>1. /\ NextOffset \in Nat /\ Cardinality(Rows) \in Nat /\ \A u : Rank(u) \in Nat
    BY <1>1, RowsFinite, ApiAssumption DEF WalkType, NextOffset
  <2>2. \A u \in Rows : Rank(u) < Cardinality(Rows)
    BY <1>1, RankBelowCount
  <2>. QED
    BY <2>1, <2>2
<1>6. MissInv'
  <2>. SUFFICES ASSUME ~walk.shrank, ~walk.renamed
                PROVE  /\ walk.at = "on" =>
                            /\ walk.start \subseteq Rows
                            /\ \A u \in walk.start \ Seen : walk.offset <= Rank(u)
                       /\ HasPage' => \A u \in walk.start \ (Seen \cup OnPage) :
                                        NextOffset <= Rank(u) /\ NextOffset < Cardinality(Rows)
                       /\ walk.at = "over" => walk.start \subseteq Seen
    BY <1>2, <1>3, <1>4 DEF MissInv
  <2>. QED
    BY <1>4, <1>5 DEF MissInv
<1>7. RepeatInv'
  <2>. SUFFICES ASSUME ~walk.grew, ~walk.renamed
                PROVE  /\ Distinct(walk.got)
                       /\ walk.at = "on" => \A u \in Seen \cap Rows : Rank(u) < walk.offset
                       /\ HasPage' => /\ Distinct(q.page) /\ OnPage \cap Seen = {}
                                      /\ \A u \in OnPage \cap Rows : Rank(u) < NextOffset
    BY <1>2, <1>3, <1>4 DEF RepeatInv
  <2>. QED
    BY <1>4 DEF RepeatInv
<1>. QED
  BY <1>6, <1>7

LEMMA ContinuesKept ==
    ASSUME Inv, MissInv, RepeatInv, Continues,
           Walker \in Request => SamePage(req'[Walker], req[Walker])
    PROVE  MissInv' /\ RepeatInv'
<1>1. walk \in WalkType /\ walk.offset \in Nat /\ walk.start \subseteq User
      /\ NextOffset \in Nat
  BY ApiAssumption DEF Inv, WalkType, NextOffset
<1>2. /\ Seen' = Seen /\ NextOffset' = NextOffset /\ walk'.start = walk.start
      /\ walk'.at = walk.at /\ walk'.offset = walk.offset /\ walk'.got = walk.got
  BY DEF Continues, Seen, NextOffset
<1>3. HasPage' => /\ HasPage /\ walk.at = "on" /\ OnPage' = OnPage
                  /\ Counted(req'[Walker]) => /\ Counted(req[Walker])
                                              /\ req'[Walker].total = req[Walker].total
  BY <1>2 DEF HasPage, SamePage, OnPage
<1>4. \A u : Rank(u) \in Nat
  BY RowsFinite
<1>5. \A u : Rank(u)' \in Nat
  <2>1. \A u : Ahead(u)' \subseteq User
    BY DEF Ahead, Rows, Matching
  <2>2. IsFiniteSet(User)
    BY FS_Interval, ApiAssumption DEF User
  <2>. QED
    BY <2>1, <2>2, FS_Subset, FS_CardinalityType DEF Rank
<1>6. MissInv'
  <2>. SUFFICES ASSUME ~walk'.shrank, ~walk'.renamed
                PROVE  /\ walk.at = "on" =>
                            /\ walk.start \subseteq Rows'
                            /\ \A u \in walk.start \ Seen : walk.offset <= Rank(u)'
                       /\ HasPage' => \A u \in walk.start \ (Seen \cup OnPage') :
                            /\ NextOffset <= Rank(u)'
                            /\ Counted(req'[Walker]) => NextOffset < req'[Walker].total
                       /\ walk.at = "over" => walk.start \subseteq Seen
    BY <1>2 DEF MissInv
  <2>1. ~walk.shrank /\ ~walk.renamed /\ (walk.at = "on" => Rows \subseteq Rows' /\ SameOrder)
    BY DEF Continues
  <2>2. ASSUME walk.at = "on", NEW u \in Rows, NEW k \in Nat, k <= Rank(u)
        PROVE  k <= Rank(u)'
    <3>1. Rank(u) <= Rank(u)'
      BY <2>1, <2>2, RanksRise
    <3>2. Rank(u) \in Nat /\ Rank(u)' \in Nat
      BY <1>4, <1>5
    <3>. QED
      BY <2>2, <3>1, <3>2
  <2>3. walk.at = "on" => /\ walk.start \subseteq Rows
                          /\ \A u \in walk.start \ Seen : walk.offset <= Rank(u)
    BY <2>1 DEF MissInv
  <2>4. HasPage' => \A u \in walk.start \ (Seen \cup OnPage') :
            /\ NextOffset <= Rank(u)
            /\ Counted(req'[Walker]) => NextOffset < req'[Walker].total
    BY <1>3, <2>1 DEF MissInv
  <2>5. walk.at = "over" => walk.start \subseteq Seen
    BY <2>1 DEF MissInv
  <2>6. ASSUME walk.at = "on", NEW u \in walk.start \ Seen
        PROVE  walk.offset <= Rank(u)'
    BY <1>1, <2>2, <2>3, <2>6
  <2>7. ASSUME HasPage', NEW u \in walk.start \ (Seen \cup OnPage')
        PROVE  NextOffset <= Rank(u)'
    BY <1>1, <1>3, <2>2, <2>3, <2>4, <2>7
  <2>. QED
    BY <2>1, <2>3, <2>4, <2>5, <2>6, <2>7
<1>7. RepeatInv'
  <2>. SUFFICES ASSUME ~walk'.grew, ~walk'.renamed
                PROVE  /\ Distinct(walk.got)
                       /\ walk.at = "on" => \A u \in Seen \cap Rows' : Rank(u)' < walk.offset
                       /\ HasPage' => /\ Distinct(req'[Walker].page) /\ OnPage' \cap Seen = {}
                                      /\ \A u \in OnPage' \cap Rows' : Rank(u)' < NextOffset
    BY <1>2 DEF RepeatInv
  <2>1. ~walk.grew /\ ~walk.renamed /\ (walk.at = "on" => Rows' \subseteq Rows /\ SameOrder)
    BY DEF Continues
  <2>2. ASSUME walk.at = "on", NEW u \in Rows', NEW k \in Nat, Rank(u) < k
        PROVE  Rank(u)' < k
    <3>1. Rank(u)' <= Rank(u)
      BY <2>1, <2>2, RanksFall
    <3>2. Rank(u) \in Nat /\ Rank(u)' \in Nat
      BY <1>4, <1>5
    <3>. QED
      BY <2>2, <3>1, <3>2
  <2>3. /\ Distinct(walk.got)
        /\ walk.at = "on" => \A u \in Seen \cap Rows : Rank(u) < walk.offset
    BY <2>1 DEF RepeatInv
  <2>4. HasPage' => /\ Distinct(req[Walker].page) /\ OnPage \cap Seen = {}
                    /\ \A u \in OnPage \cap Rows : Rank(u) < NextOffset
    BY <1>3, <2>1 DEF RepeatInv
  <2>5. HasPage' => req'[Walker].page = req[Walker].page
    BY DEF HasPage, SamePage
  <2>6. ASSUME walk.at = "on", NEW u \in Seen \cap Rows'
        PROVE  Rank(u)' < walk.offset
    <3>1. u \in Rows
      BY <2>1, <2>6
    <3>. QED
      BY <1>1, <2>2, <2>3, <2>6, <3>1
  <2>7. ASSUME HasPage', NEW u \in OnPage' \cap Rows'
        PROVE  Rank(u)' < NextOffset
    <3>1. u \in Rows /\ u \in OnPage /\ walk.at = "on"
      BY <1>3, <2>1, <2>7
    <3>. QED
      BY <1>1, <2>2, <2>4, <2>7, <3>1
  <2>. QED
    BY <1>3, <2>3, <2>4, <2>5, <2>6, <2>7
<1>. QED
  BY <1>6, <1>7

WalkInv == MissInv /\ RepeatInv

LEMMA InitWalk == Init => WalkInv
<1>. SUFFICES ASSUME Init PROVE WalkInv
  OBVIOUS
<1>1. walk = NoWalk
  BY DEF Init
<1>2. walk.at = "none" /\ walk.got = << >>
  BY <1>1 DEF NoWalk
<1>3. Distinct(walk.got) /\ ~HasPage
  BY <1>2 DEF Distinct, HasPage
<1>. QED
  BY <1>2, <1>3 DEF WalkInv, MissInv, RepeatInv

LEMMA StepWalk == Inv /\ UserInv /\ WalkInv /\ [Next]_vars => WalkInv'
<1>. SUFFICES ASSUME Inv, UserInv, MissInv, RepeatInv, [Next]_vars
              PROVE  MissInv' /\ RepeatInv'
  BY DEF WalkInv
<1>1. CASE UNCHANGED vars \/ Quiesce
  <2>1. users' = users /\ req' = req /\ walk' = walk
    BY <1>1 DEF Quiesce, vars
  <2>2. Continues
    BY <2>1, SameWalk
  <2>. QED
    BY <2>1, <2>2, ContinuesKept DEF SamePage
<1>2. ASSUME NEW r \in Request,
             \/ Arrive(r) \/ Authenticate(r) \/ Handle(r) \/ Step(r) \/ Fail(r)
             \/ AuthenticateFail(r) \/ Panic(r) \/ Recover(r) \/ Respond(r) \/ RetryPage(r)
      PROVE  MissInv' /\ RepeatInv'
  <2>1. CASE BeginsWalk /\ r = Walker /\ Arrive(r)
    BY <2>1, WalkerEnters, BeginsKept
  <2>2. CASE Continues
    <3>1. CASE Walker \in Request
      <4>1. \/ SamePage(req'[Walker], req[Walker])
            \/ ReadsPage(req'[Walker])
            \/ CountsRows(req'[Walker], req[Walker])
        BY <1>2, <3>1, WalkerStep
      <4>. QED
        BY <2>2, <3>1, <4>1, ContinuesKept, ReadsKept, CountsKept
    <3>2. CASE Walker \notin Request
      BY <2>2, <3>2, ContinuesKept
    <3>. QED
      BY <3>1, <3>2
  <2>. QED
    BY <1>2, <2>1, <2>2, WalkSteps
<1>3. ASSUME NEW r \in Request, TakePage(r)
      PROVE  MissInv' /\ RepeatInv'
  <2>1. r = Walker
    BY <1>3 DEF TakePage
  <2>. QED
    BY <1>3, <2>1, TakesKept
<1>. QED
  BY <1>1, <1>2, <1>3 DEF Next

LEMMA WalkInvariant == Spec => []WalkInv
<1>. QED
  BY InitWalk, StepWalk, Invariant, UserInvariant, PTL DEF Spec

\* Whatever the order, the search, the size of the pages, the table and the
\* number of others who register meanwhile, who pages to the end while nobody
\* is deleted or moved by a new name has seen every user who was there when
\* the walk began: ORDER BY is total and every page begins where the last one
\* ended, so who comes can only push the others back.
THEOREM MissesNobody == Spec => []WalkMissesNobody
<1>1. WalkInv => WalkMissesNobody
  BY DEF WalkInv, MissInv, WalkMissesNobody
<1>. QED
  BY <1>1, WalkInvariant, PTL

\* Who pages while no user appears or is moved by a new name meets nobody
\* twice: who leaves can only pull the others to the front.
THEOREM RepeatsNobody == Spec => []WalkRepeatsNobody
<1>1. Inv /\ WalkInv => WalkRepeatsNobody
  <2>. SUFFICES ASSUME Inv, WalkInv, ~walk.grew, ~walk.renamed
                PROVE  Cardinality(Seen) = Len(walk.got)
    BY DEF WalkRepeatsNobody
  <2>. DEFINE g == walk.got
              f == [i \in 1..Len(g) |-> g[i]]
  <2>1. Distinct(g) /\ DOMAIN g = 1..Len(g) /\ Len(g) \in Nat
    BY DEF Inv, WalkInv, RepeatInv, WalkType
  <2>2. f \in Bijection(1..Len(g), Seen)
    <3>1. f \in [1..Len(g) -> Seen]
      BY <2>1 DEF Seen
    <3>2. \A i, j \in 1..Len(g) : f[i] = f[j] => i = j
      BY <2>1 DEF Distinct
    <3>3. \A u \in Seen : \E i \in 1..Len(g) : f[i] = u
      BY <2>1 DEF Seen
    <3>. HIDE DEF f
    <3>. QED
      BY <3>1, <3>2, <3>3, Fun_IsBij
  <2>3. ExistsBijection(1..Len(g), Seen)
    BY <2>2, Fun_ExistsBij
  <2>. QED
    BY <2>1, <2>3, FS_CountingElements
<1>. QED
  BY <1>1, Invariant, WalkInvariant, PTL
-----------------------------------------------------------------------------
(* The tables of the contract.                                             *)

\* The generated client's calls reach the operations they are named for.
LEMMA Reaches ==
    ASSUME NEW c \in Calls, c.op \in Operation
    PROVE  OpOf(c) = c.op
<1>1. \E x \in ApiRoutes : x.op = c.op /\ x.method = c.method /\ x.path = c.path
  <2>1. "stray" \notin Operation /\ "openapi" \notin Operation /\ "docs" \notin Operation
    BY DEF Operation
  <2>. QED
    BY <2>1, CallList DEF ApiRoutes, Route, Call
<1>2. Reached(c) # {}
  BY <1>1 DEF Reached
<1>3. OpOf(c) \in Reached(c)
  BY <1>2 DEF OpOf
<1>4. \A op \in Reached(c) : op = c.op
  BY OneRoute DEF Reached
<1>. QED
  BY <1>3, <1>4

LEMMA DocumentedSuccess == \A op \in Operation : <<op, Success(op)>> \in Documented
BY DEF Operation, Success, Documented, SystemAnswers, LoginAnswers, SessionAnswers, ReadAnswers,
   CreateAnswers, UserAnswers, PasswordAnswers

LEMMA Guarded ==
    ASSUME NEW op \in Operation
    PROVE  /\ Access(op) \in {"anonymous", "required"}
           /\ Access(op) = "required" =>
                op \in {"LogoutAll", "GetMe", "ListUsers", "DeleteUser", "GetUser", "UpdateUser",
                       "ChangeUserPassword"}
           /\ op \in {"GetMe", "LogoutAll"} => Access(op) = "required"
<1>1. Access(op) = Mode(Security(op))
  BY ModeOf
<1>2. Security(op) \in {{}, LoginSchemes}
  <2>1. PICK x \in ApiRoutes : x.op = op
    BY DocumentRoutes
  <2>2. PICK i \in Document : i.id = op
    BY <2>1, DocumentRoutes
  <2>3. {k \in Document : k.id = op} = {i}
    BY <2>2, DocumentRoutes
  <2>. QED
    BY <2>3 DEF Security, Requirements
<1>3. LoginSchemes # {} /\ {} \notin LoginSchemes
  BY DEF LoginSchemes
<1>4. Security(op) # {} => \E i \in LoginItems : i.id = op
  BY DEF Security, Requirements
<1>5. op \in {"GetMe", "LogoutAll"} => Security(op) # {}
  <2>1. Item("GET", "/v1/me", "GetMe") \in LoginItems
        /\ Item("POST", "/v1/auth/logout-all", "LogoutAll") \in LoginItems
    BY DEF LoginItems
  <2>2. \A i \in LoginItems : i.id = op => LoginSchemes \subseteq Security(op)
    BY DEF Security, Requirements, Document
  <2>. QED
    BY <1>3, <2>1, <2>2 DEF Item
<1>6. \A i \in LoginItems :
         i.id \in {"LogoutAll", "GetMe", "ListUsers", "DeleteUser", "GetUser", "UpdateUser",
                  "ChangeUserPassword"}
  BY DEF LoginItems, Item
<1>. QED
  BY <1>1, <1>2, <1>3, <1>4, <1>5, <1>6 DEF Mode

LEMMA Bodies ==
    ASSUME NEW op, HasBody(op)
    PROVE  op \in {"Login", "Logout", "RefreshToken", "CreateUser", "UpdateUser",
                  "ChangeUserPassword"}
BY DEF HasBody, ApiCalls, SystemCalls, SessionCalls, ReadCalls, UserCalls, ChangeCalls, Call

LEMMA DocumentedErrors ==
    /\ \A op \in {"Login", "Logout", "RefreshToken", "CreateUser"} \cup ById \cup ByQuery :
          <<op, 400>> \in Documented
    /\ \A op \in {"Login", "RefreshToken", "LogoutAll", "GetMe", "ListUsers"} \cup ById :
          <<op, 401>> \in Documented
    /\ \A op \in ById : <<op, 404>> \in Documented
    /\ \A op \in Validated \cup {"ListUsers"} : <<op, 422>> \in Documented
    /\ \A op \in Operation \ {"GetHealthz", "GetReadyz"} : <<op, 500>> \in Documented
    /\ <<"CreateUser", 409>> \in Documented /\ <<"GetReadyz", 503>> \in Documented
BY DEF Operation, ById, ByQuery, Validated, Documented, SystemAnswers, LoginAnswers,
   SessionAnswers, ReadAnswers, CreateAnswers, UserAnswers, PasswordAnswers

\* The next statement of an operation under way.
Heads ==
    {<<"Login", "getUserByEmail">>, <<"Login", "createSession">>,
     <<"RefreshToken", "findSession">>, <<"RefreshToken", "getUser">>,
     <<"RefreshToken", "rotate">>, <<"RefreshToken", "revokeReused">>,
     <<"Logout", "findSession">>, <<"Logout", "revokeSession">>,
     <<"LogoutAll", "bumpVersion">>, <<"LogoutAll", "revokeUserSessions">>,
     <<"GetMe", "getUser">>, <<"GetUser", "getUser">>,
     <<"ListUsers", "listUsers">>, <<"ListUsers", "countUsers">>,
     <<"CreateUser", "insertUser">>, <<"CreateUser", "recordEvent">>, <<"CreateUser", "commit">>,
     <<"UpdateUser", "updateUser">>, <<"DeleteUser", "deleteUser">>,
     <<"ChangeUserPassword", "getUser">>, <<"ChangeUserPassword", "updatePassword">>,
     <<"ChangeUserPassword", "revokeUserSessions">>, <<"GetReadyz", "ping">>}

LEMMA StageHeads ==
    ASSUME NEW op, NEW todo, Stage(op, todo)
    PROVE  <<op, Head(todo)>> \in Heads
<1>1. ASSUME NEW s \in Statement, <<op, s>> \in One, todo = <<s>>
      PROVE  <<op, Head(todo)>> \in Heads
  <2>1. Head(todo) = s
    BY <1>1, Sequences
  <2>. QED
    BY <1>1, <2>1 DEF One, Heads
<1>2. ASSUME NEW s \in Statement, NEW v \in Statement, <<op, s, v>> \in Two, todo = <<s, v>>
      PROVE  <<op, Head(todo)>> \in Heads
  <2>1. Head(todo) = s
    BY <1>2, Sequences
  <2>. QED
    BY <1>2, <2>1 DEF Two, Heads
<1>3. ASSUME NEW s \in Statement, NEW v \in Statement, NEW w \in Statement,
             <<op, s, v, w>> \in Three, todo = <<s, v, w>>
      PROVE  <<op, Head(todo)>> \in Heads
  <2>1. Head(todo) = s
    BY <1>3, Sequences
  <2>. QED
    BY <1>3, <2>1 DEF Three, Heads
<1>. QED
  BY <1>1, <1>2, <1>3 DEF Stage
-----------------------------------------------------------------------------
(* What is answered.                                                       *)

ByToken == {"GetMe", "LogoutAll"}
WasStored(table, u) == u \in User /\ table[u].st \in {"stored", "gone"}
Foretold(table, q, status) ==
    \/ <<q.asked, status>> \in Documented
    \/ status = 413 \/ q.panicked
    \/ q.asked \in ByToken /\ status = 404 /\ q.id \in User /\ table[q.id].st = "gone"

\* A request that was meant for an operation reached it, only one with a
\* token asks for its own user, who was stored once, and only Login and
\* ChangeUserPassword present a password.
AskedInv(table, q) ==
    q.asked \in Operation =>
        /\ q.op = q.asked
        /\ q.at = "authenticate" => Access(q.op) = "required"
        /\ q.at \in {"authenticate", "handle"} /\ q.op \in ByToken => WasStored(table, q.claims.user)
        /\ q.at = "run" => /\ q.op \in ByToken => WasStored(table, q.id)
                           /\ q.op \notin {"Login", "ChangeUserPassword"} => q.old = {}
        /\ q.at = "panic" => q.panicked
        /\ q.at \in {"answer", "done"} => Foretold(table, q, q.status)

\* What the invariant speaks of.
SameAsked(p, q) ==
    /\ p.asked = q.asked /\ p.op = q.op /\ p.at = q.at /\ p.claims = q.claims /\ p.id = q.id
    /\ p.old = q.old /\ p.panicked = q.panicked /\ p.status = q.status

LEMMA AskedKept ==
    ASSUME UsersStep, NEW q, NEW p, SameAsked(p, q), AskedInv(users, q)
    PROVE  AskedInv(users', p)
<1>1. \A u : WasStored(users, u) => WasStored(users', u)
  BY DEF UsersStep, RowStep, WasStored
<1>2. \A u \in User : users[u].st = "gone" => users'[u].st = "gone"
  BY DEF UsersStep, RowStep
<1>. QED
  BY <1>1, <1>2 DEF AskedInv, SameAsked, Foretold

\* The status is one the client has been told of.
Fits(table, q, status) ==
    q.asked \in Operation => q.op = q.asked /\ Foretold(table, q, status)

LEMMA ReplyFits ==
    ASSUME NEW table, NEW q \in RequestType, NEW status \in Nat, Fits(table, q, status),
           NEW p, p = Reply(q, status)
    PROVE  AskedInv(table, p) /\ p \in RequestType
<1>1. p.at = "answer" /\ p.status = status /\ p \in RequestType /\ p.op = q.op /\ p.id = q.id
  BY Replied
<1>2. p.asked = q.asked /\ p.panicked = q.panicked
  BY DEF Reply, RequestType
<1>. QED
  BY <1>1, <1>2 DEF AskedInv, Fits, Foretold

LEMMA ErrorFits ==
    ASSUME NEW table, NEW q \in RequestType, NEW error \in AppError, Fits(table, q, Code(error)),
           NEW p, p = WriteError(q, error)
    PROVE  AskedInv(table, p)
<1>1. p.at = "answer" /\ p.status = Code(error) /\ p.op = q.op /\ p.id = q.id
  BY Written
<1>2. p.asked = q.asked /\ p.panicked = q.panicked
  BY DEF WriteError, Reply, RequestType
<1>. QED
  BY <1>1, <1>2 DEF AskedInv, Fits, Foretold

LEMMA ProceedFits ==
    ASSUME NEW table, NEW q \in RequestType, q.at = "run", q.op \in Operation, AskedInv(table, q)
    PROVE  AskedInv(table, Proceed(q))
<1>1. CASE Len(q.todo) > 1
  <2>. DEFINE p == [q EXCEPT !.todo = Tail(@)]
  <2>1. Proceed(q) = p
    BY <1>1 DEF Proceed
  <2>2. SameAsked(p, q)
    BY DEF SameAsked, RequestType
  <2>. HIDE DEF p
  <2>. QED
    BY <2>1, <2>2 DEF SameAsked, AskedInv, Foretold
<1>2. CASE ~(Len(q.todo) > 1)
  <2>1. Proceed(q) = Reply(q, Success(q.op))
    BY <1>2 DEF Proceed
  <2>2. Fits(table, q, Success(q.op)) /\ Success(q.op) \in Nat
    BY DocumentedSuccess, SuccessStatus DEF Fits, Foretold, AskedInv
  <2>. QED
    BY <2>1, <2>2, ReplyFits
<1>. QED
  BY <1>1, <1>2

LEMMA Codes ==
    /\ Code("NotFound") = 404 /\ Code("Conflict") = 409 /\ Code("Validation") = 422
    /\ Code("BadRequest") = 400 /\ Code("Unauthorized") = 401 /\ Code("Unavailable") = 503
    /\ Code("Internal") = 500 /\ Code("TooLarge") = 413
    /\ AppError = {"NotFound", "Conflict", "Validation", "BadRequest", "Unauthorized",
                   "Unavailable", "Internal", "TooLarge"}
BY DEF Code, AppError

\* A statement fails: no row for it, or the driver reports an error.
LEMMA FailureFits ==
    ASSUME NEW q, Working(q), AskedInv(users, q), NEW cause,
           \/ cause = "driver"
           \/ /\ Head(q.todo) \in OnUser \ {"rotate"} /\ q.op # "Logout"
              /\ ~Applies(q) \/ Head(q.todo) = "findSession"
              /\ cause = IF Head(q.todo) = "createSession" THEN "foreignKey" ELSE "noRows"
           \/ Head(q.todo) = "insertUser" /\ cause = "unique"
    PROVE  Fits(users, q, Code(Failure(q.op, Head(q.todo), cause)))
<1>. DEFINE s == Head(q.todo)
            code == Code(Failure(q.op, s, cause))
<1>. SUFFICES ASSUME q.asked \in Operation
              PROVE  q.op = q.asked /\ Foretold(users, q, code)
  BY DEF Fits
<1>1. q.op = q.asked /\ (q.op \in ByToken => WasStored(users, q.id))
  BY DEF AskedInv, Working
<1>2. <<q.op, s>> \in Heads
  BY StageHeads DEF Working
<1>3. CASE cause = "driver"
  <2>1. code = IF q.op = "GetReadyz" THEN 503 ELSE 500
    <3>1. Failure(q.op, s, "driver") \in {"Internal", "Unavailable"}
      BY FailureKinds
    <3>2. (Failure(q.op, s, "driver") = "Unavailable") <=> q.op = "GetReadyz"
      BY <1>2 DEF Heads, Failure, SessionError, RegisterError, UserError, Sentinel
    <3>. QED
      BY <1>3, <3>1, <3>2, Codes
  <2>2. q.op \in Operation \ {"GetHealthz"}
    BY <1>2 DEF Heads, Operation
  <2>. QED
    BY <1>1, <2>1, <2>2, DocumentedErrors DEF Foretold
<1>4. CASE s = "insertUser" /\ cause = "unique"
  <2>1. q.op = "CreateUser"
    BY <1>2, <1>4 DEF Heads
  <2>2. code = 409
    BY <1>4, <2>1, Codes DEF Failure, RegisterError, Sentinel
  <2>. QED
    BY <1>1, <2>1, <2>2, DocumentedErrors DEF Foretold
<1>5. CASE /\ s \in OnUser \ {"rotate"} /\ q.op # "Logout"
           /\ ~Applies(q) \/ s = "findSession"
           /\ cause = IF s = "createSession" THEN "foreignKey" ELSE "noRows"
  <2>1. CASE q.op \in {"Login", "RefreshToken"}
    <3>1. code \in {401, 500}
      BY <1>5, <2>1, Codes DEF Failure, SessionError, Sentinel
    <3>. QED
      BY <1>1, <2>1, <3>1, DocumentedErrors DEF Foretold, Operation
  <2>2. CASE q.op \notin {"Login", "RefreshToken"}
    <3>1. /\ q.op \in ById \cup ByToken
          /\ s \in {"bumpVersion", "getUser", "updateUser", "deleteUser", "updatePassword"}
      BY <1>2, <1>5, <2>2 DEF Heads, OnUser, ById, ByToken
    <3>2. code = 404
      BY <1>5, <3>1, Codes DEF Failure, UserError, Sentinel, ById, ByToken
    <3>3. CASE q.op \in ById
      BY <1>1, <3>2, <3>3, DocumentedErrors DEF Foretold
    <3>4. CASE q.op \in ByToken
      <4>1. ~Stored(q.id)
        BY <1>5, <3>1 DEF Applies
      <4>2. q.id \in User /\ users[q.id].st = "gone"
        BY <1>1, <3>4, <4>1 DEF WasStored, Stored
      <4>. QED
        BY <1>1, <3>2, <3>4, <4>2 DEF Foretold
    <3>. QED
      BY <3>1, <3>3, <3>4
  <2>. QED
    BY <2>1, <2>2
<1>. QED
  BY <1>3, <1>4, <1>5

LEMMA QuietAsked ==
    ASSUME Inv, NEW r \in Request, Quiet(r), AskedInv(users, req[r])
    PROVE  AskedInv(users, req'[r])
<1>. DEFINE q == req[r]
            p == req'[r]
            s == Head(q.todo)
<1>1. req \in [Request -> RequestType] /\ RequestInv(q)
  BY DEF Inv
<1>2. Working(q) /\ q \in RequestType
  BY <1>1, Works DEF Quiet, NoRows, Lookup, FindSession, RotateNothing, Conflict, ListUsers,
     CountUsers, Runs, Working
<1>3. q.at = "run" /\ q.op \in Operation
  BY <1>2 DEF Working
<1>4. <<q.op, s>> \in Heads
  BY <1>2, StageHeads DEF Working
<1>5. AskedInv(users, Proceed(q))
  BY <1>2, <1>3, ProceedFits
<1>6. q.op = "RefreshToken" => AskedInv(users, Reused(q))
  <2>1. Reused(q) = [q EXCEPT !.todo = <<"revokeReused">>]
    BY DEF Reused
  <2>2. SameAsked(Reused(q), q)
    BY <1>2, <2>1 DEF SameAsked, RequestType
  <2>. QED
    BY <2>2 DEF SameAsked, AskedInv, Foretold
<1>7. q.op \in {"Login", "RefreshToken"} => AskedInv(users, WriteError(q, "Unauthorized"))
  <2>1. q.op \in {"Login", "RefreshToken"} => Fits(users, q, 401)
    BY <1>3, DocumentedErrors DEF Fits, Foretold, AskedInv
  <2>. QED
    BY <1>2, <2>1, ErrorFits, Codes
<1>8. CASE NoRows(r)
  <2>1. CASE q.op = "Logout"
    <3>. DEFINE x == Reply(q, Success(q.op))
    <3>1. p = [x EXCEPT !.noSession = TRUE]
      BY <1>1, <1>8, <2>1 DEF NoRows, Set
    <3>2. Fits(users, q, Success(q.op)) /\ Success(q.op) \in Nat
      BY <1>3, DocumentedSuccess, SuccessStatus DEF Fits, Foretold, AskedInv
    <3>3. AskedInv(users, x) /\ x \in RequestType
      BY <1>2, <3>2, ReplyFits
    <3>. HIDE DEF x
    <3>4. SameAsked(p, x)
      BY <3>1, <3>3 DEF SameAsked, RequestType
    <3>. QED
      BY <3>3, <3>4 DEF SameAsked, AskedInv, Foretold
  <2>2. CASE q.op # "Logout"
    <3>. DEFINE cause == IF s = "createSession" THEN "foreignKey" ELSE "noRows"
    <3>1. p = WriteError(q, Failure(q.op, s, cause))
      BY <1>1, <1>8, <2>2 DEF NoRows, Set
    <3>2. s \in OnUser \ {"rotate"} /\ (~Applies(q) \/ s = "findSession")
      BY <1>8 DEF NoRows, Runs
    <3>3. Fits(users, q, Code(Failure(q.op, s, cause)))
      BY <1>2, <2>2, <3>2, FailureFits
    <3>. QED
      BY <1>2, <3>1, <3>3, ErrorFits, FailureKinds
  <2>. QED
    BY <2>1, <2>2
<1>9. CASE Lookup(r)
  <2>1. p = Proceed(q) \/ (~Verified(q) /\ p = WriteError(q, Mismatch(q.op)))
    BY <1>1, <1>9 DEF Lookup, Set
  <2>2. CASE ~Verified(q) /\ p = WriteError(q, Mismatch(q.op))
    <3>1. q.old # {}
      BY <2>2 DEF Verified
    <3>2. q.asked \in Operation => q.op = q.asked /\ q.op \in {"Login", "ChangeUserPassword"}
      BY <1>3, <3>1 DEF AskedInv
    <3>3. Mismatch(q.op) \in AppError
          /\ Code(Mismatch(q.op)) = IF q.op = "Login" THEN 401 ELSE 422
      BY Codes DEF Mismatch
    <3>4. Fits(users, q, Code(Mismatch(q.op)))
      BY <3>2, <3>3, DocumentedErrors DEF Fits, Foretold, Validated
    <3>. QED
      BY <1>2, <2>2, <3>3, <3>4, ErrorFits
  <2>. QED
    BY <1>5, <2>1, <2>2
<1>10. CASE FindSession(r)
  <2>1. p = Proceed(q) \/ (q.op = "RefreshToken" /\ p \in {WriteError(q, "Unauthorized"), Reused(q)})
    BY <1>1, <1>10 DEF FindSession, Set
  <2>. QED
    BY <1>5, <1>6, <1>7, <2>1
<1>11. CASE RotateNothing(r)
  <2>1. p = Reused(q) /\ q.op = "RefreshToken"
    BY <1>1, <1>4, <1>11 DEF RotateNothing, Set, Runs, Heads
  <2>. QED
    BY <1>6, <2>1
<1>12. CASE Conflict(r)
  <2>1. s = "insertUser" /\ p = WriteError(q, Failure(q.op, s, "unique"))
    BY <1>1, <1>12 DEF Conflict, Set, Runs
  <2>2. Fits(users, q, Code(Failure(q.op, s, "unique")))
    BY <1>2, <2>1, FailureFits
  <2>. QED
    BY <1>2, <2>1, <2>2, ErrorFits, FailureKinds
<1>13. CASE ListUsers(r) \/ CountUsers(r)
  <2>1. PICK b : /\ p = Proceed(b)
                 /\ \/ \E page \in PageType : b = [q EXCEPT !.page = page]
                    \/ \E total \in Nat : b = [q EXCEPT !.total = total]
    <3>1. walk \in WalkType /\ Matching(walk.search) \subseteq User
      BY DEF Inv, Matching
    <3>2. CASE ListUsers(r)
      <4>1. PICK seq \in Listings(Matching(walk.search), OrderBy(walk.by), walk.dir) :
               p = Proceed([q EXCEPT !.page = Page(seq, PageSize, walk.offset)])
        BY <1>1, <3>2 DEF ListUsers, Set
      <4>2. Page(seq, PageSize, walk.offset) \in PageType
        BY <3>1, PageBounds DEF WalkType
      <4>. QED
        BY <4>1, <4>2
    <3>3. CASE CountUsers(r)
      <4>1. p = Proceed([q EXCEPT !.total = Cardinality(Rows)])
        BY <1>1, <3>3 DEF CountUsers, Set, Rows
      <4>. QED
        BY <4>1, RowsFinite
    <3>. QED
      BY <1>13, <3>2, <3>3
  <2>2. b \in RequestType
    BY <1>2, <2>1, Told
  <2>3. SameAsked(b, q)
    BY <1>2, <2>1 DEF SameAsked, RequestType
  <2>4. AskedInv(users, b)
    BY <2>3 DEF SameAsked, AskedInv, Foretold
  <2>5. b.at = "run" /\ b.op \in Operation
    BY <1>3, <2>3 DEF SameAsked
  <2>. QED
    BY <2>1, <2>2, <2>4, <2>5, ProceedFits
<1>. QED
  BY <1>8, <1>9, <1>10, <1>11, <1>12, <1>13 DEF Quiet

\* Statements that take effect.
LEMMA ExecuteAsked ==
    ASSUME Inv, NEW r \in Request, Execute(r), AskedInv(users, req[r])
    PROVE  AskedInv(users, req'[r])
<1>. DEFINE q == req[r]
            b == Took(q)
<1>1. req \in [Request -> RequestType] /\ \A x \in Request : RequestInv(req[x])
  BY DEF Inv
<1>2. Working(q) /\ q \in RequestType
  BY <1>1, ExecuteKeeps DEF Working
<1>3. b \in RequestType /\ b.at = "run" /\ b.op = q.op /\ b.todo = q.todo
  BY <1>2, TookType
<1>4. SameAsked(b, q)
  BY <1>2 DEF SameAsked, Took, RequestType
<1>5. AskedInv(users, b)
  BY <1>4 DEF SameAsked, AskedInv, Foretold
<1>6. req'[r] = IF Head(b.todo) = "revokeReused" THEN WriteError(b, "Unauthorized") ELSE Proceed(b)
  BY DEF Execute, Learned
<1>7. q.op \in Operation /\ <<q.op, Head(q.todo)>> \in Heads
  BY <1>2, StageHeads DEF Working
<1>. HIDE DEF b
<1>8. CASE Head(b.todo) = "revokeReused"
  <2>1. q.op = "RefreshToken"
    BY <1>3, <1>7, <1>8 DEF Heads
  <2>2. Fits(users, b, 401)
    BY <1>3, <1>5, <2>1, DocumentedErrors DEF Fits, Foretold, AskedInv
  <2>. QED
    BY <1>3, <1>6, <1>8, <2>2, ErrorFits, Codes
<1>9. CASE Head(b.todo) # "revokeReused"
  BY <1>3, <1>5, <1>6, <1>7, <1>9, ProceedFits
<1>. QED
  BY <1>8, <1>9

LEMMA InsertAsked ==
    ASSUME Inv, NEW r \in Request, InsertUser(r), AskedInv(users, req[r])
    PROVE  AskedInv(users, req'[r])
<1>. DEFINE q == req[r]
<1>1. req \in [Request -> RequestType] /\ RequestInv(q) /\ q \in RequestType
  BY DEF Inv, RequestInv
<1>2. Working(q) /\ q.at = "run" /\ q.op \in Operation /\ <<q.op, "insertUser">> \in Heads
  BY <1>1, Works, StageHeads DEF InsertUser, Runs, Working
<1>3. PICK u \in User : req'[r] = Proceed([q EXCEPT !.id = u])
  BY <1>1 DEF InsertUser, Set, NextId
<1>. DEFINE b == [q EXCEPT !.id = u]
<1>4. /\ b \in RequestType /\ b.asked = q.asked /\ b.op = q.op /\ b.at = q.at /\ b.old = q.old
      /\ b.panicked = q.panicked
  BY <1>1 DEF RequestType
<1>5. q.op = "CreateUser"
  BY <1>2 DEF Heads
<1>. HIDE DEF b
<1>6. AskedInv(users, b)
  BY <1>2, <1>4, <1>5 DEF AskedInv, ByToken
<1>7. AskedInv(users, Proceed(b))
  BY <1>2, <1>4, <1>6, ProceedFits
<1>. QED
  BY <1>3, <1>7 DEF b

LEMMA FailAsked ==
    ASSUME Inv, NEW r \in Request, Fail(r), AskedInv(users, req[r])
    PROVE  AskedInv(users, req'[r])
<1>. DEFINE q == req[r]
            error == Failure(q.op, Head(q.todo), "driver")
<1>1. req \in [Request -> RequestType] /\ \A x \in Request : RequestInv(req[x])
  BY DEF Inv
<1>2. Working(q) /\ q \in RequestType
  BY <1>1, FailKeeps DEF Working
<1>3. \/ req'[r] = WriteError(q, error)
      \/ req'[r] = WriteError(Took(q), error)
  <2>1. \/ req' = [req EXCEPT ![r] = WriteError(q, error)]
        \/ req' = [Learned(q) EXCEPT ![r] = WriteError(Took(q), error)]
    BY DEF Fail, Set
  <2>2. r \in DOMAIN Learned(q)
    BY DEF Learned
  <2>. QED
    BY <1>1, <2>1, <2>2
<1>4. Fits(users, q, Code(error)) /\ error \in AppError
  BY <1>2, FailureFits, FailureKinds
<1>5. Took(q) \in RequestType /\ SameAsked(Took(q), q)
  BY <1>2, TookType DEF SameAsked, Took, RequestType
<1>6. Fits(users, Took(q), Code(error))
  BY <1>4, <1>5 DEF Fits, Foretold, SameAsked
<1>. QED
  BY <1>2, <1>3, <1>4, <1>5, <1>6, ErrorFits

\* The other steps after the request came in.
LEMMA RestAsked ==
    ASSUME Inv, NEW r \in Request, AskedInv(users, req[r]),
           \/ Authenticate(r) \/ AuthenticateFail(r) \/ Panic(r) \/ Recover(r) \/ Respond(r)
           \/ TakePage(r) \/ RetryPage(r)
    PROVE  AskedInv(users, req'[r])
<1>. DEFINE q == req[r]
            p == req'[r]
            n == [q EXCEPT !.claims = NoToken]
<1>1. /\ req \in [Request -> RequestType] /\ RequestInv(q) /\ q \in RequestType
      /\ n \in RequestType
  BY TokenType, Given DEF Inv, RequestInv
<1>2. n.asked = q.asked /\ n.op = q.op /\ n.panicked = q.panicked /\ n.id = q.id
  BY <1>1 DEF RequestType
<1>3. ASSUME q.at = "authenticate"
      PROVE  Fits(users, n, 401) /\ Fits(users, n, 500)
  <2>1. q.asked \in Operation => q.op = q.asked /\ Access(q.op) = "required"
    BY <1>3 DEF AskedInv
  <2>2. q.asked \in Operation => <<q.asked, 401>> \in Documented /\ <<q.asked, 500>> \in Documented
    BY <2>1, Guarded, DocumentedErrors DEF ById, Operation
  <2>. QED
    BY <1>2, <2>1, <2>2 DEF Fits, Foretold
<1>4. Idle.asked \notin Operation
  BY DEF Idle, Operation
<1>. HIDE DEF n
<1>5. CASE Authenticate(r)
  <2>1. \/ p = [q EXCEPT !.at = "handle"]
        \/ p = WriteError(n, "Unauthorized")
    BY <1>1, <1>5 DEF Authenticate, n
  <2>2. CASE p = [q EXCEPT !.at = "handle"]
    <3>1. /\ p.at = "handle" /\ p.asked = q.asked /\ p.op = q.op /\ p.claims = q.claims
          /\ q.at = "authenticate"
      BY <1>1, <1>5, <2>2 DEF RequestType, Authenticate
    <3>. QED
      BY <3>1 DEF AskedInv
  <2>3. CASE p = WriteError(n, "Unauthorized")
    BY <1>1, <1>3, <1>5, <2>3, ErrorFits, Codes DEF Authenticate
  <2>. QED
    BY <2>1, <2>2, <2>3
<1>6. CASE AuthenticateFail(r)
  <2>1. p = WriteError(n, "Internal") /\ q.at = "authenticate"
    BY <1>1, <1>6 DEF AuthenticateFail, Set, n
  <2>. QED
    BY <1>1, <1>3, <2>1, ErrorFits, Codes
<1>7. CASE Panic(r)
  <2>1. p = [q EXCEPT !.at = "panic", !.todo = << >>, !.claims = NoToken, !.panicked = TRUE]
        /\ q.at \in {"authenticate", "handle", "run"}
    BY <1>1, <1>7 DEF Panic, Set
  <2>2. p.at = "panic" /\ p.panicked /\ p.asked = q.asked /\ p.op = q.op
    BY <1>1, <2>1 DEF RequestType
  <2>. QED
    BY <2>2 DEF AskedInv
<1>8. CASE Recover(r)
  <2>1. p = WriteError(q, "Internal") /\ q.at = "panic"
    BY <1>1, <1>8 DEF Recover
  <2>2. Fits(users, q, 500)
    BY <2>1 DEF AskedInv, Fits, Foretold
  <2>. QED
    BY <1>1, <2>1, <2>2, ErrorFits, Codes
<1>9. CASE Respond(r)
  <2>1. PICK log : p = [q EXCEPT !.at = "done", !.log = log]
    BY <1>1, <1>9 DEF Respond
  <2>2. /\ p.at = "done" /\ p.asked = q.asked /\ p.op = q.op /\ p.status = q.status
        /\ p.id = q.id /\ p.panicked = q.panicked /\ q.at = "answer"
    BY <1>1, <1>9, <2>1 DEF RequestType, Respond
  <2>. QED
    BY <2>2 DEF AskedInv, Foretold
<1>10. CASE TakePage(r) \/ RetryPage(r)
  <2>1. p = Idle \/ p = [q EXCEPT !.page = << >>]
    BY <1>1, <1>10 DEF TakePage, RetryPage, Set
  <2>2. CASE p = Idle
    BY <1>4, <2>2 DEF AskedInv
  <2>3. CASE p = [q EXCEPT !.page = << >>]
    <3>1. SameAsked(p, q)
      BY <1>1, <2>3 DEF SameAsked, RequestType
    <3>. QED
      BY <3>1 DEF SameAsked, AskedInv, Foretold
  <2>. QED
    BY <2>1, <2>2, <2>3
<1>. QED
  BY <1>5, <1>6, <1>7, <1>8, <1>9, <1>10

LEMMA ArriveAsked ==
    ASSUME Inv, NEW r \in Request, Arrive(r)
    PROVE  AskedInv(users, req'[r])
<1>. DEFINE p == req'[r]
<1>1. req \in [Request -> RequestType]
  BY DEF Inv
<1>2. PICK call \in CallsOn(r), token \in {NoToken} \cup Tokens, q \in RequestType :
         Entered(p, call, token, q)
  BY <1>1, Entrance
<1>3. /\ q.asked = call.op /\ q.op = OpOf(call) /\ q.id = NoUser /\ q.old = {} /\ ~q.panicked
      /\ call \in Calls
  BY <1>2 DEF Entered, CallsOn
<1>4. q.asked \in Operation => q.op = q.asked
  BY <1>3, Reaches
<1>5. "none" \notin Operation /\ Pages \cap Operation = {}
  BY PageNames DEF Operation
<1>6. CASE q.op = "none" /\ p = WriteError(q, "NotFound")
  <2>1. Fits(users, q, Code("NotFound"))
    BY <1>4, <1>5, <1>6 DEF Fits
  <2>. QED
    BY <1>6, <2>1, ErrorFits, Codes
<1>7. CASE q.op \in Pages /\ p = Reply(q, 200)
  <2>1. Fits(users, q, 200)
    BY <1>4, <1>5, <1>7 DEF Fits
  <2>. QED
    BY <1>7, <2>1, ReplyFits
<1>8. CASE Binds(q.op) /\ p = WriteError(q, "BadRequest")
  <2>1. <<q.op, 400>> \in Documented
    <3>1. \A op \in ById \cup ByQuery : <<op, 400>> \in Documented
      BY DocumentedErrors DEF ById, ByQuery
    <3>. QED
      BY <1>8, <3>1 DEF Binds
  <2>2. Fits(users, q, 400)
    BY <1>4, <2>1 DEF Fits, Foretold
  <2>. QED
    BY <1>8, <2>2, ErrorFits, Codes
<1>9. CASE q.op \in Operation /\ Open(q.op, token) /\ p = [q EXCEPT !.at = "handle"]
  <2>1. p.at = "handle" /\ p.asked = q.asked /\ p.op = q.op
    BY <1>9 DEF RequestType
  <2>2. q.op \notin ByToken
    BY <1>9, Guarded DEF Open, ByToken
  <2>. QED
    BY <1>4, <2>1, <2>2 DEF AskedInv
<1>10. CASE q.op \in Operation /\ ~Open(q.op, token) /\ p = WriteError(q, "Unauthorized")
  <2>1. Access(q.op) = "required"
    BY <1>10, Guarded DEF Open
  <2>2. <<q.op, 401>> \in Documented
    BY <1>10, <2>1, Guarded, DocumentedErrors DEF ById
  <2>3. Fits(users, q, 401)
    BY <1>4, <2>2 DEF Fits, Foretold
  <2>. QED
    BY <1>10, <2>3, ErrorFits, Codes
<1>11. CASE /\ q.op \in Operation /\ ~Open(q.op, token) /\ token \in Tokens
            /\ p = [q EXCEPT !.at = "authenticate", !.claims = token]
  <2>1. Access(q.op) = "required"
    BY <1>11, Guarded DEF Open
  <2>2. p.at = "authenticate" /\ p.asked = q.asked /\ p.op = q.op /\ p.claims = token
    BY <1>11 DEF RequestType
  <2>3. WasStored(users, token.user)
    BY <1>11 DEF Tokens, WasStored
  <2>. QED
    BY <1>4, <2>1, <2>2, <2>3 DEF AskedInv
<1>. QED
  BY <1>2, <1>6, <1>7, <1>8, <1>9, <1>10, <1>11 DEF Entered

LEMMA BeginFits ==
    ASSUME NEW b \in RequestType, b.op \in Operation, b.asked \in Operation => b.op = b.asked,
           b.op \in ByToken => WasStored(users, b.id),
           b.op \notin {"Login", "ChangeUserPassword"} => b.old = {}
    PROVE  AskedInv(users, Begin(b))
<1>1. CASE Program[b.op] = << >>
  <2>1. Begin(b) = Reply(b, Success(b.op))
    BY <1>1 DEF Begin
  <2>2. Fits(users, b, Success(b.op)) /\ Success(b.op) \in Nat
    BY DocumentedSuccess, SuccessStatus DEF Fits, Foretold
  <2>. QED
    BY <2>1, <2>2, ReplyFits
<1>2. CASE Program[b.op] # << >>
  <2>. DEFINE p == [b EXCEPT !.at = "run", !.todo = Program[b.op]]
  <2>1. Begin(b) = p
    BY <1>2 DEF Begin
  <2>2. p.at = "run" /\ p.asked = b.asked /\ p.op = b.op /\ p.id = b.id /\ p.old = b.old
    BY DEF RequestType
  <2>. HIDE DEF p
  <2>. QED
    BY <2>1, <2>2 DEF AskedInv
<1>. QED
  BY <1>1, <1>2

LEMMA HandleAsked ==
    ASSUME Inv, NEW r \in Request, Handle(r), AskedInv(users, req[r])
    PROVE  AskedInv(users, req'[r])
<1>. DEFINE q == req[r]
            p == req'[r]
            n == [q EXCEPT !.claims = NoToken]
<1>1. /\ req \in [Request -> RequestType] /\ RequestInv(q) /\ q \in RequestType /\ q.at = "handle"
      /\ n \in RequestType /\ users \in [User -> RowType]
  BY TokenType, Given DEF Inv, RequestInv, Handle
<1>2. n.asked = q.asked /\ n.op = q.op /\ n.panicked = q.panicked /\ n.id = q.id
  BY <1>1 DEF RequestType
<1>3. /\ q.op \in Operation
      /\ q.asked \in Operation => q.op = q.asked
      /\ (q.asked \in Operation /\ q.op \in ByToken) => WasStored(users, q.claims.user)
  BY <1>1 DEF AskedInv, RequestInv
<1>. HIDE DEF n
<1>4. ASSUME NEW error \in Undecoded(q.op) \cup Invalid(q.op) \cup Unlistable(q.op),
             p = WriteError(n, error)
      PROVE  AskedInv(users, p)
  <2>1. \/ error = "BadRequest" /\ HasBody(q.op)
        \/ error = "TooLarge"
        \/ error = "Validation" /\ q.op \in Validated \cup {"ListUsers"}
    BY <1>4 DEF Undecoded, Oversized, Invalid, Unlistable
  <2>2. error \in AppError
    BY <2>1, Codes
  <2>3. Code(error) = 413 \/ <<q.op, Code(error)>> \in Documented
    <3>1. CASE error = "BadRequest" /\ HasBody(q.op)
      BY <3>1, Codes, Bodies, DocumentedErrors DEF ById
    <3>2. CASE error = "TooLarge"
      BY <3>2, Codes
    <3>3. CASE error = "Validation" /\ q.op \in Validated \cup {"ListUsers"}
      BY <3>3, Codes, DocumentedErrors
    <3>. QED
      BY <2>1, <3>1, <3>2, <3>3
  <2>4. Fits(users, n, Code(error))
    <3>1. ASSUME n.asked \in Operation
          PROVE  n.op = n.asked /\ (Code(error) = 413 \/ <<n.asked, Code(error)>> \in Documented)
      BY <1>2, <1>3, <2>3, <3>1
    <3>. QED
      BY <3>1 DEF Fits, Foretold
  <2>. QED
    BY <1>1, <1>4, <2>2, <2>4, ErrorFits
<1>5. ASSUME NEW id \in Subjects(q), NEW old \in Presents(q.op), NEW new \in Stores(q.op),
             p = Begin([q EXCEPT !.claims = NoToken, !.id = id, !.old = old, !.new = new,
                                 !.known = IF id \in User /\ q.op = "ChangeUserPassword"
                                           THEN {users[id].pw} ELSE {}])
      PROVE  AskedInv(users, p)
  <2>. DEFINE known == IF id \in User /\ q.op = "ChangeUserPassword" THEN {users[id].pw} ELSE {}
              b == Handed(q, id, old, new, known)
  <2>1. known \in SUBSET Password
    BY <1>1 DEF RowType
  <2>2. id \in User \cup {NoUser} /\ (q.op \in ByToken => id = q.claims.user)
    BY <1>1, SubjectType DEF Subjects, ByToken, ById
  <2>3. old \in SUBSET Password /\ (q.op \notin {"Login", "ChangeUserPassword"} => old = {})
    BY DEF Presents
  <2>4. new \in SUBSET (Password \cup Name)
    BY DEF Stores
  <2>. HIDE DEF known
  <2>5. /\ b \in RequestType /\ b.asked = q.asked /\ b.op = q.op /\ b.id = id /\ b.old = old
    BY <1>1, <2>1, <2>2, <2>3, <2>4, TokenType DEF Handed, RequestType
  <2>6. p = Begin(b)
    BY <1>5 DEF Handed, known
  <2>. HIDE DEF b
  <2>7. CASE q.asked \in Operation
    <3>1. /\ b.op \in Operation
          /\ b.asked \in Operation => b.op = b.asked
          /\ b.op \in ByToken => WasStored(users, b.id)
          /\ b.op \notin {"Login", "ChangeUserPassword"} => b.old = {}
      BY <1>3, <2>2, <2>3, <2>5, <2>7
    <3>2. AskedInv(users, Begin(b))
      BY <2>5, <3>1, BeginFits
    <3>. QED
      BY <2>6, <3>2
  <2>8. CASE q.asked \notin Operation
    <3>1. p.asked = q.asked
      BY <2>5, <2>6 DEF Begin, Reply, RequestType
    <3>. QED
      BY <2>8, <3>1 DEF AskedInv
  <2>. QED
    BY <2>7, <2>8
<1>6. \/ \E error \in Undecoded(q.op) \cup Invalid(q.op) \cup Unlistable(q.op) :
            p = WriteError(n, error)
      \/ \E id \in Subjects(q), old \in Presents(q.op), new \in Stores(q.op) :
            p = Begin([q EXCEPT !.claims = NoToken, !.id = id, !.old = old, !.new = new,
                                !.known = IF id \in User /\ q.op = "ChangeUserPassword"
                                          THEN {users[id].pw} ELSE {}])
  BY <1>1 DEF Handle, n
<1>. QED
  BY <1>4, <1>5, <1>6

\* What a step does to the table, and to the requests that are not its own.
LEMMA TableStep ==
    ASSUME Inv, NEW r \in Request,
           \/ Arrive(r) \/ Authenticate(r) \/ Handle(r) \/ Step(r) \/ Fail(r)
           \/ AuthenticateFail(r) \/ Panic(r) \/ Recover(r) \/ Respond(r)
           \/ TakePage(r) \/ RetryPage(r)
    PROVE  UsersStep
<1>. DEFINE q == req[r]
<1>1. users \in [User -> RowType] /\ req \in [Request -> RequestType] /\ RequestInv(q)
  BY DEF Inv
<1>2. CASE \/ Arrive(r) \/ Authenticate(r) \/ Handle(r) \/ AuthenticateFail(r) \/ Recover(r)
           \/ Respond(r) \/ TakePage(r) \/ RetryPage(r) \/ Quiet(r)
  <2>1. users' = users
    BY <1>2 DEF Arrive, Authenticate, Handle, AuthenticateFail, Recover, Respond, TakePage,
       RetryPage, Quiet, NoRows, Lookup, FindSession, RotateNothing, Conflict, ListUsers, CountUsers
  <2>. QED
    BY <1>1, <2>1, SameUsers
<1>3. CASE Panic(r)
  BY <1>3, AbortedRewrites, RewritesStep DEF Panic
<1>4. CASE Execute(r)
  BY <1>4, AppliedRewrites, RewritesStep DEF Execute, TakesEffect, Runs
<1>5. CASE Fail(r)
  <2>1. \/ users' = Aborted(q)
        \/ Applies(q) /\ users' = Applied(q)
    BY <1>5 DEF Fail
  <2>2. q.at = "run"
    BY <1>5 DEF Fail
  <2>. QED
    BY <2>1, <2>2, AbortedRewrites, AppliedRewrites, RewritesStep
<1>6. CASE InsertUser(r)
  <2>. DEFINE id == req'[r].id
  <2>1. /\ id \in User /\ users[id].st = "free"
        /\ \E n \in Name : users' = [users EXCEPT ![id] = Row("pending", n, FirstPassword, 0)]
    BY <1>1, <1>6, InsertUserStep
  <2>2. PICK n \in Name : users' = [users EXCEPT ![id] = Row("pending", n, FirstPassword, 0)]
    BY <2>1
  <2>3. Row("pending", n, FirstPassword, 0) \in RowType
    BY NoRowType DEF Row, RowType, NoRow
  <2>4. \A u \in User : users[u].ver \in Nat
    BY <1>1 DEF RowType
  <2>. HIDE DEF id
  <2>. QED
    BY <1>1, <2>1, <2>2, <2>3, <2>4 DEF UsersStep, RowStep
<1>. QED
  BY <1>2, <1>3, <1>4, <1>5, <1>6 DEF Step, Quiet

LEMMA OthersAsked ==
    ASSUME Inv, NEW r \in Request, NEW y \in Request \ {r},
           \/ Arrive(r) \/ Authenticate(r) \/ Handle(r) \/ Step(r) \/ Fail(r)
           \/ AuthenticateFail(r) \/ Panic(r) \/ Recover(r) \/ Respond(r)
           \/ TakePage(r) \/ RetryPage(r)
    PROVE  SameAsked(req'[y], req[y])
<1>1. /\ req \in [Request -> RequestType] /\ walk \in WalkType
      /\ \A x \in Request : RequestInv(req[x])
  BY DEF Inv
<1>2. CASE req'[y] = req[y]
  BY <1>2 DEF SameAsked
<1>3. CASE Working(req[r]) /\ req'[y] = Learned(req[r])[y]
  <2>1. req'[y] = req[y] \/ \E k \in SUBSET Password : req'[y] = [req[y] EXCEPT !.known = k]
    BY <1>1, <1>3, OthersLearn
  <2>. QED
    BY <1>1, <2>1 DEF SameAsked, RequestType
<1>4. CASE Fail(r)
  <2>1. Working(req[r]) /\ (req'[y] = req[y] \/ req'[y] = Learned(req[r])[y])
    BY <1>1, <1>4, FailKeeps
  <2>. QED
    BY <1>2, <1>3, <2>1
<1>5. CASE Execute(r)
  <2>1. Working(req[r]) /\ req'[y] = Learned(req[r])[y]
    BY <1>1, <1>5, ExecuteKeeps DEF Execute, Learned
  <2>. QED
    BY <1>3, <2>1
<1>6. CASE Quiet(r)
  <2>1. req' = [req EXCEPT ![r] = req'[r]]
    BY <1>1, <1>6, QuietStep
  <2>. QED
    BY <1>1, <1>2, <2>1
<1>7. CASE InsertUser(r)
  BY <1>1, <1>2, <1>7 DEF InsertUser, Set
<1>8. CASE Arrive(r)
  BY <1>1, <1>2, <1>8 DEF Arrive
<1>9. CASE Handle(r)
  BY <1>1, <1>2, <1>9 DEF Handle
<1>10. CASE \/ Authenticate(r) \/ AuthenticateFail(r) \/ Panic(r) \/ Recover(r) \/ Respond(r)
            \/ TakePage(r) \/ RetryPage(r)
  BY <1>1, <1>2, <1>10 DEF Authenticate, AuthenticateFail, Panic, Recover, Respond, TakePage,
     RetryPage, Set
<1>. QED
  BY <1>4, <1>5, <1>6, <1>7, <1>8, <1>9, <1>10 DEF Step, Quiet

Foreseen == \A r \in Request : AskedInv(users, req[r])

LEMMA InitAsked == Init => Foreseen
<1>. SUFFICES ASSUME Init PROVE Foreseen
  OBVIOUS
<1>1. \A r \in Request : req[r] = Idle
  BY DEF Init
<1>2. Idle.asked \notin Operation
  BY DEF Idle, Operation
<1>. QED
  BY <1>1, <1>2 DEF Foreseen, AskedInv

LEMMA StepAsked == Inv /\ Foreseen /\ [Next]_vars => Foreseen'
<1>. SUFFICES ASSUME Inv, Foreseen, [Next]_vars PROVE Foreseen'
  OBVIOUS
<1>1. CASE UNCHANGED vars \/ Quiesce
  <2>1. users' = users /\ req' = req
    BY <1>1 DEF Quiesce, vars
  <2>. QED
    BY <2>1 DEF Foreseen
<1>2. ASSUME NEW r \in Request,
             \/ Arrive(r) \/ Authenticate(r) \/ Handle(r) \/ Step(r) \/ Fail(r)
             \/ AuthenticateFail(r) \/ Panic(r) \/ Recover(r) \/ Respond(r)
             \/ TakePage(r) \/ RetryPage(r)
      PROVE  Foreseen'
  <2>1. UsersStep
    BY <1>2, TableStep
  <2>2. AskedInv(users, req[r])
    BY DEF Foreseen
  <2>3. AskedInv(users, req'[r])
    <3>1. CASE Arrive(r)
      BY <3>1, ArriveAsked
    <3>2. CASE Handle(r)
      BY <2>2, <3>2, HandleAsked
    <3>3. CASE Quiet(r)
      BY <2>2, <3>3, QuietAsked
    <3>4. CASE Execute(r)
      BY <2>2, <3>4, ExecuteAsked
    <3>5. CASE InsertUser(r)
      BY <2>2, <3>5, InsertAsked
    <3>6. CASE Fail(r)
      BY <2>2, <3>6, FailAsked
    <3>7. CASE \/ Authenticate(r) \/ AuthenticateFail(r) \/ Panic(r) \/ Recover(r) \/ Respond(r)
               \/ TakePage(r) \/ RetryPage(r)
      BY <2>2, <3>7, RestAsked
    <3>. QED
      BY <1>2, <3>1, <3>2, <3>3, <3>4, <3>5, <3>6, <3>7 DEF Step, Quiet
  <2>4. AskedInv(users', req'[r])
    BY <2>1, <2>3, AskedKept DEF SameAsked
  <2>5. ASSUME NEW y \in Request \ {r}
        PROVE  AskedInv(users', req'[y])
    <3>1. SameAsked(req'[y], req[y])
      BY <1>2, OthersAsked
    <3>. QED
      BY <2>1, <3>1, AskedKept DEF Foreseen
  <2>. QED
    BY <2>4, <2>5 DEF Foreseen
<1>. QED
  BY <1>1, <1>2 DEF Next

LEMMA AskedInvariant == Spec => []Foreseen
<1>. QED
  BY InitAsked, StepAsked, Invariant, PTL DEF Spec

\* Whatever requests overlap and wherever statements fail and handlers panic,
\* the generated client has a type for every answer it gets, but for a body
\* over the limit, a panic, and the user who was deleted while it asked for
\* itself: no path through the wrapper, authenticate, a handler and its
\* use-case ends with a status the operation does not declare.
THEOREM AllDocumented == Spec => []AnswersDocumented
<1>1. Foreseen => AnswersDocumented
  BY DEF Foreseen, AskedInv, Foretold, AnswersDocumented, Answered, ByToken
<1>. QED
  BY <1>1, AskedInvariant, PTL
=============================================================================
