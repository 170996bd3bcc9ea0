-------------------------- MODULE AlpacaFeedProofs --------------------------
(***************************************************************************)
(* Proofs about AlpacaFeed, for every cap, quote size and inventory limit, *)
(* every set of sizes and any number of orders and mishaps: a pause stops  *)
(* the orders, a flattened session ends flat but for what its threads were *)
(* sending, the books are accounted for, and a taker stays within its cap. *)
(***************************************************************************)
EXTENDS AlpacaFeed, FiniteSums, SequenceTheorems

Action == {"buy", "sell"}
Post_   == [action : Action, size : Nat \ {0}]
Working == [id : Nat, action : Action, left : Nat \ {0}, day : BOOLEAN]
Update  == [id : Nat, action : Action, qty : Nat \ {0}, last : BOOLEAN]
TaskRec ==
  [pc : {"idle", "sync", "synced", "cancel", "clear", "submit", "ack"}, posts : Seq(Post_),
   inv : Int, victims : SUBSET Nat, id : Nat]

\* A task that has an order to send or to hear about knows it.
TaskType ==
  /\ task \in [Task -> TaskRec]
  /\ \A t \in Task : task[t].pc \notin {"idle", "clear"} => task[t].posts # <<>>

BrokerType ==
  /\ position \in Int /\ orders \subseteq Working /\ accepted \in Nat /\ events \in Seq(Update)

FeedType ==
  /\ booked \in Int /\ open_orders \subseteq [id : Nat, action : Action]
  /\ owed \in [Task -> Int] /\ paused \in BOOLEAN /\ blind \in BOOLEAN
  /\ halted \in BOOLEAN /\ session \in {"runs", "ending", "flat", "left"}

TypeInv == TaskType /\ BrokerType /\ FeedType

\* The answers on their way, and the fills that the other feed will book.
Crossing == [old : Nat, before : Int, later : Int]
AuditType ==
  /\ snapshot \in [Feed -> Int \cup {NoAnswer}] /\ crossing \in [Feed -> Crossing]
  /\ off \in Int /\ echo \in Seq(Int)
-----------------------------------------------------------------------------
(* Helpers.                                                                *)

LEMMA SignedInt == ASSUME NEW a, NEW n \in Int PROVE Signed(a, n) \in {n, -n} /\ Signed(a, n) \in Int
BY DEF Signed

LEMMA SequenceOfPosts ==
  ASSUME NEW p \in Post_, NEW q \in Post_
  PROVE  /\ <<p>> \in Seq(Post_) /\ <<p>> # <<>> /\ Len(<<p>>) = 1 /\ Head(<<p>>) = p
         /\ <<p>> \o <<q>> \in Seq(Post_) /\ Len(<<p>> \o <<q>>) = 2
         /\ <<p>> \o <<>> = <<p>> /\ <<>> \o <<q>> = <<q>>
         /\ <<>> \in Seq(Post_) /\ Len(<<>>) = 0
OBVIOUS

LEMMA OneSide ==
  ASSUME NEW n \in Nat \ {0}, NEW action \in Action
  PROVE  Order(action, n) \in Post_ /\ <<Order(action, n)>> \in Seq(Post_)
         /\ Len(<<Order(action, n)>>) = 1 /\ <<Order(action, n)>> # <<>>
<1>1. Order(action, n) \in Post_
  BY DEF Order, Post_
<1> QED
  BY <1>1

LEMMA TwoSides ==
  ASSUME NEW x, NEW y, NEW p \in Post_, NEW q \in Post_, x \in {<<>>, <<p>>}, y \in {<<>>, <<q>>}
  PROVE  x \o y \in Seq(Post_) /\ Len(x \o y) <= 2
<1>1. /\ <<p>> \in Seq(Post_) /\ <<q>> \in Seq(Post_) /\ <<>> \in Seq(Post_)
      /\ Len(<<p>>) = 1 /\ Len(<<q>>) = 1 /\ Len(<<>>) = 0
  OBVIOUS
<1>2. x \in Seq(Post_) /\ y \in Seq(Post_) /\ Len(x) \in {0, 1} /\ Len(y) \in {0, 1}
  BY <1>1
<1>3. x \o y \in Seq(Post_) /\ Len(x \o y) = Len(x) + Len(y)
  BY <1>2, ConcatProperties
<1>4. \A m, n \in {0, 1} : m + n <= 2
  OBVIOUS
<1>5. Len(x) + Len(y) <= 2
  BY <1>2, <1>4
<1> QED
  BY <1>3, <1>5

LEMMA PostsType ==
  ASSUME NEW inv \in Int, NEW side \in Action
  PROVE  Posts(inv, side) \in Seq(Post_) /\ Len(Posts(inv, side)) <= 2
<1>1. QUOTE_SIZE \in Nat \ {0}
  BY CapAssumption
<1>2. CASE inv = 0
  <2>1. Posts(inv, side) = <<Order(side, QUOTE_SIZE)>>
    BY <1>2 DEF Posts
  <2> QED
    BY <1>1, <2>1, OneSide
<1>3. CASE inv # 0
  <2> DEFINE n == IF inv > 0 THEN Lesser(QUOTE_SIZE, inv) ELSE Lesser(QUOTE_SIZE, -inv)
             a == IF inv > 0 THEN "sell" ELSE "buy"
             b == IF inv > 0 THEN "buy" ELSE "sell"
  <2>1. n \in Nat \ {0} /\ a \in Action /\ b \in Action
    BY <1>1, <1>3 DEF Lesser, Action
  <2>2. Order(a, n) \in Post_ /\ Order(b, QUOTE_SIZE) \in Post_
    BY <1>1, <2>1, OneSide
  <2>3. \E x \in {<<>>, <<Order(a, n)>>}, y \in {<<>>, <<Order(b, QUOTE_SIZE)>>} :
          Posts(inv, side) = x \o y
    BY <1>3 DEF Posts, TwoSided
  <2> HIDE DEF n, a, b
  <2> QED
    BY <2>2, <2>3, TwoSides
<1> QED
  BY <1>2, <1>3

\* What is left of a task's orders when the first has been sent.
LEMMA RestType ==
  ASSUME NEW posts \in Seq(Post_), posts # <<>>
  PROVE  /\ Head(posts) \in Post_ /\ Tail(posts) \in Seq(Post_)
         /\ Len(posts) \in Nat /\ Len(posts) >= 1 /\ Len(Tail(posts)) = Len(posts) - 1
         /\ (Tail(posts) = <<>> <=> Len(posts) = 1)
<1>1. /\ Head(posts) \in Post_ /\ Tail(posts) \in Seq(Post_)
      /\ Len(Tail(posts)) = Len(posts) - 1
  BY HeadTailProperties
<1>2. Len(posts) \in Nat /\ Len(posts) >= 1
  BY LenProperties, EmptySeq
<1>3. Tail(posts) = <<>> <=> Len(Tail(posts)) = 0
  BY <1>1, EmptySeq
<1> QED
  BY <1>1, <1>2, <1>3
-----------------------------------------------------------------------------
(* What an action makes of a task.                                         *)

\* Task t goes on as q, the others as they were.
Becomes(t, q) ==
  /\ q \in TaskRec /\ (q.pc \notin {"idle", "clear"} => q.posts # <<>>)
  /\ task' \in [Task -> TaskRec]
  /\ \A u \in Task : task'[u] = IF u = t THEN q ELSE task[u]

LEMMA Becoming ==
  ASSUME TaskType, NEW t \in Task, NEW q \in TaskRec, q.pc \notin {"idle", "clear"} => q.posts # <<>>,
         task' = [task EXCEPT ![t] = q]
  PROVE  Becomes(t, q)
BY DEF Becomes, TaskType

LEMMA BecomesType == ASSUME TaskType, NEW t \in Task, NEW q, Becomes(t, q) PROVE TaskType'
BY DEF Becomes, TaskType

LEMMA IdleType ==
  Idle \in TaskRec /\ Idle.pc = "idle" /\ Idle.inv = 0 /\ Idle.posts = <<>>
BY DEF Idle, TaskRec

LEMMA FreshTask ==
  ASSUME NEW posts \in Seq(Post_), posts # <<>>, NEW pc \in {"sync", "submit"}
  PROVE  LET q == [Idle EXCEPT !.pc = pc, !.posts = posts]
         IN  q \in TaskRec /\ q.pc = pc /\ q.posts = posts
<1> DEFINE r == [Idle EXCEPT !.pc = pc]
<1>1. r \in TaskRec /\ r.pc = pc
  BY IdleType DEF TaskRec
<1> HIDE DEF r
<1>2. LET q == [r EXCEPT !.posts = posts]
      IN  q \in TaskRec /\ q.pc = pc /\ q.posts = posts
  BY <1>1 DEF TaskRec
<1> QED
  BY <1>2 DEF r

LEMMA TaskFields ==
  ASSUME TaskType, NEW t \in Task
  PROVE  /\ task[t] \in TaskRec /\ task[t].inv \in Int /\ task[t].posts \in Seq(Post_)
         /\ task[t].victims \subseteq Nat
         /\ task[t].pc \notin {"idle", "clear"} => Head(task[t].posts) \in Post_ /\ task[t].posts # <<>>
<1>1. task[t] \in TaskRec
  BY DEF TaskType
<1>2. task[t].posts \in Seq(Post_) /\ task[t].inv \in Int /\ task[t].victims \subseteq Nat
  BY <1>1 DEF TaskRec
<1> QED
  BY <1>1, <1>2, RestType DEF TaskType

LEMMA QuoteTask == "quote" \in Task /\ "requote" \in Task
BY DEF Task

LEMMA OnQuoteTask ==
  ASSUME TypeInv, NEW action \in Action, NEW n \in Lot, OnQuote(Order(action, n))
  PROVE  \E q \in TaskRec : Becomes("quote", q) /\ q.pc = "sync"
<1>1. n \in Nat \ {0}
  BY CapAssumption
<1> DEFINE q == [Idle EXCEPT !.pc = "sync", !.posts = <<Order(action, n)>>]
<1>2. q \in TaskRec /\ q.pc = "sync" /\ q.posts # <<>>
  <2> DEFINE posts == <<Order(action, n)>>
  <2>1. posts \in Seq(Post_) /\ posts # <<>>
    BY <1>1, OneSide
  <2> HIDE DEF posts
  <2>2. LET r == [Idle EXCEPT !.pc = "sync", !.posts = posts]
        IN  r \in TaskRec /\ r.pc = "sync" /\ r.posts = posts
    BY <2>1, FreshTask
  <2> QED
    BY <2>1, <2>2 DEF posts
<1>3. task' = [task EXCEPT !["quote"] = q]
  BY DEF OnQuote
<1> HIDE DEF q
<1> QED
  BY <1>2, <1>3, QuoteTask, Becoming DEF TypeInv

LEMMA ReadPositionTask ==
  ASSUME TypeInv, NEW ok \in BOOLEAN, ReadPosition(ok)
  PROVE  \E q \in TaskRec :
           /\ Becomes("quote", q) /\ q.pc = "synced" /\ q.inv = IF ok THEN position ELSE 0
           /\ q.posts = task["quote"].posts
<1> DEFINE inv == IF ok THEN position ELSE 0
           q == [task["quote"] EXCEPT !.pc = "synced", !.inv = inv]
<1>1. inv \in Int /\ task["quote"] \in TaskRec /\ task["quote"].posts # <<>>
  BY QuoteTask, TaskFields DEF TypeInv, BrokerType, ReadPosition
<1>2. q \in TaskRec /\ q.pc = "synced" /\ q.inv = inv /\ q.posts = task["quote"].posts
  BY <1>1 DEF TaskRec
<1>3. task' = [task EXCEPT !["quote"] = q]
  BY QuoteTask DEF ReadPosition, TypeInv, TaskType
<1> HIDE DEF q
<1> QED
  BY <1>1, <1>2, <1>3, QuoteTask, Becoming DEF TypeInv

LEMMA SubmitTask ==
  ASSUME TypeInv, NEW ok \in BOOLEAN, Submit(ok)
  PROVE  LET dec == Head(task["quote"].posts)
             size == Lesser(dec.size, room(dec.action, task["quote"].inv))
             victims == {o.id : o \in {p \in open_orders : p.action # dec.action}}
         IN  /\ dec \in Post_ /\ room(dec.action, task["quote"].inv) \in Int
             /\ \E q \in TaskRec :
                  /\ Becomes("quote", q) /\ Sending("quote", q)
                  /\ \/ q.pc = "idle"
                     \/ /\ q.pc = IF victims = {} THEN "submit" ELSE "cancel"
                        /\ size \in Nat \ {0} /\ q.posts = <<Order(dec.action, size)>> /\ q.inv = 0
<1> DEFINE t == task["quote"]
           dec == Head(t.posts)
           size == Lesser(dec.size, room(dec.action, t.inv))
           victims == {o.id : o \in {p \in open_orders : p.action # dec.action}}
           pc == IF victims = {} THEN "submit" ELSE "cancel"
           next == [t EXCEPT !.posts = <<Order(dec.action, size)>>, !.victims = victims, !.inv = 0,
                             !.pc = pc]
<1>1. t \in TaskRec /\ dec \in Post_ /\ t.inv \in Int /\ victims \subseteq Nat
  BY QuoteTask, TaskFields DEF TypeInv, FeedType, Submit
<1>2. dec.action \in Action /\ dec.size \in Nat \ {0}
  BY <1>1 DEF Post_
<1>3. room(dec.action, t.inv) \in Int
  BY <1>1, CapAssumption DEF room
<1>4. size \in Int
  BY <1>2, <1>3 DEF Lesser
<1>5. Sending("quote", IF size <= 0 \/ ~ok THEN Idle ELSE next)
  BY DEF Submit
<1>6. CASE size <= 0 \/ ~ok
  <2>1. Sending("quote", Idle)
    BY <1>5, <1>6
  <2>2. Becomes("quote", Idle)
    BY <2>1, IdleType, QuoteTask, Becoming DEF TypeInv, Sending
  <2> QED
    BY <1>1, <1>3, <2>1, <2>2, IdleType
<1>7. CASE ~(size <= 0 \/ ~ok)
  <2>1. Sending("quote", next) /\ size \in Nat \ {0}
    BY <1>4, <1>5, <1>7
  <2>2. <<Order(dec.action, size)>> \in Seq(Post_) /\ <<Order(dec.action, size)>> # <<>>
    BY <1>2, <2>1, OneSide
  <2>3. /\ next \in TaskRec /\ next.pc = pc /\ next.posts = <<Order(dec.action, size)>>
        /\ next.inv = 0
    <3> DEFINE posts == <<Order(dec.action, size)>>
    <3> HIDE DEF posts, victims, pc
    <3>1. pc \in {"submit", "cancel"}
      BY DEF pc
    <3>2. LET r == [t EXCEPT !.posts = posts, !.victims = victims, !.inv = 0, !.pc = pc]
          IN  r \in TaskRec /\ r.pc = pc /\ r.posts = posts /\ r.inv = 0
      <4> DEFINE a == [t EXCEPT !.posts = posts]
      <4>1. a \in TaskRec /\ a.posts = posts
        <5> HIDE DEF t
        <5> QED
          BY <1>1, <2>2 DEF TaskRec, posts
      <4> DEFINE b == [a EXCEPT !.victims = victims]
      <4>2. b \in TaskRec /\ b.posts = posts
        <5> HIDE DEF a
        <5> QED
          BY <1>1, <4>1 DEF TaskRec
      <4> DEFINE d == [b EXCEPT !.inv = 0]
      <4>3. d \in TaskRec /\ d.posts = posts /\ d.inv = 0
        <5> HIDE DEF b
        <5> QED
          BY <4>2 DEF TaskRec
      <4>4. LET e == [d EXCEPT !.pc = pc] IN e \in TaskRec /\ e.posts = posts /\ e.inv = 0 /\ e.pc = pc
        <5> HIDE DEF d
        <5> QED
          BY <3>1, <4>3 DEF TaskRec
      <4> QED
        BY <4>4
    <3> QED
      BY <3>2 DEF posts
  <2> HIDE DEF next, size
  <2>4. Becomes("quote", next)
    BY <2>1, <2>2, <2>3, QuoteTask, Becoming DEF TypeInv, Sending
  <2> QED
    BY <1>1, <1>3, <2>1, <2>3, <2>4 DEF size
<1> QED
  BY <1>6, <1>7

LEMMA CancelTask ==
  ASSUME TypeInv, NEW ok \in BOOLEAN, CancelOpposite(ok)
  PROVE  \E q \in TaskRec :
           /\ Becomes("quote", q) /\ Sending("quote", q) /\ q.posts = task["quote"].posts
           /\ q.pc \in {"cancel", "submit"}
<1> DEFINE t == task["quote"]
           rest == t.victims \ {Min(t.victims)}
           pc == IF rest = {} THEN "submit" ELSE "cancel"
           q == [t EXCEPT !.victims = rest, !.pc = pc]
<1>1. t \in TaskRec /\ t.posts # <<>> /\ t.pc = "cancel"
  BY QuoteTask, TaskFields DEF TypeInv, CancelOpposite
<1>2. Sending("quote", q)
  <2>1. Sending("quote", [t EXCEPT !.victims = rest, !.pc = IF rest = {} THEN "submit" ELSE t.pc])
    BY DEF CancelOpposite
  <2> QED
    BY <1>1, <2>1
<1>3. q \in TaskRec /\ q.posts = t.posts /\ q.pc = pc /\ pc \in {"cancel", "submit"}
  <2>1. rest \subseteq Nat
    BY <1>1 DEF TaskRec
  <2> HIDE DEF t, rest
  <2> QED
    BY <1>1, <2>1 DEF TaskRec
<1> HIDE DEF q
<1>4. Becomes("quote", q)
  BY <1>1, <1>2, <1>3, QuoteTask, Becoming DEF TypeInv, Sending
<1> QED
  BY <1>2, <1>3, <1>4

LEMMA PostTask ==
  ASSUME TypeInv, NEW t \in Task, Post(t)
  PROVE  \E q \in TaskRec : Becomes(t, q) /\ q.pc = "clear"
<1> DEFINE q == [Idle EXCEPT !.pc = "clear", !.inv = booked]
<1>1. q \in TaskRec /\ q.pc = "clear"
  <2> DEFINE r == [Idle EXCEPT !.pc = "clear"]
  <2>1. r \in TaskRec /\ r.pc = "clear" /\ booked \in Int
    BY IdleType DEF TaskRec, TypeInv, FeedType
  <2> HIDE DEF r
  <2>2. LET p == [r EXCEPT !.inv = booked] IN p \in TaskRec /\ p.pc = "clear"
    BY <2>1 DEF TaskRec
  <2> QED
    BY <2>2 DEF r
<1>2. task' = [task EXCEPT ![t] = q]
  BY DEF Post
<1> HIDE DEF q
<1> QED
  BY <1>1, <1>2, Becoming DEF TypeInv

LEMMA ClearTask ==
  ASSUME TypeInv, NEW t \in Task, NEW ok \in BOOLEAN, NEW quoted \in BOOLEAN, NEW side \in Action,
         Clear(t, ok, quoted, side)
  PROVE  \E q \in TaskRec :
           /\ Becomes(t, q) /\ Sending(t, q)
           /\ q.pc = "idle" \/ (q.pc = "submit" /\ Len(q.posts) <= 2)
<1> DEFINE posts == IF t = "requote" /\ ~quoted THEN <<>> ELSE Posts(task[t].inv, side)
           q == [Idle EXCEPT !.pc = "submit", !.posts = posts]
<1>1. posts \in Seq(Post_) /\ Len(posts) <= 2
  <2>1. task[t].inv \in Int
    BY TaskFields DEF TypeInv
  <2>2. <<>> \in Seq(Post_) /\ Len(<<>>) = 0
    OBVIOUS
  <2> QED
    BY <2>1, <2>2, PostsType
<1>2. Sending(t, IF posts = <<>> THEN Idle ELSE q)
  BY DEF Clear
<1> HIDE DEF posts
<1>3. CASE posts = <<>>
  <2>1. Becomes(t, Idle)
    BY <1>2, <1>3, IdleType, Becoming DEF TypeInv, Sending
  <2> QED
    BY <1>2, <1>3, <2>1, IdleType
<1>4. CASE posts # <<>>
  <2>1. q \in TaskRec /\ q.pc = "submit" /\ q.posts = posts
    BY <1>1, <1>4, FreshTask
  <2>2. Sending(t, q)
    BY <1>2, <1>4
  <2> HIDE DEF q
  <2>3. Becomes(t, q)
    BY <1>4, <2>1, <2>2, Becoming DEF TypeInv, Sending
  <2> QED
    BY <1>1, <2>1, <2>2, <2>3
<1> QED
  BY <1>3, <1>4

\* An answer, or the end of the session, takes the task off the call.
LEMMA AnsweredTask ==
  ASSUME TypeInv, NEW t \in Task, NEW id \in Nat, task[t].pc = "submit",
         task' = [task EXCEPT ![t] = Answered(@, id)]
  PROVE  \E q \in TaskRec :
           /\ Becomes(t, q)
           /\ q.pc = "idle" \/ (q.pc = "ack" /\ q.posts = task[t].posts)
           /\ q.pc = "ack" => Running
<1> DEFINE u == task[t]
           q == Answered(u, id)
<1>1. u \in TaskRec /\ u.posts # <<>>
  BY TaskFields DEF TypeInv
<1>2. task' = [task EXCEPT ![t] = q]
  BY DEF TypeInv, TaskType
<1>3. q \in TaskRec /\ (q.pc = "idle" \/ (q.pc = "ack" /\ q.posts = u.posts)) /\ (q.pc = "ack" => Running)
  <2>1. LET r == [u EXCEPT !.pc = "ack", !.id = id]
        IN  r \in TaskRec /\ r.pc = "ack" /\ r.posts = u.posts
    <3> HIDE DEF u
    <3> QED
      BY <1>1 DEF TaskRec
  <2> QED
    BY <2>1, IdleType DEF Answered
<1> HIDE DEF q
<1>4. Becomes(t, q)
  BY <1>1, <1>2, <1>3, Becoming DEF TypeInv
<1> QED
  BY <1>3, <1>4

LEMMA AckTask ==
  ASSUME TypeInv, NEW t \in Task, Ack(t)
  PROVE  /\ task[t].posts \in Seq(Post_) /\ task[t].posts # <<>>
         /\ \E q \in TaskRec :
              /\ Becomes(t, q) /\ Sending(t, q)
              /\ q.pc = "idle" \/ (q.pc = "submit" /\ q.posts = Tail(task[t].posts))
<1> DEFINE rest == Tail(task[t].posts)
           q == [Idle EXCEPT !.pc = "submit", !.posts = rest]
<1>1. task[t].posts \in Seq(Post_) /\ task[t].posts # <<>> /\ rest \in Seq(Post_)
  BY TaskFields, RestType DEF TypeInv, Ack
<1>2. Sending(t, IF rest = <<>> THEN Idle ELSE q)
  BY DEF Ack
<1> HIDE DEF rest
<1>3. CASE rest = <<>>
  <2>1. Becomes(t, Idle)
    BY <1>2, <1>3, IdleType, Becoming DEF TypeInv, Sending
  <2> QED
    BY <1>1, <1>2, <1>3, <2>1, IdleType
<1>4. CASE rest # <<>>
  <2>1. q \in TaskRec /\ q.pc = "submit" /\ q.posts = rest
    BY <1>1, <1>4, FreshTask
  <2>2. Sending(t, q)
    BY <1>2, <1>4
  <2> HIDE DEF q
  <2>3. Becomes(t, q)
    BY <1>4, <2>1, <2>2, Becoming DEF TypeInv, Sending
  <2> QED
    BY <1>1, <2>1, <2>2, <2>3 DEF rest
<1> QED
  BY <1>3, <1>4
-----------------------------------------------------------------------------
(* The types.                                                              *)

LEMMA TypeInit == Init => TypeInv
<1> SUFFICES ASSUME Init PROVE TypeInv
  OBVIOUS
<1>1. TaskType
  BY IdleType DEF Init, TaskType
<1>2. BrokerType
  <2>1. accepted \in Nat
    BY CapAssumption DEF Init
  <2>2. <<>> \in Seq(Update)
    BY EmptySeq
  <2> QED
    BY <2>1, <2>2 DEF Init, BrokerType
<1>3. FeedType
  <2>1. owed \in [Task -> Int]
    BY DEF Init
  <2>2. booked \in Int /\ open_orders = {}
    BY DEF Init
  <2> QED
    BY <2>1, <2>2 DEF Init, FeedType
<1> QED
  BY <1>1, <1>2, <1>3 DEF TypeInv

\* The update that a close brings.
Close ==
  [id |-> 0, action |-> IF position > 0 THEN "sell" ELSE "buy", qty |-> Away(position),
   last |-> TRUE]

LEMMA ClosedType ==
  ASSUME BrokerType, NEW keep, keep \subseteq orders, Closed(keep)
  PROVE  /\ position' = 0 /\ orders' = keep
         /\ orders' \subseteq Working /\ events' \in Seq(Update)
         /\ position # 0 => Close \in Update /\ events' = Sent(Close)
         /\ position = 0 => events' = events
<1>1. position # 0 => Close \in Update
  BY DEF BrokerType, Close, Away, Update, Action
<1>2. position # 0 => Sent(Close) \in Seq(Update)
  BY <1>1, EmptySeq, AppendProperties DEF Sent, BrokerType
<1>3. /\ position # 0 => events' = Sent(Close)
      /\ position = 0 => events' = events
      /\ position' = 0 /\ orders' = keep
  BY DEF Closed, Close
<1> QED
  BY <1>1, <1>2, <1>3 DEF BrokerType

LEMMA UnderWayOf ==
  ASSUME NEW q \in TaskRec, q.pc \notin {"idle", "clear"} => q.posts # <<>>
  PROVE  /\ UnderWay(q) \in Nat /\ Len(q.posts) \in Nat
         /\ q.pc = "idle" => UnderWay(q) = 0
         /\ q.pc = "clear" => UnderWay(q) = 2
         /\ q.pc \in {"submit", "ack"} => UnderWay(q) = Len(q.posts) - 1
         /\ q.pc \in {"sync", "synced", "cancel"} => UnderWay(q) = 1
<1>1. Len(q.posts) \in Nat /\ (q.pc \in {"submit", "ack"} => Len(q.posts) \in Nat \ {0})
  <2>1. q.posts \in Seq(Post_)
    BY DEF TaskRec
  <2> QED
    BY <2>1, RestType
<1>2. q.pc \in {"idle", "sync", "synced", "cancel", "clear", "submit", "ack"}
  BY DEF TaskRec
<1> QED
  BY <1>1, <1>2 DEF UnderWay

LEMMA UnderWayFacts ==
  ASSUME TaskType, NEW t \in Task
  PROVE  /\ UnderWay(task[t]) \in Nat
         /\ task[t].pc = "clear" => UnderWay(task[t]) = 2
         /\ task[t].pc \in {"submit", "ack"} => UnderWay(task[t]) = Len(task[t].posts) - 1
         /\ task[t].pc \in {"sync", "synced", "cancel"} => UnderWay(task[t]) = 1
<1>1. task[t] \in TaskRec /\ (task[t].pc \notin {"idle", "clear"} => task[t].posts # <<>>)
  BY DEF TaskType
<1> QED
  BY <1>1, UnderWayOf

LEMMA SendingType ==
  ASSUME FeedType, NEW t \in Task, NEW q, Sending(t, q)
  PROVE  /\ owed' \in [Task -> Int]
         /\ \A u \in Task : owed'[u] = IF u = t /\ q.pc = "submit" /\ paused THEN owed[u] - 1 ELSE owed[u]
<1>1. owed \in [Task -> Int]
  BY DEF FeedType
<1>2. CASE q.pc = "submit" /\ paused
  <2>1. owed' = [owed EXCEPT ![t] = owed[t] - 1]
    BY <1>2 DEF Sending
  <2> QED
    BY <1>1, <1>2, <2>1
<1>3. CASE ~(q.pc = "submit" /\ paused)
  BY <1>1, <1>3 DEF Sending
<1> QED
  BY <1>2, <1>3

LEMMA OwingType ==
  ASSUME TaskType, FeedType, paused' \in BOOLEAN, Owing
  PROVE  /\ owed' \in [Task -> Int]
         /\ \A u \in Task : owed'[u] = IF ~paused' THEN 0 ELSE IF paused THEN owed[u] ELSE UnderWay(task[u])
BY UnderWayFacts DEF FeedType, Owing

\* The update that a fill brings, and what it leaves of the order.
Filled(o, n) == [id |-> o.id, action |-> o.action, qty |-> n, last |-> n = o.left]
Left(o, n) == [o EXCEPT !.left = o.left - n]

LEMMA FillOf ==
  ASSUME TypeInv, NEW o \in orders, NEW n \in 1 .. o.left, Fill(o, n)
  PROVE  /\ o \in Working /\ n \in Nat \ {0} /\ n <= o.left /\ o.left \in Nat
         /\ Filled(o, n) \in Update /\ events' = Sent(Filled(o, n)) /\ events' \in Seq(Update)
         /\ Signed(o.action, n) \in {n, -n} /\ Signed(o.action, n) \in Int
         /\ position' = position + Signed(o.action, n) /\ position' \in Int
         /\ orders' = (orders \ {o}) \cup (IF n = o.left THEN {} ELSE {Left(o, n)})
         /\ orders' \subseteq Working
         /\ n # o.left => Left(o, n) \in Working /\ Left(o, n).action = o.action
                          /\ Left(o, n).left = o.left - n
<1>1. o \in Working /\ o.left \in Nat
  BY DEF TypeInv, BrokerType, Working
<1>2. n \in Nat \ {0} /\ n <= o.left
  BY <1>1
<1>3. Filled(o, n) \in Update
  BY <1>1, <1>2 DEF Working, Update, Filled
<1>4. events' = Sent(Filled(o, n))
  BY DEF Fill, Filled
<1>5. events' \in Seq(Update)
  BY <1>3, <1>4, EmptySeq, AppendProperties DEF Sent, TypeInv, BrokerType
<1>6. n # o.left => Left(o, n) \in Working /\ Left(o, n).action = o.action /\ Left(o, n).left = o.left - n
  BY <1>1, <1>2 DEF Working, Left
<1>7. /\ position' = position + Signed(o.action, n)
      /\ orders' = (orders \ {o}) \cup (IF n = o.left THEN {} ELSE {Left(o, n)})
  BY DEF Fill, Left
<1>8. Signed(o.action, n) \in {n, -n} /\ Signed(o.action, n) \in Int
  BY <1>2, SignedInt
<1>9. position' \in Int
  BY <1>7, <1>8 DEF TypeInv, BrokerType
<1>10. orders' \subseteq Working
  BY <1>6, <1>7 DEF TypeInv, BrokerType
<1> QED
  BY <1>1, <1>2, <1>3, <1>4, <1>5, <1>6, <1>7, <1>8, <1>9, <1>10

\* The order that the broker takes.
LEMMA AcceptOf ==
  ASSUME TypeInv, NEW t \in Task, NEW ok \in BOOLEAN, Accept(t, ok)
  PROVE  \E order \in Working :
           /\ orders' = orders \cup {order} /\ accepted' = accepted + 1
           /\ order.action = Head(task[t].posts).action /\ order.left = Head(task[t].posts).size
<1> DEFINE post == Head(task[t].posts)
           order == [id |-> accepted + 1, action |-> post.action, left |-> post.size,
                     day |-> mode = "maker"]
<1>1. post \in Post_ /\ accepted \in Nat
  BY TaskFields DEF Accept, TypeInv, BrokerType
<1>2. order \in Working /\ order.action = post.action /\ order.left = post.size
  <2> HIDE DEF post
  <2> QED
    BY <1>1 DEF Post_, Working
<1>3. orders' = orders \cup {order} /\ accepted' = accepted + 1
  BY DEF Accept
<1> HIDE DEF order
<1> QED
  BY <1>2, <1>3

LEMMA AcceptTask ==
  ASSUME TypeInv, NEW t \in Task, (\E ok \in BOOLEAN : Accept(t, ok)) \/ Refuse(t)
  PROVE  /\ task[t].pc = "submit"
         /\ \E q \in TaskRec :
              /\ Becomes(t, q)
              /\ q.pc = "idle" \/ (q.pc = "ack" /\ q.posts = task[t].posts)
<1>1. ASSUME NEW ok \in BOOLEAN, Accept(t, ok)
      PROVE  task[t].pc = "submit" /\ \E id \in Nat : task' = [task EXCEPT ![t] = Answered(@, id)]
  <2>1. /\ task[t].pc = "submit"
        /\ task' = [task EXCEPT ![t] = Answered(@, IF ok THEN accepted + 1 ELSE 0)]
    BY <1>1 DEF Accept
  <2>2. (IF ok THEN accepted + 1 ELSE 0) \in Nat
    BY DEF TypeInv, BrokerType
  <2> QED
    BY <2>1, <2>2
<1>2. ASSUME Refuse(t)
      PROVE  task[t].pc = "submit" /\ \E id \in Nat : task' = [task EXCEPT ![t] = Answered(@, id)]
  BY <1>2 DEF Refuse
<1> QED
  BY <1>1, <1>2, AnsweredTask

\* A cancelled task, or one whose call a thread still makes.
LEMMA EndTask ==
  ASSUME TaskType, End
  PROVE  TaskType' /\ \A t \in Task : task'[t].pc = "idle" \/ (task'[t] = task[t] /\ task[t].pc = "submit")
BY IdleType DEF End, TaskType

LEMMA TypeStep == TypeInv /\ AuditType /\ [Next]_vars => TypeInv'
<1> SUFFICES ASSUME TypeInv, AuditType, [Next]_vars PROVE TypeInv'
  OBVIOUS
<1>0. TaskType /\ BrokerType /\ FeedType
  BY DEF TypeInv
<1>1. ASSUME NEW action \in Action, NEW n \in Lot, OnQuote(Order(action, n)) PROVE TypeInv'
  <2>1. TaskType'
    BY <1>0, <1>1, OnQuoteTask, QuoteTask, BecomesType
  <2> QED
    BY <1>0, <1>1, <2>1 DEF OnQuote, BrokerType, FeedType, brokerVars, controlVars, sessionVars, TypeInv
<1>2. ASSUME NEW ok \in BOOLEAN, ReadPosition(ok) PROVE TypeInv'
  <2>1. TaskType'
    BY <1>0, <1>2, ReadPositionTask, QuoteTask, BecomesType
  <2> QED
    BY <1>0, <1>2, <2>1 DEF ReadPosition, BrokerType, FeedType, brokerVars, controlVars, sessionVars, TypeInv
<1>3. ASSUME NEW ok \in BOOLEAN, Submit(ok) PROVE TypeInv'
  <2>1. PICK q \in TaskRec : Becomes("quote", q) /\ Sending("quote", q)
    BY <1>3, SubmitTask
  <2>2. TaskType' /\ owed' \in [Task -> Int]
    BY <1>0, <2>1, QuoteTask, BecomesType, SendingType
  <2> QED
    BY <1>0, <1>3, <2>2 DEF Submit, BrokerType, FeedType, brokerVars, controlVars, sessionVars, TypeInv
<1>4. ASSUME NEW ok \in BOOLEAN, CancelOpposite(ok) PROVE TypeInv'
  <2>1. PICK q \in TaskRec : Becomes("quote", q) /\ Sending("quote", q)
    BY <1>4, CancelTask
  <2>2. TaskType' /\ owed' \in [Task -> Int]
    BY <1>0, <2>1, QuoteTask, BecomesType, SendingType
  <2>3. orders' \subseteq orders /\ open_orders' \subseteq open_orders
    BY <1>4 DEF CancelOpposite
  <2> QED
    BY <1>0, <1>4, <2>2, <2>3 DEF CancelOpposite, BrokerType, FeedType, controlVars, sessionVars, TypeInv
<1>5. ASSUME NEW t \in Task, Post(t) PROVE TypeInv'
  <2>1. TaskType'
    BY <1>0, <1>5, PostTask, BecomesType
  <2> QED
    BY <1>0, <1>5, <2>1 DEF Post, BrokerType, FeedType, brokerVars, controlVars, sessionVars, TypeInv
<1>6. ASSUME NEW t \in Task, NEW ok \in BOOLEAN, NEW quoted \in BOOLEAN, NEW side \in Action,
             Clear(t, ok, quoted, side)
      PROVE  TypeInv'
  <2>1. PICK q \in TaskRec : Becomes(t, q) /\ Sending(t, q)
    BY <1>6, ClearTask
  <2>2. TaskType' /\ owed' \in [Task -> Int]
    BY <1>0, <2>1, BecomesType, SendingType
  <2>3. orders' \subseteq orders /\ open_orders' \subseteq open_orders
    BY <1>6 DEF Clear
  <2> QED
    BY <1>0, <1>6, <2>2, <2>3 DEF Clear, BrokerType, FeedType, controlVars, sessionVars, TypeInv
<1>7. ASSUME NEW t \in Task, NEW ok \in BOOLEAN, Accept(t, ok) PROVE TypeInv'
  <2>1. TaskType'
    BY <1>0, <1>7, AcceptTask, BecomesType
  <2>2. orders' \subseteq Working /\ accepted' \in Nat
    BY <1>0, <1>7, AcceptOf DEF BrokerType
  <2> QED
    BY <1>0, <1>7, <2>1, <2>2 DEF Accept, BrokerType, FeedType, controlVars, sessionVars, TypeInv
<1>8. ASSUME NEW t \in Task, Refuse(t) PROVE TypeInv'
  <2>1. TaskType'
    BY <1>0, <1>8, AcceptTask, BecomesType
  <2> QED
    BY <1>0, <1>8, <2>1 DEF Refuse, BrokerType, FeedType, brokerVars, controlVars, sessionVars, TypeInv
<1>9. ASSUME NEW t \in Task, Ack(t) PROVE TypeInv'
  <2>1. PICK q \in TaskRec : Becomes(t, q) /\ Sending(t, q)
    BY <1>9, AckTask
  <2>2. TaskType' /\ owed' \in [Task -> Int]
    BY <1>0, <2>1, BecomesType, SendingType
  <2>3. open_orders' \subseteq [id : Nat, action : Action]
    <3>1. Head(task[t].posts).action \in Action /\ task[t].id \in Nat
      BY <1>0, <1>9, TaskFields DEF Ack, Post_, TaskRec
    <3>2. \/ open_orders' = open_orders
          \/ open_orders' =
               open_orders \cup {[id |-> task[t].id, action |-> Head(task[t].posts).action]}
      BY <1>9 DEF Ack
    <3>3. [id |-> task[t].id, action |-> Head(task[t].posts).action] \in [id : Nat, action : Action]
      BY <3>1
    <3> QED
      BY <1>0, <3>2, <3>3 DEF FeedType
  <2> QED
    BY <1>0, <1>9, <2>2, <2>3 DEF Ack, BrokerType, FeedType, brokerVars, controlVars, sessionVars, TypeInv
<1>10. ASSUME NEW o \in orders, NEW n \in 1 .. o.left, Fill(o, n) PROVE TypeInv'
  <2>1. position' \in Int
    BY <1>10, FillOf
  <2>2. orders' \subseteq Working /\ events' \in Seq(Update)
    BY <1>10, FillOf
  <2> QED
    BY <1>0, <1>10, <2>1, <2>2 DEF Fill, TaskType, BrokerType, FeedType, controlVars, sessionVars, TypeInv
<1>11. ASSUME NEW o \in orders, Expire(o) PROVE TypeInv'
  BY <1>0, <1>11 DEF Expire, TaskType, BrokerType, FeedType, controlVars, sessionVars, TypeInv
<1>12. ASSUME NEW trips \in BOOLEAN, OnTradeUpdate(trips) PROVE TypeInv'
  <2>1. Head(events) \in Update /\ Tail(events) \in Seq(Update)
    BY <1>0, <1>12, HeadTailProperties DEF BrokerType, OnTradeUpdate
  <2>2. booked' \in Int
    <3>1. Signed(Head(events).action, Head(events).qty) \in Int
      BY <2>1, SignedInt DEF Update
    <3> QED
      BY <1>0, <1>12, <3>1 DEF FeedType, OnTradeUpdate
  <2>3. open_orders' \subseteq open_orders /\ halted' \in BOOLEAN /\ events' \in Seq(Update)
    BY <1>0, <1>12, <2>1 DEF OnTradeUpdate, FeedType
  <2> QED
    BY <1>0, <1>12, <2>2, <2>3 DEF OnTradeUpdate, TaskType, BrokerType, FeedType, controlVars, sessionVars, TypeInv
<1>13. CASE LoseUpdates \/ LoseOthers
  BY <1>0, <1>13, EmptySeq DEF LoseUpdates, LoseOthers, TaskType, BrokerType, FeedType,
                               controlVars, sessionVars, TypeInv
<1>14. ASSUME NEW f \in Feed, Reconcile(f) \/ ReconcileAnswer(f) PROVE TypeInv'
  <2>1. booked' \in Int
    BY <1>0, <1>14 DEF Reconcile, ReconcileAnswer, Reconciled, FeedType, AuditType
  <2> QED
    BY <1>0, <1>14, <2>1 DEF Reconcile, ReconcileAnswer, TaskType, BrokerType, FeedType, brokerVars,
                     controlVars, sessionVars, TypeInv
<1>15. ASSUME NEW trips \in BOOLEAN, OnOtherUpdate(trips) PROVE TypeInv'
  <2>1. Head(echo) \in Int
    BY <1>0, <1>15, HeadTailProperties DEF AuditType, OnOtherUpdate
  <2>2. booked' \in Int /\ halted' \in BOOLEAN
    BY <1>0, <1>15, <2>1 DEF FeedType, OnOtherUpdate
  <2> QED
    BY <1>0, <1>15, <2>2 DEF OnOtherUpdate, TaskType, BrokerType, FeedType, controlVars, sessionVars, TypeInv
<1>16. ASSUME NEW hit \in BOOLEAN, NEW ok \in BOOLEAN, Writer(hit, ok) PROVE TypeInv'
  <2>1. UNCHANGED <<position, orders, events>> \/ \E keep \in {{}, orders} : Closed(keep)
    BY <1>16 DEF Writer, FlattenAll
  <2>2. BrokerType'
    BY <1>0, <1>16, <2>1, ClosedType DEF BrokerType, Writer
  <2>3. paused' \in BOOLEAN /\ Owing
    BY <1>0, <1>16 DEF Writer, FeedType
  <2>4. owed' \in [Task -> Int]
    BY <1>0, <2>3, OwingType
  <2>5. UNCHANGED <<task, booked, open_orders, blind, halted, session>>
    BY <1>16 DEF Writer, sessionVars
  <2> QED
    BY <1>0, <2>2, <2>3, <2>4, <2>5 DEF TaskType, FeedType, TypeInv
<1>17. ASSUME NEW cmd, Command(cmd) PROVE TypeInv'
  <2>1. paused' \in BOOLEAN /\ Owing /\ halted' \in BOOLEAN
    BY <1>0, <1>17 DEF Command, FeedType
  <2>2. owed' \in [Task -> Int]
    BY <1>0, <2>1, OwingType
  <2>3. UNCHANGED <<task, brokerVars, booked, open_orders, blind, session>>
    BY <1>17 DEF Command, sessionVars
  <2> QED
    BY <1>0, <2>1, <2>2, <2>3 DEF TaskType, BrokerType, FeedType, TypeInv, brokerVars
<1>18. CASE End
  <2>1. TaskType'
    BY <1>0, <1>18, EndTask
  <2> QED
    BY <1>0, <1>18, <2>1, EmptySeq DEF End, BrokerType, FeedType, controlVars, sessionVars, TypeInv
<1>19. ASSUME NEW ok \in BOOLEAN, LastFlatten(ok) PROVE TypeInv'
  <2>1. UNCHANGED <<position, orders, events>> \/ Closed({})
    BY <1>19 DEF LastFlatten, FlattenAll
  <2>2. BrokerType'
    BY <1>0, <1>19, <2>1, ClosedType DEF BrokerType, LastFlatten
  <2>3. session' \in {"flat", "left"}
    BY <1>19 DEF LastFlatten
  <2> QED
    BY <1>0, <1>19, <2>2, <2>3 DEF LastFlatten, TaskType, FeedType, controlVars, sessionVars, TypeInv
<1>20. CASE UNCHANGED vars
  BY <1>0, <1>20 DEF vars, TaskType, BrokerType, FeedType, TypeInv
<1>21. CASE Taker
  <2>1. CASE \E action \in {"buy", "sell"}, n \in Lot : OnQuote(Order(action, n))
    BY <1>1, <2>1 DEF Action
  <2>2. CASE \E b \in BOOLEAN : ReadPosition(b) \/ Submit(b) \/ CancelOpposite(b)
    BY <1>2, <1>3, <1>4, <2>2
  <2> QED
    BY <1>21, <2>1, <2>2 DEF Taker
<1>22. CASE Maker
  <2>1. CASE OthersClear
    BY <1>0, <2>1 DEF OthersClear, TaskType, BrokerType, FeedType, controlVars, sessionVars, TypeInv
  <2>2. CASE ~OthersClear
    BY <1>5, <1>6, <1>22, <2>2, QuoteTask DEF Maker, OnWideQuote, Requote, Action
  <2> QED
    BY <2>1, <2>2
<1>23. CASE Broker
  BY <1>7, <1>8, <1>9, <1>10, <1>11, <1>23 DEF Broker
<1>24. CASE Updates
  BY <1>12, <1>13, <1>14, <1>15, <1>24 DEF Updates, Feeds, Feed
<1>25. CASE Page
  BY <1>16, <1>17, <1>18, <1>19, <1>25 DEF Page
<1> QED
  BY <1>20, <1>21, <1>22, <1>23, <1>24, <1>25 DEF Next
-----------------------------------------------------------------------------
(* The books.  What is undelivered is a sum over the updates; it changes   *)
(* with the first and the last of them only.                               *)

Weight(es) == [i \in 1 .. Len(es) |-> Signed(es[i].action, es[i].qty)]

LEMMA TotalIsSum ==
  ASSUME NEW es \in Seq(Update)
  PROVE  /\ Total(es) = Sum(Weight(es), 1 .. Len(es))
         /\ Len(es) \in Nat
         /\ \A i \in 1 .. Len(es) : Weight(es)[i] \in Int
<1> DEFINE S == 1 .. Len(es)
           w == Weight(es)
           G(g) == [s \in SUBSET S |-> IF s = {} THEN 0
                      ELSE LET x == CHOOSE x \in s : TRUE
                           IN  Signed(es[x].action, es[x].qty) + g[s \ {x}]]
           f == CHOOSE g : g = G(g)
           h == CHOOSE g : IsSum(g, w, S)
<1>0. DOMAIN es = S /\ Len(es) \in Nat /\ IsFiniteSet(S)
  BY LenProperties, FS_Interval
<1>1. Total(es) = f[S]
  BY <1>0 DEF Total, MapThenSumSet, MapThenFoldSet
<1>2. Sum(w, S) = h[S]
  BY DEF Sum
<1>3. PICK k : IsSum(k, w, S)
  BY <1>0, SumExists
<1> HIDE DEF h
<1>4. ASSUME NEW g PROVE IsSum(g, w, S) <=> g = G(g)
  <2>1. \A x \in S : w[x] = Signed(es[x].action, es[x].qty)
    BY DEF Weight
  <2> HIDE DEF w, S
  <2>2. ASSUME NEW s \in SUBSET S, s # {}
        PROVE  LET x == CHOOSE x \in s : TRUE
               IN  Signed(es[x].action, es[x].qty) + g[s \ {x}] = w[x] + g[s \ {x}]
    BY <2>1, <2>2
  <2>3. G(g) = [s \in SUBSET S |-> IF s = {} THEN 0
                  ELSE LET x == CHOOSE x \in s : TRUE IN w[x] + g[s \ {x}]]
    BY <2>2
  <2> HIDE DEF G
  <2> QED
    BY ONLY <2>3 DEF IsSum
<1> HIDE DEF G
<1>5. k = G(k)
  BY ONLY <1>3, <1>4
<1>6. f = G(f)
  BY ONLY <1>5 DEF f
<1>7. IsSum(f, w, S)
  BY ONLY <1>4, <1>6
<1>a. IsSum(h, w, S)
  BY ONLY <1>3 DEF h
<1>8. \A i \in S : w[i] \in Int
  <2>1. ASSUME NEW i \in S PROVE Signed(es[i].action, es[i].qty) \in Int
    <3>1. es[i] \in Update
      BY <1>0
    <3>2. es[i].qty \in Int
      BY <3>1 DEF Update
    <3> QED
      BY <3>2, SignedInt
  <2> QED
    BY <2>1 DEF Weight
<1>9. f[S] = h[S]
  <2> HIDE DEF f, h, w, S
  <2> QED
    BY <1>0, <1>a, <1>7, SumUnique
<1> QED
  BY <1>0, <1>1, <1>2, <1>8, <1>9

LEMMA TotalNone == Total(<<>>) = 0
<1>1. <<>> \in Seq(Update) /\ Len(<<>>) = 0
  BY EmptySeq
<1> QED
  BY <1>1, TotalIsSum, SumNone

LEMMA TotalAppend ==
  ASSUME NEW es \in Seq(Update), NEW e \in Update
  PROVE  Total(es) \in Int /\ Total(Append(es, e)) = Total(es) + Signed(e.action, e.qty)
<1> DEFINE fs == Append(es, e)
           k == Len(es)
<1>1. fs \in Seq(Update) /\ Len(fs) = k + 1 /\ k \in Nat
  BY AppendProperties, LenProperties
<1>2. \A i \in 1 .. k : Weight(fs)[i] = Weight(es)[i]
  BY <1>1, AppendProperties DEF Weight
<1>3. Weight(fs)[k + 1] = Signed(e.action, e.qty)
  BY <1>1, AppendProperties DEF Weight
<1>4. \A i \in 1 .. k + 1 : Weight(fs)[i] \in Int
  BY <1>1, TotalIsSum
<1> HIDE DEF fs
<1>5. /\ Sum(Weight(fs), 1 .. k + 1) = Sum(Weight(fs), 1 .. k) + Weight(fs)[k + 1]
      /\ Sum(Weight(fs), 1 .. k) \in Int
  BY <1>1, <1>4, SumNext
<1>6. Sum(Weight(fs), 1 .. k) = Sum(Weight(es), 1 .. k)
  <2> DEFINE T == 1 .. k
             v == Weight(fs)
             w == Weight(es)
  <2>1. IsFiniteSet(T) /\ \A i \in T : v[i] = w[i]
    BY <1>1, <1>2, FS_Interval
  <2> HIDE DEF T, v, w
  <2>2. Sum(v, T) = Sum(w, T)
    BY <2>1, SumSame
  <2> QED
    BY <2>2 DEF T, v, w
<1>7. Total(fs) = Sum(Weight(fs), 1 .. k + 1)
  BY <1>1, TotalIsSum
<1>8. Total(es) = Sum(Weight(es), 1 .. k)
  BY TotalIsSum
<1> QED
  BY <1>3, <1>5, <1>6, <1>7, <1>8 DEF fs

LEMMA TotalTail ==
  ASSUME NEW es \in Seq(Update), es # <<>>
  PROVE  /\ Total(Tail(es)) \in Int
         /\ Total(es) = Signed(Head(es).action, Head(es).qty) + Total(Tail(es))
<1> DEFINE fs == Tail(es)
           k == Len(fs)
<1>1. fs \in Seq(Update) /\ k \in Nat /\ Len(es) = k + 1 /\ 1 \in 1 .. Len(es)
  BY HeadTailProperties, LenProperties, EmptySeq
<1>2. \A i \in 1 .. k : Weight(fs)[i] = Weight(es)[i + 1]
  <2>1. \A i \in 1 .. k : fs[i] = es[i + 1]
    BY HeadTailProperties
  <2> HIDE DEF fs
  <2>2. ASSUME NEW i \in 1 .. k, NEW j, j = i + 1 PROVE Weight(fs)[i] = Weight(es)[j]
    <3>1. j \in 1 .. Len(es) /\ fs[i] = es[j]
      BY <1>1, <2>1, <2>2
    <3> QED
      BY <3>1 DEF Weight
  <2> QED
    BY <2>2
<1>3. Weight(es)[1] = Signed(Head(es).action, Head(es).qty)
  BY <1>1 DEF Weight
<1>4. \A i \in 1 .. k + 1 : Weight(es)[i] \in Int
  BY <1>1, TotalIsSum
<1>5. \A i \in 1 .. k : Weight(fs)[i] \in Int
  BY <1>1, TotalIsSum
<1> HIDE DEF fs
<1>6. Sum(Weight(es), 1 .. k + 1) = Weight(es)[1] + Sum(Weight(fs), 1 .. k)
  BY <1>1, <1>2, <1>4, SumShift
<1>7. Sum(Weight(fs), 1 .. k) \in Int
  <2> DEFINE T == 1 .. k
             v == Weight(fs)
  <2>1. IsFiniteSet(T) /\ \A i \in T : v[i] \in Int
    BY <1>1, <1>5, FS_Interval
  <2> HIDE DEF T, v
  <2>2. Sum(v, T) \in Int
    BY <2>1, SumType
  <2> QED
    BY <2>2 DEF T, v
<1>8. Total(es) = Sum(Weight(es), 1 .. k + 1) /\ Total(fs) = Sum(Weight(fs), 1 .. k)
  BY <1>1, TotalIsSum
<1> QED
  BY <1>3, <1>6, <1>7, <1>8 DEF fs

LEMMA TotalInt == ASSUME NEW es \in Seq(Update) PROVE Total(es) \in Int
<1>1. CASE es = <<>>
  BY <1>1, TotalNone
<1>2. CASE es # <<>>
  <2>1. Head(es) \in Update
    BY <1>2, HeadTailProperties
  <2>2. Signed(Head(es).action, Head(es).qty) \in Int
    BY <2>1, SignedInt DEF Update
  <2> QED
    BY <1>2, <2>2, TotalTail
<1> QED
  BY <1>1, <1>2

\* What the updates that an answer has met make of it, as shares to be added.
Met(c) == c.later - c.before

LEMMA CrossedFacts ==
  ASSUME AuditType, NEW n \in Int
  PROVE  /\ Crossed(n) \in [Feed -> Crossing]
         /\ \A f \in Feed : snapshot[f] # NoAnswer => Met(Crossed(n)[f]) = Met(crossing[f]) + n
<1>1. ASSUME NEW f \in Feed
      PROVE  /\ Crossed(n)[f] \in Crossing
             /\ snapshot[f] # NoAnswer => Met(Crossed(n)[f]) = Met(crossing[f]) + n
  <2> DEFINE c == crossing[f]
  <2>1. c \in Crossing
    BY DEF AuditType
  <2>2. Crossed(n)[f] = IF snapshot[f] = NoAnswer THEN c
                        ELSE IF c.old > 0 THEN [c EXCEPT !.old = c.old - 1, !.before = c.before - n]
                        ELSE [c EXCEPT !.later = c.later + n]
    BY DEF Crossed
  <2> HIDE DEF c
  <2>3. c.old > 0 => LET d == [c EXCEPT !.old = c.old - 1, !.before = c.before - n]
                     IN  d \in Crossing /\ Met(d) = Met(c) + n
    <3> SUFFICES ASSUME c.old > 0
                 PROVE  LET d == [c EXCEPT !.old = c.old - 1, !.before = c.before - n]
                        IN  d \in Crossing /\ Met(d) = Met(c) + n
      OBVIOUS
    <3> DEFINE e == [c EXCEPT !.old = c.old - 1]
    <3>1. e \in Crossing /\ e.before = c.before /\ e.later = c.later
      BY <2>1 DEF Crossing
    <3>2. c.before \in Int /\ c.later \in Int
      BY <2>1 DEF Crossing
    <3> HIDE DEF e
    <3>3. LET d == [e EXCEPT !.before = c.before - n]
          IN  d \in Crossing /\ d.later - d.before = (c.later - c.before) + n
      BY <3>1, <3>2 DEF Crossing
    <3> QED
      BY <3>3 DEF e, Met
  <2>4. LET d == [c EXCEPT !.later = c.later + n] IN d \in Crossing /\ Met(d) = Met(c) + n
    BY <2>1 DEF Crossing, Met
  <2> QED
    BY <2>1, <2>2, <2>3, <2>4 DEF c
<1>2. Crossed(n) = [f \in Feed |-> Crossed(n)[f]]
  BY DEF Crossed
<1> QED
  BY <1>1, <1>2

LEMMA NotCrossedType == NotCrossed \in Crossing
BY DEF NotCrossed, Crossing

\* What the stream takes with it when it breaks has been met by nothing.
LEMMA LostFacts ==
  ASSUME AuditType, events \in Seq(Update), LoseUpdates
  PROVE  /\ Undelivered \in Int /\ off' = off - Undelivered /\ Undelivered' = 0
         /\ crossing' \in [Feed -> Crossing]
         /\ \A f \in Feed : snapshot[f] # NoAnswer => Met(crossing'[f]) = Met(crossing[f]) + Undelivered
<1>1. Undelivered \in Int
  BY TotalInt DEF Undelivered
<1>2. events' = <<>> /\ off' = off - Undelivered
  BY DEF LoseUpdates
<1>3. Undelivered' = 0
  BY <1>2, TotalNone DEF Undelivered
<1>4. ASSUME NEW f \in Feed
      PROVE  /\ crossing'[f] \in Crossing
             /\ snapshot[f] # NoAnswer => Met(crossing'[f]) = Met(crossing[f]) + Undelivered
  <2> DEFINE c == crossing[f]
             n == c.later + Undelivered - c.before
  <2>1. c \in Crossing
    BY DEF AuditType
  <2>2. crossing'[f] = IF snapshot[f] = NoAnswer THEN c ELSE [NotCrossed EXCEPT !.later = n]
    BY DEF LoseUpdates
  <2> HIDE DEF c
  <2>3. [NotCrossed EXCEPT !.later = n] = [old |-> 0, before |-> 0, later |-> n] /\ n \in Int
    BY <1>1, <2>1 DEF NotCrossed, Crossing
  <2>4. Met([old |-> 0, before |-> 0, later |-> n]) = Met(c) + Undelivered
    BY <1>1, <2>1 DEF Met, Crossing
  <2>5. [old |-> 0, before |-> 0, later |-> n] \in Crossing
    BY <2>3 DEF Crossing
  <2> HIDE DEF n
  <2> QED
    BY <2>1, <2>2, <2>3, <2>4, <2>5 DEF c
<1>5. crossing' = [f \in Feed |-> crossing'[f]]
  BY DEF LoseUpdates
<1> QED
  BY <1>1, <1>2, <1>3, <1>4, <1>5

LEMMA AuditInit == Init => AuditType
<1> SUFFICES ASSUME Init PROVE AuditType
  OBVIOUS
<1>1. position = 1 /\ booked \in {0, position} /\ off = booked - position /\ echo = <<>>
  BY DEF Init
<1>2. off \in Int /\ echo \in Seq(Int)
  BY <1>1, EmptySeq
<1> QED
  BY <1>2, NotCrossedType DEF Init, AuditType

LEMMA AuditQuiet ==
  ASSUME AuditType, UNCHANGED <<snapshot, crossing, off>>, echo' \in Seq(Int)
  PROVE  AuditType'
BY DEF AuditType

LEMMA EchoType ==
  ASSUME AuditType, NEW n \in Int, echo' = Echoed(n)
  PROVE  echo' \in Seq(Int)
<1>1. echo \in Seq(Int)
  BY DEF AuditType
<1>2. Append(echo, n) \in Seq(Int)
  BY <1>1, AppendProperties
<1> QED
  BY <1>1, <1>2 DEF Echoed

\* A close, of everything or of the symbol.
LEMMA EchoClosed ==
  ASSUME AuditType, position \in Int,
         UNCHANGED <<position, orders, events, echo>> \/ \E keep \in {{}, orders} : Closed(keep)
  PROVE  echo' \in Seq(Int)
<1>1. -position \in Int
  OBVIOUS
<1>2. UNCHANGED echo \/ echo' = Echoed(-position)
  BY DEF Closed
<1>3. CASE UNCHANGED echo
  BY <1>3 DEF AuditType
<1>4. CASE echo' = Echoed(-position)
  <2> DEFINE n == -position
  <2>1. n \in Int /\ echo' = Echoed(n)
    BY <1>1, <1>4
  <2> HIDE DEF n
  <2> QED
    BY <2>1, EchoType
<1> QED
  BY <1>2, <1>3, <1>4

LEMMA AuditStep == TypeInv /\ AuditType /\ [Next]_vars => AuditType'
<1> SUFFICES ASSUME TypeInv, AuditType, [Next]_vars PROVE AuditType'
  OBVIOUS
<1>0. echo \in Seq(Int) /\ events \in Seq(Update) /\ position \in Int
  BY DEF TypeInv, BrokerType, AuditType
<1>1. CASE Taker
  BY <1>0, <1>1, AuditQuiet, Zenon DEF Taker, OnQuote, ReadPosition, Submit, CancelOpposite, brokerVars, audit
<1>2. CASE Maker
  BY <1>0, <1>2, AuditQuiet, Zenon DEF Maker, OnWideQuote, Requote, Post, Clear, OthersClear, brokerVars, audit
<1>3. ASSUME NEW t \in Task, (\E ok \in BOOLEAN : Accept(t, ok)) \/ Refuse(t) \/ Ack(t) PROVE AuditType'
  BY <1>0, <1>3, AuditQuiet DEF Accept, Refuse, Ack, brokerVars, audit
<1>4. ASSUME NEW o \in orders, NEW n \in 1 .. o.left, Fill(o, n) PROVE AuditType'
  <2>1. Signed(o.action, n) \in Int
    BY <1>4, FillOf
  <2>2. echo' = Echoed(Signed(o.action, n)) /\ UNCHANGED <<snapshot, crossing, off>>
    BY <1>4 DEF Fill, audit
  <2> QED
    BY <2>1, <2>2, EchoType, AuditQuiet
<1>5. ASSUME NEW o \in orders, Expire(o) PROVE AuditType'
  BY <1>0, <1>5, AuditQuiet DEF Expire, audit
<1>6. ASSUME NEW trips \in BOOLEAN, OnTradeUpdate(trips) PROVE AuditType'
  <2>1. Head(events) \in Update
    BY <1>0, <1>6, HeadTailProperties DEF OnTradeUpdate
  <2>2. Signed(Head(events).action, Head(events).qty) \in Int
    BY <2>1, SignedInt DEF Update
  <2>3. crossing' \in [Feed -> Crossing]
    BY <1>6, <2>2, CrossedFacts DEF OnTradeUpdate
  <2> QED
    BY <1>6, <2>3 DEF OnTradeUpdate, AuditType
<1>7. ASSUME NEW trips \in BOOLEAN, OnOtherUpdate(trips) PROVE AuditType'
  <2>1. Head(echo) \in Int /\ Tail(echo) \in Seq(Int)
    BY <1>0, <1>7, HeadTailProperties DEF OnOtherUpdate
  <2> QED
    BY <1>7, <2>1 DEF OnOtherUpdate, AuditType
<1>8. CASE LoseUpdates
  <2>1. crossing' \in [Feed -> Crossing] /\ off' \in Int
    BY <1>0, <1>8, LostFacts DEF AuditType
  <2> QED
    BY <1>8, <2>1 DEF LoseUpdates, AuditType
<1>9. CASE LoseOthers
  BY <1>9, EmptySeq, AuditQuiet DEF LoseOthers, audit
<1>10. ASSUME NEW f \in Feed, Reconcile(f) PROVE AuditType'
  <2> DEFINE c == [old |-> Len(events), before |-> Undelivered, later |-> 0]
  <2>1. c \in Crossing
    <3>1. Len(events) \in Nat /\ Undelivered \in Int
      BY <1>0, TotalInt, LenProperties DEF Undelivered
    <3> QED
      BY <3>1 DEF Crossing
  <2>2. crossing' = [crossing EXCEPT ![f] = c]
    BY <1>10 DEF Reconcile
  <2> HIDE DEF c
  <2>3. crossing' \in [Feed -> Crossing]
    BY <2>1, <2>2 DEF AuditType
  <2> QED
    BY <1>0, <1>10, <2>3 DEF Reconcile, AuditType, brokerVars
<1>11. ASSUME NEW f \in Feed, ReconcileAnswer(f) PROVE AuditType'
  <2>1. crossing' \in [Feed -> Crossing]
    BY <1>11, NotCrossedType DEF ReconcileAnswer, AuditType
  <2>2. off' \in Int
    BY <1>11 DEF ReconcileAnswer, AuditType, Crossing
  <2> QED
    BY <1>0, <1>11, <2>1, <2>2 DEF ReconcileAnswer, AuditType, brokerVars
<1>12. ASSUME NEW hit \in BOOLEAN, NEW ok \in BOOLEAN, Writer(hit, ok) PROVE AuditType'
  <2>1. UNCHANGED <<position, orders, events, echo>> \/ \E keep \in {{}, orders} : Closed(keep)
    BY <1>12 DEF Writer, FlattenAll
  <2> QED
    BY <1>0, <1>12, <2>1, EchoClosed, AuditQuiet DEF Writer, audit
<1>13. ASSUME NEW cmd, Command(cmd) PROVE AuditType'
  BY <1>0, <1>13, AuditQuiet DEF Command, brokerVars, audit
<1>14. CASE End
  BY <1>14, NotCrossedType, EmptySeq DEF End, AuditType
<1>15. ASSUME NEW ok \in BOOLEAN, LastFlatten(ok) PROVE AuditType'
  <2>1. UNCHANGED <<position, orders, events, echo>> \/ \E keep \in {{}, orders} : Closed(keep)
    BY <1>15 DEF LastFlatten, FlattenAll
  <2> QED
    BY <1>0, <1>15, <2>1, EchoClosed, AuditQuiet DEF LastFlatten, audit
<1>16. CASE UNCHANGED vars
  BY <1>0, <1>16, AuditQuiet DEF vars
<1>17. CASE Broker
  BY <1>3, <1>4, <1>5, <1>17 DEF Broker
<1>18. CASE Updates
  BY <1>6, <1>7, <1>8, <1>9, <1>10, <1>11, <1>18 DEF Updates, Feeds, Feed
<1>19. CASE Page
  BY <1>12, <1>13, <1>14, <1>15, <1>19 DEF Page
<1> QED
  BY <1>1, <1>2, <1>16, <1>17, <1>18, <1>19 DEF Next
-----------------------------------------------------------------------------
(* A pause.  Its history says of each task how many orders it may still    *)
(* send; while the pause lasts, that is at least what the task has under   *)
(* way: every order sent takes one off both, and a paused task takes up    *)
(* nothing new.  A taker that cancels first has one order to send.         *)

PauseInv ==
  \A t \in Task : /\ owed[t] >= 0
                  /\ paused => owed[t] >= UnderWay(task[t])
                  /\ task[t].pc = "cancel" => Len(task[t].posts) = 1

LEMMA PauseQuiet ==
  ASSUME PauseInv, UNCHANGED <<task, owed, paused>>
  PROVE  PauseInv'
BY DEF PauseInv

\* A task goes on without sending.
LEMMA PauseMove ==
  ASSUME TypeInv, PauseInv, NEW t \in Task, NEW q, Becomes(t, q), UNCHANGED <<owed, paused>>,
         paused => UnderWay(q) <= UnderWay(task[t]), q.pc = "cancel" => Len(q.posts) = 1
  PROVE  PauseInv'
<1>1. UnderWay(q) \in Nat
  BY UnderWayOf DEF Becomes
<1>2. UnderWay(task[t]) \in Nat /\ owed[t] \in Int
  BY UnderWayFacts DEF TypeInv, FeedType
<1>3. paused => owed[t] >= UnderWay(q)
  BY <1>1, <1>2 DEF PauseInv
<1> QED
  BY <1>3 DEF PauseInv, Becomes

\* A task goes on, and may send an order.
LEMMA PauseSend ==
  ASSUME TypeInv, PauseInv, NEW t \in Task, NEW q, Becomes(t, q), Sending(t, q), UNCHANGED paused,
         q.pc = "submit" => Len(q.posts) <= UnderWay(task[t]),
         q.pc # "submit" => UnderWay(q) <= UnderWay(task[t]),
         q.pc = "cancel" => Len(q.posts) = 1
  PROVE  PauseInv'
<1>1. FeedType /\ TaskType
  BY DEF TypeInv
<1>2. CASE q.pc = "submit" /\ paused
  <2>1. \A u \in Task : owed'[u] = IF u = t THEN owed[u] - 1 ELSE owed[u]
    BY <1>1, <1>2, SendingType
  <2>2. /\ UnderWay(q) = Len(q.posts) - 1 /\ UnderWay(q) \in Nat /\ Len(q.posts) \in Nat
        /\ UnderWay(task[t]) \in Nat /\ owed[t] \in Int /\ owed[t] >= UnderWay(task[t])
    BY <1>1, <1>2, UnderWayOf, UnderWayFacts DEF Becomes, FeedType, PauseInv
  <2>3. owed'[t] >= UnderWay(q) /\ owed'[t] >= 0
    BY <1>2, <2>1, <2>2
  <2> QED
    BY <1>2, <2>1, <2>3 DEF PauseInv, Becomes
<1>3. CASE ~(q.pc = "submit" /\ paused)
  <2>1. UNCHANGED owed
    BY <1>3 DEF Sending
  <2>2. paused => UnderWay(q) <= UnderWay(task[t])
    BY <1>3
  <2> QED
    BY <2>1, <2>2, PauseMove
<1> QED
  BY <1>2, <1>3

LEMMA PauseBegin ==
  ASSUME TypeInv, PauseInv, paused' \in BOOLEAN, Owing, UNCHANGED task
  PROVE  PauseInv'
<1>1. FeedType /\ TaskType
  BY DEF TypeInv
<1>2. \A u \in Task : owed'[u] = IF ~paused' THEN 0 ELSE IF paused THEN owed[u] ELSE UnderWay(task[u])
  BY <1>1, OwingType
<1>3. \A u \in Task : UnderWay(task[u]) \in Nat
  BY <1>1, UnderWayFacts
<1>4. CASE ~paused'
  BY <1>2, <1>4 DEF PauseInv
<1>5. CASE paused' /\ paused
  BY <1>2, <1>5 DEF PauseInv
<1>6. CASE paused' /\ ~paused
  BY <1>2, <1>3, <1>6 DEF PauseInv
<1> QED
  BY <1>4, <1>5, <1>6

LEMMA PauseStep ==
  ASSUME TypeInv, PauseInv, [Next]_vars
  PROVE  PauseInv'
<1>0. TaskType /\ FeedType
  BY DEF TypeInv
<1>1. ASSUME NEW action \in Action, NEW n \in Lot, OnQuote(Order(action, n)) PROVE PauseInv'
  <2>1. PICK q \in TaskRec : Becomes("quote", q) /\ q.pc = "sync"
    BY <1>1, OnQuoteTask
  <2>2. ~paused /\ UNCHANGED <<owed, paused>>
    BY <1>1 DEF OnQuote, controlVars
  <2> QED
    BY <2>1, <2>2, QuoteTask, PauseMove
<1>2. ASSUME NEW ok \in BOOLEAN, ReadPosition(ok) PROVE PauseInv'
  <2>1. PICK q \in TaskRec : Becomes("quote", q) /\ q.pc = "synced"
    BY <1>2, ReadPositionTask
  <2>2. UNCHANGED <<owed, paused>> /\ task["quote"].pc = "sync"
    BY <1>2 DEF ReadPosition, controlVars
  <2>3. UnderWay(q) = 1 /\ UnderWay(task["quote"]) = 1
    BY <1>0, <2>1, <2>2, QuoteTask, UnderWayOf, UnderWayFacts DEF Becomes
  <2> QED
    BY <2>1, <2>2, <2>3, QuoteTask, PauseMove
<1>3. ASSUME NEW ok \in BOOLEAN, Submit(ok) PROVE PauseInv'
  <2>1. PICK q \in TaskRec :
          /\ Becomes("quote", q) /\ Sending("quote", q)
          /\ q.pc = "idle" \/ (q.pc \in {"submit", "cancel"} /\ Len(q.posts) = 1)
    BY <1>3, SubmitTask
  <2>2. UNCHANGED paused /\ task["quote"].pc = "synced"
    BY <1>3 DEF Submit, controlVars
  <2>3. /\ UnderWay(task["quote"]) = 1 /\ (q.pc = "idle" => UnderWay(q) = 0)
        /\ q.pc = "cancel" => UnderWay(q) = 1
    BY <1>0, <2>1, <2>2, QuoteTask, UnderWayOf, UnderWayFacts DEF Becomes
  <2>4. /\ Becomes("quote", q) /\ Sending("quote", q)
        /\ q.pc = "submit" => Len(q.posts) <= UnderWay(task["quote"])
        /\ q.pc # "submit" => UnderWay(q) <= UnderWay(task["quote"])
        /\ q.pc = "cancel" => Len(q.posts) = 1
    <3>1. CASE q.pc = "idle"
      BY <2>1, <2>2, <2>3, <3>1
    <3>2. CASE q.pc = "submit"
      <4>1. Len(q.posts) = 1 /\ UnderWay(task["quote"]) = 1
        BY <2>1, <2>3, <3>2
      <4>2. Len(q.posts) <= UnderWay(task["quote"])
        BY <4>1
      <4> QED
        BY <2>1, <3>2, <4>2
    <3>3. CASE q.pc = "cancel"
      BY <2>1, <2>2, <2>3, <3>3
    <3> QED
      BY <2>1, <3>1, <3>2, <3>3
  <2> QED
    BY <2>2, <2>4, QuoteTask, PauseSend
<1>4. ASSUME NEW ok \in BOOLEAN, CancelOpposite(ok) PROVE PauseInv'
  <2>1. PICK q \in TaskRec :
           /\ Becomes("quote", q) /\ Sending("quote", q) /\ q.posts = task["quote"].posts
           /\ q.pc \in {"cancel", "submit"}
    BY <1>4, CancelTask
  <2>2. UNCHANGED paused /\ task["quote"].pc = "cancel"
    BY <1>4 DEF CancelOpposite, controlVars
  <2>3. /\ UnderWay(task["quote"]) = 1 /\ Len(q.posts) = 1
        /\ q.pc = "cancel" => UnderWay(q) = 1
    BY <1>0, <2>1, <2>2, QuoteTask, UnderWayOf, UnderWayFacts DEF Becomes, PauseInv
  <2>4. /\ Becomes("quote", q) /\ Sending("quote", q)
        /\ q.pc = "submit" => Len(q.posts) <= UnderWay(task["quote"])
        /\ q.pc # "submit" => UnderWay(q) <= UnderWay(task["quote"])
        /\ q.pc = "cancel" => Len(q.posts) = 1
    BY <2>1, <2>2, <2>3
  <2> QED
    BY <2>2, <2>4, QuoteTask, PauseSend
<1>5. ASSUME NEW t \in Task, Post(t), ~paused PROVE PauseInv'
  <2>1. PICK q \in TaskRec : Becomes(t, q) /\ q.pc = "clear"
    BY <1>5, PostTask
  <2>2. UNCHANGED <<owed, paused>>
    BY <1>5 DEF Post, controlVars
  <2> QED
    BY <1>5, <2>1, <2>2, PauseMove
<1>6. ASSUME NEW t \in Task, NEW ok \in BOOLEAN, NEW quoted \in BOOLEAN, NEW side \in Action,
             Clear(t, ok, quoted, side)
      PROVE  PauseInv'
  <2>1. PICK q \in TaskRec :
           /\ Becomes(t, q) /\ Sending(t, q)
           /\ q.pc = "idle" \/ (q.pc = "submit" /\ Len(q.posts) <= 2)
    BY <1>6, ClearTask
  <2>2. UNCHANGED paused /\ task[t].pc = "clear"
    BY <1>6 DEF Clear, controlVars
  <2>3. UnderWay(task[t]) = 2 /\ (q.pc = "idle" => UnderWay(q) = 0)
    BY <1>0, <2>1, <2>2, UnderWayOf, UnderWayFacts DEF Becomes
  <2> QED
    BY <2>1, <2>2, <2>3, PauseSend
<1>7. ASSUME NEW t \in Task, (\E ok \in BOOLEAN : Accept(t, ok)) \/ Refuse(t) PROVE PauseInv'
  <2>1. PICK q \in TaskRec :
           /\ Becomes(t, q)
           /\ q.pc = "idle" \/ (q.pc = "ack" /\ q.posts = task[t].posts)
    BY <1>7, AcceptTask
  <2>2. UNCHANGED <<owed, paused>> /\ task[t].pc = "submit"
    BY <1>7 DEF Accept, Refuse, controlVars
  <2>3. /\ UnderWay(task[t]) \in Nat
        /\ q.pc = "idle" => UnderWay(q) = 0
        /\ q.pc = "ack" => UnderWay(q) = UnderWay(task[t])
    BY <1>0, <2>1, <2>2, UnderWayOf, UnderWayFacts DEF Becomes
  <2> QED
    BY <2>1, <2>2, <2>3, PauseMove
<1>8. ASSUME NEW t \in Task, Ack(t) PROVE PauseInv'
  <2>1. PICK q \in TaskRec :
          /\ Becomes(t, q) /\ Sending(t, q)
          /\ q.pc = "idle" \/ (q.pc = "submit" /\ q.posts = Tail(task[t].posts))
    BY <1>8, AckTask
  <2>2. UNCHANGED paused /\ task[t].pc = "ack"
    BY <1>8 DEF Ack, controlVars
  <2>3. Len(Tail(task[t].posts)) = Len(task[t].posts) - 1
    BY <1>8, AckTask, RestType
  <2>4. /\ UnderWay(task[t]) \in Nat /\ UnderWay(task[t]) = Len(task[t].posts) - 1
        /\ q.pc = "idle" => UnderWay(q) = 0
    BY <1>0, <2>1, <2>2, UnderWayOf, UnderWayFacts DEF Becomes
  <2>5. /\ Becomes(t, q) /\ Sending(t, q)
        /\ q.pc = "submit" => Len(q.posts) <= UnderWay(task[t])
        /\ q.pc # "submit" => UnderWay(q) <= UnderWay(task[t])
        /\ q.pc = "cancel" => Len(q.posts) = 1
    <3>1. CASE q.pc = "idle"
      BY <2>1, <2>2, <2>3, <2>4, <3>1
    <3>2. CASE q.pc = "submit"
      <4>1. q.posts = Tail(task[t].posts)
        BY <2>1, <3>2
      <4>2. Len(q.posts) = UnderWay(task[t])
        BY <2>3, <2>4, <4>1
      <4>3. Len(q.posts) <= UnderWay(task[t])
        BY <2>4, <4>2
      <4> QED
        BY <2>1, <3>2, <4>3
    <3> QED
      BY <2>1, <3>1, <3>2
  <2> QED
    BY <2>2, <2>5, PauseSend
<1>9. ASSUME NEW o \in orders, (\E n \in 1 .. o.left : Fill(o, n)) \/ Expire(o) PROVE PauseInv'
  BY <1>9, PauseQuiet DEF Fill, Expire, controlVars
<1>10. CASE Updates
  BY <1>10, PauseQuiet DEF Updates, OnTradeUpdate, OnOtherUpdate, LoseUpdates, LoseOthers, Reconcile,
                          ReconcileAnswer, controlVars
<1>11. ASSUME NEW hit \in BOOLEAN, NEW ok \in BOOLEAN, Writer(hit, ok) PROVE PauseInv'
  <2>1. paused' \in BOOLEAN /\ Owing /\ UNCHANGED task
    BY <1>0, <1>11 DEF Writer, FeedType
  <2> QED
    BY <2>1, PauseBegin
<1>12. ASSUME NEW cmd, Command(cmd) PROVE PauseInv'
  <2>1. paused' \in BOOLEAN /\ Owing /\ UNCHANGED task
    BY <1>0, <1>12 DEF Command, FeedType
  <2> QED
    BY <2>1, PauseBegin
<1>13. CASE End
  <2>1. \A t \in Task : task'[t].pc = "idle" \/ task'[t] = task[t]
    BY <1>0, <1>13, EndTask
  <2>2. UNCHANGED <<owed, paused>>
    BY <1>13 DEF End, controlVars
  <2>3. ASSUME NEW t \in Task, task'[t].pc = "idle", task'[t] # task[t]
        PROVE  UnderWay(task'[t]) = 0
    BY <2>3 DEF UnderWay
  <2>4. \A t \in Task : owed[t] >= 0
    BY DEF PauseInv
  <2>5. ASSUME NEW t \in Task
        PROVE  /\ owed'[t] >= 0
               /\ paused' => owed'[t] >= UnderWay(task'[t])
               /\ task'[t].pc = "cancel" => Len(task'[t].posts) = 1
    <3>1. CASE task'[t] = task[t]
      BY <2>2, <3>1 DEF PauseInv
    <3>2. CASE task'[t] # task[t]
      BY <2>1, <2>2, <2>3, <2>4, <3>2
    <3> QED
      BY <3>1, <3>2
  <2> QED
    BY <2>5 DEF PauseInv
<1>14. ASSUME NEW ok \in BOOLEAN, LastFlatten(ok) PROVE PauseInv'
  BY <1>14, PauseQuiet DEF LastFlatten, controlVars
<1>15. CASE UNCHANGED vars
  BY <1>15, PauseQuiet DEF vars
<1>16. CASE Taker
  <2>1. CASE \E action \in {"buy", "sell"}, n \in Lot : OnQuote(Order(action, n))
    BY <1>1, <2>1 DEF Action
  <2>2. CASE \E b \in BOOLEAN : ReadPosition(b) \/ Submit(b) \/ CancelOpposite(b)
    BY <1>2, <1>3, <1>4, <2>2
  <2> QED
    BY <1>16, <2>1, <2>2 DEF Taker
<1>17. CASE Maker
  <2>1. CASE OthersClear
    BY <2>1, PauseQuiet DEF OthersClear, controlVars
  <2>2. CASE ~OthersClear
    BY <1>5, <1>6, <1>17, <2>2, QuoteTask DEF Maker, OnWideQuote, Requote, may_requote, Action
  <2> QED
    BY <2>1, <2>2
<1>18. CASE Broker
  BY <1>7, <1>8, <1>9, <1>18 DEF Broker
<1>19. CASE Page
  BY <1>11, <1>12, <1>13, <1>14, <1>19 DEF Page
<1> QED
  BY <1>10, <1>15, <1>16, <1>17, <1>18, <1>19 DEF Next

\* Whatever the page and the kill switch do and when: during a pause a task sends no more
\* orders than it had under way when the pause began, and starts nothing new.
THEOREM PauseStops == Spec => []PauseStopsOrders
<1>1. Init => PauseInv
  BY IdleType DEF Init, PauseInv
<1>2. PauseInv => PauseStopsOrders
  BY DEF PauseInv, PauseStopsOrders
<1> QED
  BY <1>1, <1>2, TypeInit, AuditInit, TypeStep, AuditStep, PauseStep, PTL DEF Spec
-----------------------------------------------------------------------------
(* The end of a session.  The flatten leaves nothing but what the threads  *)
(* are handing over; from then on shares only go from the threads to the   *)
(* orders and from there to the position, or are given up.                 *)

ShareOf == [o \in Working |-> o.left]

LEMMA OpenIsSum ==
  ASSUME NEW os, os \subseteq Working, IsFiniteSet(os)
  PROVE  Open(os) = Sum(ShareOf, os)
<1> DEFINE w == ShareOf
           Rec(g) == [s \in SUBSET os |-> IF s = {} THEN 0
                      ELSE LET x == CHOOSE x \in s : TRUE IN x.left + g[s \ {x}]]
           h == CHOOSE g : g = Rec(g)
<1>1. Open(os) = h[os]
  BY DEF Open, MapThenSumSet, MapThenFoldSet
<1>2. PICK f : IsSum(f, w, os)
  BY SumExists
<1>3. \A s \in SUBSET os : s # {} => LET x == CHOOSE x \in s : TRUE IN w[x] = x.left
  BY DEF ShareOf
<1>4. f = Rec(f)
  BY <1>2, <1>3 DEF IsSum
<1>5. h = Rec(h)
  BY <1>4
<1>6. h = [s \in SUBSET os |-> IF s = {} THEN 0
             ELSE LET x == CHOOSE x \in s : TRUE IN w[x] + h[s \ {x}]]
  <2> HIDE DEF h, w
  <2> QED
    BY <1>3, <1>5
<1> HIDE DEF h, w, Rec
<1>7. h[os] = Sum(w, os)
  BY <1>6, SumOfFold
<1> QED
  BY <1>1, <1>7 DEF w

LEMMA OpenType ==
  ASSUME NEW os, os \subseteq Working, IsFiniteSet(os)
  PROVE  Open(os) \in Int
<1>1. \A x \in os : ShareOf[x] \in Int
  BY DEF ShareOf, Working
<1> QED
  BY <1>1, OpenIsSum, SumType

LEMMA OpenChanges ==
  ASSUME NEW os, os \subseteq Working, IsFiniteSet(os), NEW o \in Working
  PROVE  /\ Open(os) \in Int
         /\ o \in os => Open(os \ {o}) = Open(os) - o.left
         /\ o \notin os => Open(os \cup {o}) = Open(os) + o.left
         /\ Open(os \cup {o}) <= Open(os) + o.left
<1> DEFINE w == ShareOf
<1>1. (\A x \in Working : w[x] = x.left /\ w[x] \in Int) /\ o.left \in Nat
  BY DEF ShareOf, Working
<1>2. IsFiniteSet(os \ {o}) /\ IsFiniteSet(os \cup {o})
  BY FS_Subset, FS_AddElement
<1>3. /\ Open(os) = Sum(w, os) /\ Open(os \ {o}) = Sum(w, os \ {o})
      /\ Open(os \cup {o}) = Sum(w, os \cup {o})
  BY <1>2, OpenIsSum
<1>4. Sum(w, os) \in Int /\ Sum(w, os \ {o}) \in Int
  BY <1>1, <1>2, SumType
<1>5. o \in os => Sum(w, os) = o.left + Sum(w, os \ {o})
  <2> SUFFICES ASSUME o \in os PROVE Sum(w, os) = o.left + Sum(w, os \ {o})
    OBVIOUS
  <2>1. \A x \in os : w[x] \in Int
    BY <1>1
  <2> HIDE DEF w
  <2>2. Sum(w, os) = w[o] + Sum(w, os \ {o})
    BY <2>1, SumRemove
  <2> QED
    BY <1>1, <2>2
<1>6. o \notin os => Sum(w, os \cup {o}) = Sum(w, os) + o.left
  <2> SUFFICES ASSUME o \notin os PROVE Sum(w, os \cup {o}) = Sum(w, os) + o.left
    OBVIOUS
  <2>1. \A x \in os \cup {o} : w[x] \in Int
    BY <1>1
  <2> HIDE DEF w
  <2>2. Sum(w, os \cup {o}) = Sum(w, os) + w[o]
    BY <2>1, SumAdd
  <2> QED
    BY <1>1, <2>2
<1>7. o \in os => os \cup {o} = os
  OBVIOUS
<1> DEFINE a == Sum(w, os)
           b == Sum(w, os \ {o})
           c == Sum(w, os \cup {o})
<1>8. a \in Int /\ b \in Int /\ (o \in os => a = o.left + b /\ c = a) /\ (o \notin os => c = a + o.left)
  BY <1>4, <1>5, <1>6, <1>7
<1>9. o.left \in Nat
  BY <1>1
<1> HIDE DEF a, b, c
<1>10. /\ a \in Int /\ (o \in os => b = a - o.left) /\ (o \notin os => c = a + o.left)
       /\ c <= a + o.left
  <2>1. CASE o \in os
    BY <1>8, <1>9, <2>1
  <2>2. CASE o \notin os
    BY <1>8, <1>9, <2>2
  <2> QED
    BY <2>1, <2>2
<1> QED
  BY <1>3, <1>10 DEF a, b, c

LEMMA OpenNone == Open({}) = 0
<1>1. Open({}) = Sum(ShareOf, {}) /\ IsFiniteSet({})
  BY OpenIsSum, FS_EmptySet
<1> QED
  BY <1>1, SumEquations

LEMMA InThreadType ==
  ASSUME TaskType, NEW t \in Task
  PROVE  /\ InThread(task[t]) \in Nat
         /\ task[t].pc = "submit" => InThread(task[t]) = Head(task[t].posts).size
<1>1. task[t].pc = "submit" => Head(task[t].posts) \in Post_
  BY TaskFields
<1> QED
  BY <1>1 DEF InThread, Post_

\* After the session a thread's call is its last.
LEMMA ThreadsDone ==
  ASSUME TypeInv, ~Running, NEW t \in Task, (\E ok \in BOOLEAN : Accept(t, ok)) \/ Refuse(t)
  PROVE  /\ task[t].pc = "submit" /\ InThreads \in Nat
         /\ InThreads' = InThreads - Head(task[t].posts).size
<1>0. TaskType
  BY DEF TypeInv
<1>1. task[t].pc = "submit" /\ task' = [task EXCEPT ![t] = Idle]
  BY DEF Accept, Refuse, Answered
<1>2. InThread(Idle) = 0
  BY IdleType DEF InThread
<1>3. \A u \in Task : task'[u] = IF u = t THEN Idle ELSE task[u]
  BY <1>0, <1>1 DEF TaskType
<1>4. /\ InThread(task["quote"]) \in Nat /\ InThread(task["requote"]) \in Nat
      /\ InThread(task[t]) = Head(task[t].posts).size
  BY <1>0, <1>1, QuoteTask, InThreadType
<1>5. CASE t = "quote"
  <2>1. task'["quote"] = Idle /\ task'["requote"] = task["requote"]
    BY <1>3, <1>5, QuoteTask
  <2> QED
    BY <1>1, <1>2, <1>4, <1>5, <2>1 DEF InThreads
<1>6. CASE t = "requote"
  <2>1. task'["requote"] = Idle /\ task'["quote"] = task["quote"]
    BY <1>3, <1>6, QuoteTask
  <2> QED
    BY <1>1, <1>2, <1>4, <1>6, <2>1 DEF InThreads
<1> QED
  BY <1>5, <1>6 DEF Task

\* No step takes up more than one order.
LEMMA OrdersGrow ==
  ASSUME TypeInv, IsFiniteSet(orders), [Next]_vars
  PROVE  IsFiniteSet(orders')
<1>0. ASSUME orders' \subseteq orders PROVE IsFiniteSet(orders')
  BY <1>0, FS_Subset
<1>1. CASE Taker
  BY <1>0, <1>1 DEF Taker, OnQuote, ReadPosition, Submit, CancelOpposite, brokerVars
<1>2. CASE Maker
  BY <1>0, <1>2 DEF Maker, OnWideQuote, Requote, Post, Clear, OthersClear, brokerVars
<1>3. ASSUME NEW t \in Task, NEW ok \in BOOLEAN, Accept(t, ok) PROVE IsFiniteSet(orders')
  <2>1. PICK order \in Working : orders' = orders \cup {order}
    BY <1>3, AcceptOf
  <2> QED
    BY <2>1, FS_AddElement
<1>4. ASSUME NEW t \in Task, Refuse(t) \/ Ack(t) PROVE IsFiniteSet(orders')
  BY <1>4 DEF Refuse, Ack, brokerVars
<1>5. ASSUME NEW o \in orders, NEW n \in 1 .. o.left, Fill(o, n) PROVE IsFiniteSet(orders')
  <2>1. orders' \subseteq orders \cup {Left(o, n)}
    BY <1>5, FillOf
  <2>2. IsFiniteSet(orders \cup {Left(o, n)})
    BY FS_AddElement
  <2> QED
    BY <2>1, <2>2, FS_Subset
<1>6. ASSUME NEW o \in orders, Expire(o) PROVE IsFiniteSet(orders')
  BY <1>0, <1>6 DEF Expire
<1>7. CASE Updates
  BY <1>7 DEF Updates, OnTradeUpdate, OnOtherUpdate, LoseUpdates, LoseOthers, Reconcile,
              ReconcileAnswer, brokerVars
<1>8. CASE Page
  BY <1>0, <1>8 DEF Page, Writer, Command, End, LastFlatten, FlattenAll, Closed, brokerVars
<1>9. CASE UNCHANGED vars
  BY <1>9 DEF vars
<1>10. CASE Broker
  BY <1>3, <1>4, <1>5, <1>6, <1>10 DEF Broker
<1> QED
  BY <1>1, <1>2, <1>7, <1>8, <1>9, <1>10 DEF Next

FlatInv == IsFiniteSet(orders) /\ stray \in Int /\ EndsFlatButStrays

\* After the flatten the broker only gets and fills what the threads had.
LEMMA AfterFlat ==
  ASSUME session = "flat", [Next]_vars
  PROVE  \/ \E t \in Task : (\E b \in BOOLEAN : Accept(t, b)) \/ Refuse(t)
         \/ \E o \in orders : (\E n \in 1 .. o.left : Fill(o, n)) \/ Expire(o)
         \/ UNCHANGED vars
<1>1. ~Running /\ session \notin {"runs", "ending"}
  BY DEF Running
<1>2. ~Taker /\ ~Maker
  BY <1>1, Zenon DEF Taker, Maker, OnQuote, ReadPosition, Submit, CancelOpposite, OnWideQuote,
                     Requote, Post, Clear, OthersClear
<1>3. ~Updates
  BY <1>1, Zenon DEF Updates, OnTradeUpdate, OnOtherUpdate, LoseUpdates, LoseOthers, Reconcile,
                     ReconcileAnswer
<1>4. ~Page
  BY <1>1 DEF Page, Writer, Command, End, LastFlatten
<1>5. \A t \in Task : ~Ack(t)
  BY <1>1, Zenon DEF Ack
<1> QED
  BY <1>2, <1>3, <1>4, <1>5 DEF Next, Broker

LEMMA StraysOnly ==
  ASSUME TypeInv, FlatInv, session = "flat", [Next]_vars
  PROVE  EndsFlatButStrays' /\ stray' = stray
<1>0. /\ TaskType /\ position \in Int /\ orders \subseteq Working /\ stray \in Int
      /\ IsFiniteSet(orders) /\ ~Running
      /\ Away(position) + Open(orders) + InThreads <= stray
  BY DEF TypeInv, BrokerType, FlatInv, EndsFlatButStrays, Running
<1>1. Away(position) \in Int /\ InThreads \in Int
  BY <1>0, QuoteTask, InThreadType DEF Away, InThreads
<1>2. ASSUME NEW t \in Task, NEW ok \in BOOLEAN, Accept(t, ok)
      PROVE  EndsFlatButStrays' /\ stray' = stray
  <2>1. PICK order \in Working :
          orders' = orders \cup {order} /\ order.left = Head(task[t].posts).size
    BY <1>2, AcceptOf
  <2>2. InThreads' = InThreads - order.left /\ order.left \in Int
    BY <1>0, <1>2, <2>1, ThreadsDone DEF Working
  <2>3. Open(orders') <= Open(orders) + order.left /\ Open(orders) \in Int /\ Open(orders') \in Int
    <3>1. IsFiniteSet(orders \cup {order}) /\ orders \cup {order} \subseteq Working
      BY <1>0, FS_AddElement
    <3> QED
      BY <1>0, <2>1, <3>1, OpenChanges
  <2>4. UNCHANGED <<position, session, stray>>
    BY <1>2 DEF Accept, sessionVars
  <2> QED
    BY <1>0, <1>1, <2>2, <2>3, <2>4 DEF EndsFlatButStrays
<1>3. ASSUME NEW t \in Task, Refuse(t) PROVE EndsFlatButStrays' /\ stray' = stray
  <2>1. Head(task[t].posts).size \in Nat /\ InThreads' = InThreads - Head(task[t].posts).size
    <3>1. Head(task[t].posts) \in Post_
      BY <1>0, <1>3, TaskFields DEF Refuse
    <3> QED
      BY <1>0, <1>3, <3>1, ThreadsDone DEF Post_
  <2>2. UNCHANGED <<position, session, stray, orders>>
    BY <1>3 DEF Refuse, sessionVars, brokerVars
  <2>3. Open(orders) \in Int
    BY <1>0, OpenType
  <2> QED
    BY <1>0, <1>1, <2>1, <2>2, <2>3 DEF EndsFlatButStrays
<1>4. ASSUME NEW o \in orders, NEW n \in 1 .. o.left, Fill(o, n)
      PROVE  EndsFlatButStrays' /\ stray' = stray
  <2>1. /\ o \in Working /\ n \in Nat /\ o.left \in Nat
        /\ position' = position + Signed(o.action, n) /\ Signed(o.action, n) \in {n, -n}
        /\ position' \in Int
        /\ orders' = (orders \ {o}) \cup (IF n = o.left THEN {} ELSE {Left(o, n)})
        /\ n # o.left => Left(o, n) \in Working /\ Left(o, n).left = o.left - n
    BY <1>4, FillOf
  <2>2. Away(position') <= Away(position) + n /\ Away(position') \in Int
    BY <1>0, <2>1 DEF Away
  <2>3. Open(orders \ {o}) = Open(orders) - o.left /\ Open(orders) \in Int
    BY <1>0, <2>1, OpenChanges
  <2>4. Open(orders') <= Open(orders) - n /\ Open(orders') \in Int
    <3> DEFINE rest == orders \ {o}
    <3>1. rest \subseteq Working /\ IsFiniteSet(rest)
      BY <1>0, FS_Subset
    <3>2. CASE n = o.left
      BY <2>1, <2>3, <3>2
    <3>3. CASE n # o.left
      <4>1. orders' = rest \cup {Left(o, n)} /\ Left(o, n) \in Working
        BY <2>1, <3>3
      <4>2. IsFiniteSet(orders') /\ orders' \subseteq Working
        BY <3>1, <4>1, FS_AddElement
      <4>3. Open(orders') \in Int
        BY <4>2, OpenType
      <4>4. Open(orders') <= Open(rest) + Left(o, n).left
        BY <3>1, <4>1, OpenChanges
      <4> QED
        BY <2>1, <2>3, <3>3, <4>3, <4>4
    <3> QED
      BY <3>2, <3>3
  <2>5. UNCHANGED <<task, session, stray>>
    BY <1>4 DEF Fill, sessionVars
  <2>6. InThreads' = InThreads
    BY <2>5 DEF InThreads
  <2> QED
    BY <1>0, <1>1, <2>1, <2>2, <2>3, <2>4, <2>5, <2>6 DEF EndsFlatButStrays
<1>5. ASSUME NEW o \in orders, Expire(o) PROVE EndsFlatButStrays' /\ stray' = stray
  <2>1. orders' = orders \ {o} /\ UNCHANGED <<position, task, session, stray>> /\ o \in Working
    BY <1>0, <1>5 DEF Expire, sessionVars
  <2>2. Open(orders') = Open(orders) - o.left /\ Open(orders) \in Int /\ o.left \in Nat
    BY <1>0, <2>1, OpenChanges DEF Working
  <2>3. InThreads' = InThreads
    BY <2>1 DEF InThreads
  <2> QED
    BY <1>0, <1>1, <2>1, <2>2, <2>3 DEF EndsFlatButStrays
<1>6. CASE UNCHANGED vars
  BY <1>6 DEF vars, EndsFlatButStrays, InThreads, FlatInv
<1> QED
  BY <1>2, <1>3, <1>4, <1>5, <1>6, AfterFlat

\* Only the last flatten ends a session flat.
LEMMA FlatBegins ==
  ASSUME TypeInv, session # "flat", session' = "flat", [Next]_vars
  PROVE  EndsFlatButStrays' /\ stray' \in Int
<1>1. PICK ok \in BOOLEAN : LastFlatten(ok)
  <2>1. ~Taker
    BY Zenon DEF Taker, OnQuote, ReadPosition, Submit, CancelOpposite, sessionVars
  <2>2. ~Maker
    BY Zenon DEF Maker, OnWideQuote, Requote, Post, Clear, OthersClear, sessionVars
  <2>3. ~Updates
    BY DEF Updates, OnTradeUpdate, OnOtherUpdate, LoseUpdates, LoseOthers, Reconcile,
           ReconcileAnswer, sessionVars
  <2>4. ~Broker
    BY Zenon DEF Broker, Accept, Refuse, Ack, Fill, Expire, sessionVars
  <2>5. CASE Page
    BY <2>5, Zenon DEF Page, Writer, Command, End, sessionVars
  <2> QED
    BY <2>1, <2>2, <2>3, <2>4, <2>5 DEF Next, vars
<1>2. ok /\ Closed({}) /\ UNCHANGED task /\ stray' = InThreads
  BY <1>1 DEF LastFlatten, FlattenAll
<1>3. position' = 0 /\ orders' = {} /\ InThreads' = InThreads
  BY <1>2 DEF Closed, InThreads
<1>4. InThreads \in Int
  BY QuoteTask, InThreadType DEF InThreads, TypeInv
<1> QED
  BY <1>2, <1>3, <1>4, OpenNone DEF EndsFlatButStrays, Away

LEMMA FlatStep ==
  ASSUME TypeInv, FlatInv, [Next]_vars
  PROVE  FlatInv'
<1>1. IsFiniteSet(orders')
  BY OrdersGrow DEF FlatInv
<1>2. CASE session = "flat"
  BY <1>1, <1>2, StraysOnly DEF FlatInv
<1>3. CASE session # "flat" /\ session' = "flat"
  BY <1>1, <1>3, FlatBegins DEF FlatInv
<1>4. CASE session' # "flat"
  <2>1. stray' \in Int
    <3>1. stray' = stray \/ stray' = InThreads
      <4>1. CASE Taker
        BY <4>1, Zenon DEF Taker, OnQuote, ReadPosition, Submit, CancelOpposite, sessionVars
      <4>2. CASE Maker
        BY <4>2, Zenon DEF Maker, OnWideQuote, Requote, Post, Clear, OthersClear, sessionVars
      <4>3. CASE Updates
        BY <4>3 DEF Updates, OnTradeUpdate, OnOtherUpdate, LoseUpdates, LoseOthers, Reconcile,
                    ReconcileAnswer, sessionVars
      <4>4. CASE Broker
        BY <4>4, Zenon DEF Broker, Accept, Refuse, Ack, Fill, Expire, sessionVars
      <4>5. CASE Page
        BY <4>5, Zenon DEF Page, Writer, Command, End, LastFlatten, sessionVars
      <4> QED
        BY <4>1, <4>2, <4>3, <4>4, <4>5 DEF Next, vars
    <3>2. InThreads \in Int
      BY QuoteTask, InThreadType DEF InThreads, TypeInv
    <3> QED
      BY <3>1, <3>2 DEF FlatInv
  <2> QED
    BY <1>1, <1>4, <2>1 DEF FlatInv, EndsFlatButStrays
<1> QED
  BY <1>2, <1>3, <1>4

\* Whatever came before, and also when orders reach the broker after the last flatten: what
\* the session holds, has working and is still handing over is never more than what its
\* threads were handing over at that flatten; if they were handing over nothing, it is flat.
THEOREM OnlyStraysLeft == Spec => []EndsFlatButStrays
<1>1. Init => FlatInv
  BY FS_EmptySet DEF Init, FlatInv, EndsFlatButStrays
<1>2. FlatInv => EndsFlatButStrays
  BY DEF FlatInv
<1> QED
  BY <1>1, <1>2, TypeInit, AuditInit, TypeStep, AuditStep, FlatStep, PTL DEF Spec
-----------------------------------------------------------------------------
(* What the books are off.  While an answer is on its way, the position    *)
(* has moved since it was asked for by the updates still to come and by    *)
(* those it has met, less those that were on their way before.             *)

BooksInv ==
  Running =>
    /\ booked + Undelivered = position + off
    /\ \A f \in Feed :
         snapshot[f] # NoAnswer => position - snapshot[f] = Undelivered + Met(crossing[f])

LEMMA BookedQuiet ==
  ASSUME BooksInv, UNCHANGED <<booked, events, position, session, off, snapshot, crossing>>
  PROVE  BooksInv'
BY DEF BooksInv, Undelivered, Running, Met

\* The numbers of the books; of an answer on its way and of what it has met.
LEMMA BookedNumbers ==
  ASSUME TypeInv, AuditType
  PROVE  /\ booked \in Int /\ position \in Int /\ off \in Int /\ Undelivered \in Int
         /\ events \in Seq(Update)
<1>1. events \in Seq(Update)
  BY DEF TypeInv, BrokerType
<1>2. Undelivered \in Int
  BY <1>1, TotalInt DEF Undelivered
<1> QED
  BY <1>1, <1>2 DEF TypeInv, BrokerType, FeedType, AuditType

LEMMA AnswerNumbers ==
  ASSUME AuditType, NEW f \in Feed, snapshot[f] # NoAnswer
  PROVE  Met(crossing[f]) \in Int /\ snapshot[f] \in Int
<1>1. crossing[f] \in Crossing /\ snapshot[f] \in Int
  BY DEF AuditType
<1> QED
  BY <1>1 DEF Met, Crossing

\* An update that is sent while the session runs carries what the position changes by.
LEMMA BookedSent ==
  ASSUME TypeInv, AuditType, BooksInv, Running, NEW e \in Update, NEW d \in Int,
         d = Signed(e.action, e.qty), events' = Sent(e), position' = position + d,
         UNCHANGED <<booked, session, off, snapshot, crossing>>
  PROVE  BooksInv'
<1>1. events' = Append(events, e)
  BY DEF Sent
<1>2. Undelivered' = Undelivered + d
  BY <1>1, BookedNumbers, TotalAppend DEF Undelivered
<1>3. booked' + Undelivered' = position' + off'
  BY <1>2, BookedNumbers DEF BooksInv
<1>4. ASSUME NEW f \in Feed, snapshot[f] # NoAnswer
      PROVE  position' - snapshot[f] = Undelivered' + Met(crossing[f])
  <2>1. position - snapshot[f] = Undelivered + Met(crossing[f])
    BY <1>4 DEF BooksInv
  <2>2. Met(crossing[f]) \in Int /\ snapshot[f] \in Int
    BY <1>4, AnswerNumbers
  <2> DEFINE h == snapshot[f]
             m == Met(crossing[f])
  <2>3. h \in Int /\ m \in Int /\ position - h = Undelivered + m
    BY <2>1, <2>2
  <2> HIDE DEF h, m
  <2>4. position \in Int /\ Undelivered \in Int
    BY BookedNumbers
  <2>5. position' - h = position - h + d
    BY <2>3, <2>4
  <2>6. position' - h = Undelivered' + m
    BY <1>2, <2>3, <2>4, <2>5
  <2> QED
    BY <2>6 DEF h, m
<1> QED
  BY <1>3, <1>4 DEF BooksInv, Met

\* A close sells or buys the position whole.
LEMMA BookedClosed ==
  ASSUME TypeInv, AuditType, BooksInv, NEW keep, keep \subseteq orders, Closed(keep),
         UNCHANGED <<booked, session, off, snapshot, crossing>>
  PROVE  BooksInv'
<1>1. BrokerType /\ position \in Int
  BY DEF TypeInv, BrokerType
<1>2. CASE ~Running
  BY <1>2 DEF BooksInv, Running
<1>3. CASE position = 0
  BY <1>1, <1>3, ClosedType, BookedQuiet
<1>4. CASE Running /\ position # 0
  <2>1. Close \in Update /\ events' = Sent(Close) /\ position' = 0
    BY <1>1, <1>4, ClosedType
  <2>2. Signed(Close.action, Close.qty) = -position
    BY <1>1, <1>4 DEF Close, Signed, Away
  <2>3. -position \in Int /\ position' = position + (-position)
    BY <1>1, <2>1
  <2> DEFINE d == -position
  <2>4. d \in Int /\ d = Signed(Close.action, Close.qty) /\ position' = position + d
    BY <2>2, <2>3
  <2> HIDE DEF d
  <2> QED
    BY <1>4, <2>1, <2>4, BookedSent
<1> QED
  BY <1>2, <1>3, <1>4

\* An update is booked, and every answer on its way has met it.
LEMMA BookedUpdate ==
  ASSUME TypeInv, AuditType, BooksInv, NEW trips \in BOOLEAN, OnTradeUpdate(trips)
  PROVE  BooksInv'
<1> DEFINE e == Head(events)
           d == Signed(e.action, e.qty)
<1>1. events # <<>> /\ events' = Tail(events) /\ UNCHANGED <<position, session, off, snapshot>>
  BY DEF OnTradeUpdate, sessionVars
<1>2. e \in Update
  BY <1>1, BookedNumbers, HeadTailProperties
<1>3. e.qty \in Nat \ {0} /\ d \in Int
  BY <1>2, SignedInt DEF Update
<1>4. booked' = booked + d /\ crossing' = Crossed(d)
  BY <1>3 DEF OnTradeUpdate, Bookable
<1>5. Undelivered' \in Int /\ Undelivered = d + Undelivered'
  BY <1>1, BookedNumbers, TotalTail DEF Undelivered
<1> HIDE DEF d
<1>6. SUFFICES ASSUME Running PROVE BooksInv'
  BY <1>1 DEF BooksInv, Running
<1>7. booked' + Undelivered' = position' + off'
  BY <1>1, <1>3, <1>4, <1>5, <1>6, BookedNumbers DEF BooksInv
<1>8. ASSUME NEW f \in Feed, snapshot[f] # NoAnswer
      PROVE  position' - snapshot'[f] = Undelivered' + Met(crossing'[f])
  <2>1. Met(crossing'[f]) = Met(crossing[f]) + d
    BY <1>3, <1>4, <1>8, CrossedFacts
  <2>2. position - snapshot[f] = Undelivered + Met(crossing[f])
    BY <1>6, <1>8 DEF BooksInv
  <2>3. Met(crossing[f]) \in Int /\ snapshot[f] \in Int
    BY <1>8, AnswerNumbers
  <2> QED
    BY <1>1, <1>3, <1>5, <2>1, <2>2, <2>3, BookedNumbers
<1> QED
  BY <1>1, <1>7, <1>8 DEF BooksInv, Met

LEMMA BookedLost ==
  ASSUME TypeInv, AuditType, BooksInv, LoseUpdates
  PROVE  BooksInv'
<1>1. UNCHANGED <<position, session, booked, snapshot>> /\ Running
  BY DEF LoseUpdates, sessionVars
<1>2. /\ off' = off - Undelivered /\ Undelivered' = 0
      /\ \A f \in Feed : snapshot[f] # NoAnswer => Met(crossing'[f]) = Met(crossing[f]) + Undelivered
  BY BookedNumbers, LostFacts
<1>3. booked' + Undelivered' = position' + off'
  BY <1>1, <1>2, BookedNumbers DEF BooksInv
<1>4. ASSUME NEW f \in Feed, snapshot[f] # NoAnswer
      PROVE  position' - snapshot'[f] = Undelivered' + Met(crossing'[f])
  <2>1. position - snapshot[f] = Undelivered + Met(crossing[f])
    BY <1>1, <1>4 DEF BooksInv
  <2>2. Met(crossing[f]) \in Int /\ snapshot[f] \in Int
    BY <1>4, AnswerNumbers
  <2> QED
    BY <1>1, <1>2, <1>4, <2>1, <2>2, BookedNumbers
<1> QED
  BY <1>1, <1>3, <1>4 DEF BooksInv, Met

LEMMA BookedAsked ==
  ASSUME TypeInv, AuditType, BooksInv, NEW f \in Feed, Reconcile(f)
  PROVE  BooksInv'
<1> DEFINE c == [old |-> Len(events), before |-> Undelivered, later |-> 0]
<1>1. /\ UNCHANGED <<position, events, session, booked, off>> /\ Running
      /\ snapshot' = [snapshot EXCEPT ![f] = position] /\ crossing' = [crossing EXCEPT ![f] = c]
  BY DEF Reconcile, brokerVars, sessionVars
<1>2. Undelivered' = Undelivered
  BY <1>1 DEF Undelivered
<1>3. Met(c) = 0 - Undelivered
  BY BookedNumbers DEF Met
<1> HIDE DEF c
<1>4. \A g \in Feed : /\ snapshot'[g] = IF g = f THEN position ELSE snapshot[g]
                      /\ crossing'[g] = IF g = f THEN c ELSE crossing[g]
  BY <1>1 DEF AuditType
<1>5. ASSUME NEW g \in Feed, snapshot'[g] # NoAnswer
      PROVE  position' - snapshot'[g] = Undelivered' + Met(crossing'[g])
  <2>1. CASE g = f
    BY <1>1, <1>2, <1>3, <1>4, <2>1, BookedNumbers
  <2>2. CASE g # f
    BY <1>1, <1>2, <1>4, <1>5, <2>2 DEF BooksInv
  <2> QED
    BY <2>1, <2>2
<1> QED
  BY <1>1, <1>2, <1>5 DEF BooksInv, Met

LEMMA BookedAnswered ==
  ASSUME TypeInv, AuditType, BooksInv, NEW f \in Feed, ReconcileAnswer(f)
  PROVE  BooksInv'
<1>1. /\ UNCHANGED <<position, events, session>> /\ Running /\ snapshot[f] # NoAnswer
      /\ snapshot' = [snapshot EXCEPT ![f] = NoAnswer]
      /\ crossing' = [crossing EXCEPT ![f] = NotCrossed]
      /\ booked' = snapshot[f] /\ off' = crossing[f].before - crossing[f].later
  BY DEF ReconcileAnswer, Reconciled, brokerVars, sessionVars
<1>2. Undelivered' = Undelivered
  BY <1>1 DEF Undelivered
<1>3. off' = 0 - Met(crossing[f])
  <2>1. crossing[f] \in Crossing
    BY DEF AuditType
  <2> QED
    BY <1>1, <2>1 DEF Met, Crossing
<1>4. position - snapshot[f] = Undelivered + Met(crossing[f])
  BY <1>1 DEF BooksInv
<1>5. booked' + Undelivered' = position' + off'
  <2>1. Met(crossing[f]) \in Int /\ snapshot[f] \in Int
    BY <1>1, AnswerNumbers
  <2> DEFINE h == snapshot[f]
             m == Met(crossing[f])
  <2>2. h \in Int /\ m \in Int /\ position - h = Undelivered + m /\ off' = 0 - m /\ booked' = h
    BY <1>1, <1>3, <1>4, <2>1
  <2> HIDE DEF h, m
  <2>3. position \in Int /\ Undelivered \in Int
    BY BookedNumbers
  <2>4. h + Undelivered = position - m
    BY <2>2, <2>3
  <2> QED
    BY <1>1, <1>2, <2>2, <2>3, <2>4
<1>6. \A g \in Feed : /\ snapshot'[g] = IF g = f THEN NoAnswer ELSE snapshot[g]
                      /\ g # f => crossing'[g] = crossing[g]
  BY <1>1 DEF AuditType
<1>7. ASSUME NEW g \in Feed, snapshot'[g] # NoAnswer
      PROVE  position' - snapshot'[g] = Undelivered' + Met(crossing'[g])
  BY <1>1, <1>2, <1>6, <1>7 DEF BooksInv
<1> QED
  BY <1>5, <1>7 DEF BooksInv, Met

LEMMA BookedStep ==
  ASSUME TypeInv, AuditType, BooksInv, [Next]_vars
  PROVE  BooksInv'
<1>0. /\ TaskType /\ BrokerType /\ FeedType
      /\ booked \in Int /\ position \in Int /\ off \in Int
  BY DEF TypeInv, BrokerType, FeedType, AuditType
<1>1. CASE Taker
  BY <1>1, BookedQuiet, Zenon DEF Taker, OnQuote, ReadPosition, Submit, CancelOpposite, brokerVars,
                                 sessionVars, audit
<1>2. CASE Maker
  BY <1>2, BookedQuiet, Zenon DEF Maker, OnWideQuote, Requote, Post, Clear, OthersClear, brokerVars,
                                 sessionVars, audit
<1>3. ASSUME NEW t \in Task, (\E ok \in BOOLEAN : Accept(t, ok)) \/ Refuse(t) \/ Ack(t)
      PROVE  BooksInv'
  BY <1>3, BookedQuiet DEF Accept, Refuse, Ack, brokerVars, sessionVars, audit
<1>4. ASSUME NEW o \in orders, NEW n \in 1 .. o.left, Fill(o, n) PROVE BooksInv'
  <2>1. CASE Running
    <3> DEFINE e == Filled(o, n)
               d == Signed(o.action, n)
    <3>1. /\ e \in Update /\ d \in Int /\ events' = Sent(e) /\ position' = position + d
      BY <1>4, FillOf
    <3>2. d = Signed(e.action, e.qty)
      BY DEF Filled
    <3>3. UNCHANGED <<booked, session, off, snapshot, crossing>>
      BY <1>4 DEF Fill, sessionVars, audit
    <3> HIDE DEF d, e
    <3> QED
      BY <2>1, <3>1, <3>2, <3>3, BookedSent
  <2>2. CASE ~Running
    BY <1>4, <2>2 DEF Fill, BooksInv, Running, sessionVars
  <2> QED
    BY <2>1, <2>2
<1>5. ASSUME NEW o \in orders, Expire(o) PROVE BooksInv'
  BY <1>5, BookedQuiet DEF Expire, sessionVars, audit
<1>6. ASSUME NEW trips \in BOOLEAN, OnOtherUpdate(trips) PROVE BooksInv'
  <2>1. Head(echo) \in Int
    BY <1>6, HeadTailProperties DEF OnOtherUpdate, AuditType
  <2>2. /\ UNCHANGED <<position, events, session, snapshot, crossing>>
        /\ booked' = booked + Head(echo) /\ off' = off + Head(echo)
    BY <1>6 DEF OnOtherUpdate, sessionVars
  <2>3. Undelivered' = Undelivered /\ Undelivered \in Int
    BY <2>2, BookedNumbers DEF Undelivered
  <2> QED
    BY <1>0, <2>1, <2>2, <2>3 DEF BooksInv, Running, Met
<1>7. CASE LoseOthers
  BY <1>7, BookedQuiet DEF LoseOthers, sessionVars, audit
<1>8. ASSUME NEW hit \in BOOLEAN, NEW ok \in BOOLEAN, Writer(hit, ok) PROVE BooksInv'
  <2>1. UNCHANGED <<booked, session, off, snapshot, crossing>>
    BY <1>8 DEF Writer, sessionVars, audit
  <2>2. UNCHANGED <<position, orders, events, echo>> \/ \E keep \in {{}, orders} : Closed(keep)
    BY <1>8 DEF Writer, FlattenAll
  <2>3. CASE UNCHANGED <<position, orders, events, echo>>
    BY <2>1, <2>3, BookedQuiet
  <2>4. CASE \E keep \in {{}, orders} : Closed(keep)
    BY <2>1, <2>4, BookedClosed
  <2> QED
    BY <2>2, <2>3, <2>4
<1>9. ASSUME NEW cmd, Command(cmd) PROVE BooksInv'
  BY <1>9, BookedQuiet DEF Command, brokerVars, sessionVars, audit
<1>10. CASE End \/ \E ok \in BOOLEAN : LastFlatten(ok)
  <2>1. session' # "runs"
    BY <1>10 DEF End, LastFlatten
  <2> QED
    BY <2>1 DEF BooksInv, Running
<1>11. CASE UNCHANGED vars
  BY <1>11, BookedQuiet DEF vars
<1>12. CASE Broker
  BY <1>3, <1>4, <1>5, <1>12 DEF Broker
<1>13. CASE Updates
  BY <1>6, <1>7, <1>13, BookedUpdate, BookedLost, BookedAsked, BookedAnswered
     DEF Updates, Feeds, Feed
<1>14. CASE Page
  BY <1>8, <1>9, <1>10, <1>14 DEF Page
<1> QED
  BY <1>1, <1>2, <1>11, <1>12, <1>13, <1>14 DEF Next

\* However a fill is split, whenever its update comes, whatever is lost or closed in between
\* and however the reconciles of two feeds cross fills and each other: what the books are
\* off is exactly what lost updates, crossed reconciles and the fills of another feed make.
THEOREM BooksAddUp == Spec => []BooksAccounted
<1>1. Init => BooksInv
  <2> SUFFICES ASSUME Init PROVE BooksInv
    OBVIOUS
  <2>1. /\ events = <<>> /\ position = 1 /\ booked \in {0, position} /\ off = booked - position
        /\ snapshot = [f \in Feed |-> NoAnswer]
    BY DEF Init
  <2>2. Undelivered = 0
    BY <2>1, TotalNone DEF Undelivered
  <2> QED
    BY <2>1, <2>2 DEF BooksInv
<1>2. BooksInv => BooksAccounted
  BY DEF BooksInv, BooksAccounted
<1> QED
  BY <1>1, <1>2, TypeInit, AuditInit, TypeStep, AuditStep, BookedStep, PTL DEF Spec
-----------------------------------------------------------------------------
(* The cap of a taker.  Its order is within reach of the position: neither *)
(* it nor the position with all of it goes beyond the cap.  It is alone:   *)
(* no other order works from the read of the position to the answer, and   *)
(* a close in between can only bring the position to zero.                 *)

Reach(pos, action, n) ==
  n <= MAX_POSITION /\ Away(pos) <= MAX_POSITION /\ Away(pos + Signed(action, n)) <= MAX_POSITION

Quote == task["quote"]
Outgoing == {"cancel", "submit"}
Sole == Outgoing \cup {"synced"}

TakerInv ==
  mode # "maker" =>
    /\ task["requote"].pc = "idle" /\ Quote.pc # "clear"
    /\ Quote.pc \in Outgoing \cup {"ack"} => Len(Quote.posts) = 1

CapInv ==
  mode # "maker" /\ ~blind =>
    /\ Away(position) <= MAX_POSITION
    /\ Quote.pc \in Sole => orders = {}
    /\ Quote.pc = "synced" =>
         Quote.inv = position \/ (position = 0 /\ Away(Quote.inv) <= MAX_POSITION)
    /\ Quote.pc \in Outgoing =>
         Reach(position, Head(Quote.posts).action, Head(Quote.posts).size)
    /\ \A o \in orders : (\A p \in orders : p = o) /\ Reach(position, o.action, o.left)

LEMMA ReachRoom ==
  ASSUME NEW pos \in Int, NEW inv \in Int, NEW action \in Action, NEW n \in Nat \ {0},
         Away(pos) <= MAX_POSITION, n <= room(action, inv),
         inv = pos \/ (pos = 0 /\ Away(inv) <= MAX_POSITION)
  PROVE  Reach(pos, action, n)
<1>1. MAX_POSITION \in Nat
  BY CapAssumption
<1>2. CASE action = "buy"
  BY <1>1, <1>2 DEF Reach, room, Away, Signed
<1>3. CASE action = "sell"
  BY <1>1, <1>3 DEF Reach, room, Away, Signed
<1> QED
  BY <1>2, <1>3 DEF Action

LEMMA ReachFill ==
  ASSUME NEW pos \in Int, NEW action \in Action, NEW n \in Nat, NEW k \in 1 .. n,
         Reach(pos, action, n)
  PROVE  /\ Away(pos + Signed(action, k)) <= MAX_POSITION
         /\ Reach(pos + Signed(action, k), action, n - k)
<1>1. MAX_POSITION \in Nat
  BY CapAssumption
<1>2. CASE action = "buy"
  BY <1>1, <1>2 DEF Reach, Away, Signed
<1>3. CASE action = "sell"
  BY <1>1, <1>3 DEF Reach, Away, Signed
<1> QED
  BY <1>2, <1>3 DEF Action

LEMMA ReachFlat ==
  ASSUME NEW action \in Action, NEW n \in Nat, n <= MAX_POSITION
  PROVE  Reach(0, action, n) /\ Away(0) <= MAX_POSITION
BY CapAssumption DEF Reach, Away, Signed, Action

\* Nothing but the quote task goes on, and not to where it would have to be alone.
LEMMA CapQuiet ==
  ASSUME CapInv, UNCHANGED <<position, mode>>, orders' \subseteq orders, blind => blind',
         Quote' = Quote \/ Quote'.pc \notin Sole
  PROVE  CapInv'
<1> SUFFICES ASSUME mode # "maker", ~blind, ~blind' PROVE CapInv'
  BY DEF CapInv
<1>1. CASE Quote' = Quote
  BY <1>1 DEF CapInv
<1>2. CASE Quote'.pc \notin Sole
  BY <1>2 DEF CapInv, Sole
<1> QED
  BY <1>1, <1>2

LEMMA CapClosed ==
  ASSUME TypeInv, CapInv, UNCHANGED <<mode, task>>, blind => blind',
         NEW keep, keep \subseteq orders, Closed(keep)
  PROVE  CapInv'
<1> SUFFICES ASSUME mode # "maker", ~blind PROVE CapInv'
  BY DEF CapInv
<1>0. TaskType /\ BrokerType
  BY DEF TypeInv
<1>1. position' = 0 /\ orders' \subseteq orders /\ Quote' = Quote
  BY <1>0, ClosedType DEF Quote
<1>2. \A o \in orders' : (\A p \in orders' : p = o) /\ Reach(position', o.action, o.left)
  <2>1. ASSUME NEW o \in orders PROVE Reach(0, o.action, o.left)
    <3>1. o.action \in Action /\ o.left \in Nat
      BY <1>0 DEF BrokerType, Working
    <3>2. o.left <= MAX_POSITION
      BY DEF CapInv, Reach
    <3> QED
      BY <3>1, <3>2, ReachFlat
  <2> QED
    BY <1>1, <2>1 DEF CapInv
<1>3. Quote.pc \in Outgoing => Reach(position', Head(Quote.posts).action, Head(Quote.posts).size)
  <2> SUFFICES ASSUME Quote.pc \in Outgoing
               PROVE  Reach(0, Head(Quote.posts).action, Head(Quote.posts).size)
    BY <1>1
  <2>1. Head(Quote.posts) \in Post_
    BY <1>0, QuoteTask, TaskFields DEF Quote, Outgoing
  <2>2. Head(Quote.posts).action \in Action /\ Head(Quote.posts).size \in Nat
    BY <2>1 DEF Post_
  <2>3. Head(Quote.posts).size <= MAX_POSITION
    BY DEF CapInv, Reach
  <2> QED
    BY <2>2, <2>3, ReachFlat
<1>4. Quote.pc = "synced" => Away(Quote.inv) <= MAX_POSITION
  <2> SUFFICES ASSUME Quote.pc = "synced" PROVE Away(Quote.inv) <= MAX_POSITION
    OBVIOUS
  <2> QED
    BY DEF CapInv
<1>5. Away(position') <= MAX_POSITION
  BY <1>1, CapAssumption DEF Away
<1>6. Quote'.pc \in Sole => orders' = {}
  BY <1>1 DEF CapInv
<1> QED
  BY <1>1, <1>2, <1>3, <1>4, <1>5, <1>6 DEF CapInv

LEMMA TakerQuiet ==
  ASSUME TakerInv, UNCHANGED mode,
         task'["requote"] = task["requote"] \/ task'["requote"].pc = "idle",
         Quote' = Quote \/ Quote'.pc \in {"idle", "sync", "synced"}
                        \/ (Quote'.pc # "clear" /\ Len(Quote'.posts) = 1)
  PROVE  TakerInv'
BY DEF TakerInv, Outgoing

\* The quote task goes on.
LEMMA QuoteGoesOn ==
  ASSUME NEW q, Becomes("quote", q)
  PROVE  Quote' = q /\ task'["requote"] = task["requote"]
BY QuoteTask DEF Becomes, Quote, Task

\* The clamp, against a position that is still the one that was read, or flat.
LEMMA CapSubmit ==
  ASSUME TypeInv, TakerInv, CapInv, mode # "maker", NEW ok \in BOOLEAN, Submit(ok)
  PROVE  TakerInv' /\ CapInv'
<1> DEFINE dec == Head(Quote.posts)
           n == Lesser(dec.size, room(dec.action, Quote.inv))
<1>0. Quote.pc = "synced" /\ UNCHANGED <<mode, position, orders, blind>>
  BY DEF Submit, brokerVars, Quote
<1>1. dec \in Post_ /\ room(dec.action, Quote.inv) \in Int
  BY SubmitTask DEF Quote
<1>2. PICK q \in TaskRec :
        /\ Becomes("quote", q)
        /\ \/ q.pc = "idle"
           \/ /\ q.pc \in Outgoing /\ n \in Nat \ {0} /\ q.posts = <<Order(dec.action, n)>>
    BY SubmitTask DEF Quote, Outgoing
<1>3. Quote' = q /\ task'["requote"] = task["requote"]
  BY <1>2, QuoteGoesOn
<1>4. CASE q.pc = "idle"
  BY <1>0, <1>3, <1>4, CapQuiet, TakerQuiet DEF Sole, Outgoing
<1>5. CASE q.pc # "idle"
  <2>1. q.pc \in Outgoing /\ n \in Nat \ {0} /\ q.posts = <<Order(dec.action, n)>>
    BY <1>2, <1>5
  <2>2. Len(q.posts) = 1 /\ Head(q.posts).action = dec.action /\ Head(q.posts).size = n
    BY <2>1 DEF Order
  <2>3. TakerInv'
    BY <1>0, <1>3, <2>1, <2>2, TakerQuiet DEF Outgoing
  <2>4. dec.action \in Action /\ dec.size \in Nat \ {0} /\ n <= room(dec.action, Quote.inv)
    <3>1. dec.action \in Action /\ dec.size \in Nat \ {0}
      BY <1>1 DEF Post_
    <3> HIDE DEF dec
    <3> QED
      BY <1>1, <3>1 DEF Lesser
  <2>5. Quote.inv \in Int /\ position \in Int
    BY QuoteTask, TaskFields DEF TypeInv, BrokerType, Quote
  <2>6. CASE blind
    BY <1>0, <2>3, <2>6 DEF CapInv
  <2>7. CASE ~blind
    <3>1. /\ Away(position) <= MAX_POSITION /\ orders = {}
          /\ Quote.inv = position \/ (position = 0 /\ Away(Quote.inv) <= MAX_POSITION)
      BY <1>0, <2>7 DEF CapInv, Sole
    <3>2. Reach(position, dec.action, n)
      <4> HIDE DEF n, dec
      <4> QED
        BY <2>1, <2>4, <2>5, <3>1, ReachRoom
    <3> HIDE DEF n, dec
    <3> QED
      BY <1>0, <1>3, <2>1, <2>2, <2>3, <3>1, <3>2 DEF CapInv, Outgoing, Sole
  <2> QED
    BY <2>3, <2>6, <2>7
<1> QED
  BY <1>4, <1>5

LEMMA CapAccept ==
  ASSUME TypeInv, TakerInv, CapInv, mode # "maker", NEW ok \in BOOLEAN, Accept("quote", ok)
  PROVE  CapInv'
<1>0. Quote.pc = "submit" /\ UNCHANGED <<mode, position, blind>>
  BY DEF Accept, Quote
<1>1. PICK q \in TaskRec : Becomes("quote", q) /\ q.pc \in {"idle", "ack"}
  BY QuoteTask, AcceptTask
<1>2. Quote' = q
  BY <1>1, QuoteGoesOn
<1>3. PICK order \in Working :
        /\ orders' = orders \cup {order}
        /\ order.action = Head(Quote.posts).action /\ order.left = Head(Quote.posts).size
  BY QuoteTask, AcceptOf DEF Quote
<1>4. CASE blind
  BY <1>0, <1>4 DEF CapInv
<1>5. CASE ~blind
  <2>1. /\ Away(position) <= MAX_POSITION /\ orders = {}
        /\ Reach(position, order.action, order.left)
    BY <1>0, <1>3, <1>5 DEF CapInv, Outgoing, Sole
  <2>2. orders' = {order}
    BY <1>3, <2>1
  <2> QED
    BY <1>0, <1>1, <1>2, <2>1, <2>2 DEF CapInv, Outgoing, Sole
<1> QED
  BY <1>4, <1>5

LEMMA CapFill ==
  ASSUME TypeInv, CapInv, mode # "maker", NEW o \in orders, NEW n \in 1 .. o.left, Fill(o, n)
  PROVE  CapInv'
<1>0. UNCHANGED <<mode, blind, task>> /\ Quote' = Quote
  BY DEF Fill, Quote
<1>1. CASE blind
  BY <1>0, <1>1 DEF CapInv
<1>2. CASE ~blind
  <2>1. /\ (\A p \in orders : p = o) /\ Reach(position, o.action, o.left)
        /\ Quote.pc \notin Sole
    BY <1>2 DEF CapInv
  <2>2. o.action \in Action /\ o.left \in Nat /\ position \in Int
    BY FillOf DEF Working, TypeInv, BrokerType
  <2>3. position' = position + Signed(o.action, n)
    BY FillOf
  <2>4. Away(position') <= MAX_POSITION /\ Reach(position', o.action, o.left - n)
    BY <2>1, <2>2, <2>3, ReachFill
  <2>5. CASE n = o.left
    <3>1. orders' = {}
      BY <2>1, <2>5, FillOf
    <3> QED
      BY <1>0, <2>1, <2>4, <3>1 DEF CapInv, Outgoing, Sole
  <2>6. CASE n # o.left
    <3>1. orders' = {Left(o, n)} /\ Left(o, n).action = o.action /\ Left(o, n).left = o.left - n
      BY <2>1, <2>6, FillOf
    <3>2. Reach(position', Left(o, n).action, Left(o, n).left)
      BY <2>4, <3>1
    <3> QED
      BY <1>0, <2>1, <2>4, <3>1, <3>2 DEF CapInv, Outgoing, Sole
  <2> QED
    BY <2>5, <2>6
<1> QED
  BY <1>1, <1>2

LEMMA CapStep ==
  ASSUME TypeInv, TakerInv, CapInv, [Next]_vars
  PROVE  TakerInv' /\ CapInv'
<1>0. TaskType /\ BrokerType /\ FeedType
  BY DEF TypeInv
<1>1. mode' = mode
  <2>1. CASE Taker
    BY <2>1, Zenon DEF Taker, OnQuote, ReadPosition, Submit, CancelOpposite
  <2>2. CASE Maker
    BY <2>2, Zenon DEF Maker, OnWideQuote, Requote, Post, Clear, OthersClear
  <2>3. CASE Broker
    BY <2>3, Zenon DEF Broker, Accept, Refuse, Ack, Fill, Expire
  <2>4. CASE Updates
    BY <2>4 DEF Updates, OnTradeUpdate, OnOtherUpdate, LoseUpdates, LoseOthers, Reconcile, ReconcileAnswer
  <2>5. CASE Page
    BY <2>5 DEF Page, Writer, Command, End, LastFlatten
  <2> QED
    BY <2>1, <2>2, <2>3, <2>4, <2>5 DEF Next, vars
<1>2. SUFFICES ASSUME mode # "maker" PROVE TakerInv' /\ CapInv'
  BY <1>1 DEF TakerInv, CapInv
<1>3. task["requote"].pc = "idle" /\ Quote.pc # "clear"
  BY <1>2 DEF TakerInv
<1>4. ASSUME NEW action \in Action, NEW n \in Lot, OnQuote(Order(action, n))
      PROVE  TakerInv' /\ CapInv'
  <2>1. PICK q \in TaskRec : Becomes("quote", q) /\ q.pc = "sync"
    BY <1>4, OnQuoteTask
  <2>2. Quote' = q /\ task'["requote"] = task["requote"]
    BY <2>1, QuoteGoesOn
  <2>3. UNCHANGED <<position, orders, blind>>
    BY <1>4 DEF OnQuote, brokerVars
  <2> QED
    BY <1>1, <2>1, <2>2, <2>3, CapQuiet, TakerQuiet DEF Sole, Outgoing
<1>5. ASSUME NEW ok \in BOOLEAN, ReadPosition(ok) PROVE TakerInv' /\ CapInv'
  <2>1. PICK q \in TaskRec :
           Becomes("quote", q) /\ q.pc = "synced" /\ q.inv = IF ok THEN position ELSE 0
    BY <1>5, ReadPositionTask
  <2>2. Quote' = q /\ task'["requote"] = task["requote"]
    BY <2>1, QuoteGoesOn
  <2>3. UNCHANGED <<position, orders>> /\ blind' = (blind \/ ~ok \/ orders # {})
    BY <1>5 DEF ReadPosition, brokerVars
  <2>4. TakerInv'
    BY <1>1, <2>1, <2>2, TakerQuiet
  <2>5. CASE blind'
    BY <2>4, <2>5 DEF CapInv
  <2>6. CASE ~blind'
    <3>1. ok /\ ~blind /\ orders = {} /\ q.inv = position
      BY <2>1, <2>3, <2>6
    <3>2. Away(position) <= MAX_POSITION
      BY <1>2, <3>1 DEF CapInv
    <3> QED
      BY <1>1, <2>1, <2>2, <2>3, <2>4, <3>1, <3>2 DEF CapInv, Outgoing
  <2> QED
    BY <2>4, <2>5, <2>6
<1>6. ASSUME NEW ok \in BOOLEAN, Submit(ok) PROVE TakerInv' /\ CapInv'
  BY <1>2, <1>6, CapSubmit
<1>7. ASSUME NEW ok \in BOOLEAN, CancelOpposite(ok) PROVE TakerInv' /\ CapInv'
  <2>1. PICK q \in TaskRec :
           Becomes("quote", q) /\ q.posts = Quote.posts /\ q.pc \in Outgoing
    BY <1>7, CancelTask DEF Quote, Outgoing
  <2>2. Quote' = q /\ task'["requote"] = task["requote"]
    BY <2>1, QuoteGoesOn
  <2>3. UNCHANGED <<position, blind>> /\ orders' \subseteq orders /\ Quote.pc = "cancel"
    BY <1>7 DEF CancelOpposite, Quote
  <2>4. Len(Quote.posts) = 1
    BY <1>2, <2>3 DEF TakerInv, Outgoing
  <2>5. TakerInv'
    BY <1>1, <2>1, <2>2, <2>4, TakerQuiet DEF Outgoing
  <2>6. CapInv'
    <3>1. CASE blind
      BY <2>3, <3>1 DEF CapInv
    <3>2. CASE ~blind
      <4>1. /\ Away(position) <= MAX_POSITION /\ orders = {}
            /\ Reach(position, Head(Quote.posts).action, Head(Quote.posts).size)
        BY <1>2, <2>3, <3>2 DEF CapInv, Outgoing, Sole
      <4>2. orders' = {}
        BY <2>3, <4>1
      <4> QED
        BY <1>1, <2>1, <2>2, <2>3, <4>1, <4>2 DEF CapInv, Outgoing, Sole
    <3> QED
      BY <3>1, <3>2
  <2> QED
    BY <2>5, <2>6
<1>8. ~Maker
  <2>1. \A t \in Task : ~Post(t) /\ task[t].pc # "clear"
    BY <1>2, <1>3 DEF Post, Task, Quote
  <2> QED
    BY <1>2, <2>1, QuoteTask DEF Maker, OnWideQuote, Requote, Clear, OthersClear
<1>9. ASSUME NEW t \in Task, NEW ok \in BOOLEAN, Accept(t, ok) \/ Refuse(t)
      PROVE  TakerInv' /\ CapInv'
  <2>1. t = "quote" /\ Quote.pc = "submit"
    BY <1>3, <1>9 DEF Accept, Refuse, Task, Quote
  <2>2. PICK q \in TaskRec :
          /\ Becomes("quote", q)
          /\ q.pc = "idle" \/ (q.pc = "ack" /\ q.posts = Quote.posts)
    BY <1>9, <2>1, AcceptTask DEF Quote
  <2>3. Quote' = q /\ task'["requote"] = task["requote"]
    BY <2>2, QuoteGoesOn
  <2>4. Len(Quote.posts) = 1
    BY <1>2, <2>1 DEF TakerInv, Outgoing
  <2>5. TakerInv'
    BY <1>1, <2>2, <2>3, <2>4, TakerQuiet
  <2>6. CASE Accept(t, ok)
    BY <1>2, <2>1, <2>5, <2>6, CapAccept
  <2>7. CASE Refuse(t)
    <3>1. UNCHANGED <<position, orders, blind>>
      BY <2>7 DEF Refuse, brokerVars
    <3> QED
      BY <1>1, <2>2, <2>3, <2>5, <3>1, CapQuiet DEF Sole, Outgoing
  <2> QED
    BY <1>9, <2>6, <2>7
<1>10. ASSUME NEW t \in Task, Ack(t) PROVE TakerInv' /\ CapInv'
  <2>1. t = "quote" /\ Quote.pc = "ack" /\ UNCHANGED <<position, orders, blind>>
    BY <1>3, <1>10 DEF Ack, Task, Quote, brokerVars
  <2>2. Len(Quote.posts) = 1
    BY <1>2, <2>1 DEF TakerInv, Outgoing
  <2>3. PICK q \in TaskRec :
          /\ Becomes("quote", q)
          /\ q.pc = "idle" \/ (q.pc = "submit" /\ q.posts = Tail(Quote.posts))
    BY <1>10, <2>1, AckTask DEF Quote
  <2>4. Quote.posts \in Seq(Post_) /\ Quote.posts # <<>>
    BY <1>10, <2>1, AckTask DEF Quote
  <2>5. q.pc = "idle"
    <3>1. Tail(Quote.posts) = <<>>
      BY <2>2, <2>4, RestType
    <3> QED
      BY <2>3, <3>1 DEF Becomes
  <2>6. Quote' = q /\ task'["requote"] = task["requote"]
    BY <2>3, QuoteGoesOn
  <2> QED
    BY <1>1, <2>1, <2>5, <2>6, CapQuiet, TakerQuiet DEF Sole, Outgoing
<1>11. ASSUME NEW o \in orders, NEW n \in 1 .. o.left, Fill(o, n) PROVE TakerInv' /\ CapInv'
  <2>1. UNCHANGED <<mode, task>>
    BY <1>11 DEF Fill
  <2>2. TakerInv'
    BY <2>1 DEF TakerInv, Quote
  <2> QED
    BY <1>2, <1>11, <2>2, CapFill
\* Steps that leave the tasks, the position and the orders alone, but for fewer orders.
<1>12. ASSUME UNCHANGED <<position, blind, task>>, orders' \subseteq orders
      PROVE  TakerInv' /\ CapInv'
  <2>1. Quote' = Quote
    BY <1>12 DEF Quote
  <2> QED
    BY <1>1, <1>12, <2>1, CapQuiet, TakerQuiet
<1>13. ASSUME NEW o \in orders, Expire(o) PROVE TakerInv' /\ CapInv'
  BY <1>12, <1>13 DEF Expire
<1>14. CASE Updates
  BY <1>12, <1>14 DEF Updates, OnTradeUpdate, OnOtherUpdate, LoseUpdates, LoseOthers, Reconcile,
                      ReconcileAnswer, brokerVars
\* A close, of everything or of the symbol.
<1>15. ASSUME UNCHANGED <<blind, task>>,
              UNCHANGED <<position, orders, events, echo>> \/ \E keep \in {{}, orders} : Closed(keep)
       PROVE  TakerInv' /\ CapInv'
  <2>1. CASE UNCHANGED <<position, orders, events, echo>>
    BY <1>12, <1>15, <2>1
  <2>2. CASE \E keep \in {{}, orders} : Closed(keep)
    <3>1. Quote' = Quote
      BY <1>15 DEF Quote
    <3> QED
      BY <1>1, <1>15, <2>2, <3>1, CapClosed, TakerQuiet
  <2> QED
    BY <1>15, <2>1, <2>2
<1>16. ASSUME NEW hit \in BOOLEAN, NEW ok \in BOOLEAN, Writer(hit, ok) PROVE TakerInv' /\ CapInv'
  BY <1>15, <1>16 DEF Writer, FlattenAll
<1>17. ASSUME NEW cmd, Command(cmd) PROVE TakerInv' /\ CapInv'
  BY <1>12, <1>17 DEF Command, brokerVars
<1>18. ASSUME NEW ok \in BOOLEAN, LastFlatten(ok) PROVE TakerInv' /\ CapInv'
  BY <1>15, <1>18 DEF LastFlatten, FlattenAll
<1>19. CASE End
  <2>1. /\ Quote' = Quote \/ Quote'.pc = "idle"
        /\ task'["requote"] = task["requote"] \/ task'["requote"].pc = "idle"
    BY <1>0, <1>19, QuoteTask, EndTask DEF Quote
  <2>2. UNCHANGED <<position, orders, blind>>
    BY <1>19 DEF End
  <2> QED
    BY <1>1, <2>1, <2>2, CapQuiet, TakerQuiet DEF Sole, Outgoing
<1>20. CASE UNCHANGED vars
  BY <1>12, <1>20 DEF vars
<1>21. CASE Taker
  <2>1. CASE \E action \in {"buy", "sell"}, n \in Lot : OnQuote(Order(action, n))
    BY <1>4, <2>1 DEF Action
  <2>2. CASE \E b \in BOOLEAN : ReadPosition(b) \/ Submit(b) \/ CancelOpposite(b)
    BY <1>5, <1>6, <1>7, <2>2
  <2> QED
    BY <1>21, <2>1, <2>2 DEF Taker
<1>22. CASE Broker
  <2>1. CASE \E t \in Task : (\E b \in BOOLEAN : Accept(t, b)) \/ Refuse(t) \/ Ack(t)
    BY <1>9, <1>10, <2>1
  <2>2. CASE \E o \in orders : (\E n \in 1 .. o.left : Fill(o, n)) \/ Expire(o)
    BY <1>11, <1>13, <2>2
  <2> QED
    BY <1>22, <2>1, <2>2 DEF Broker
<1>23. CASE Page
  BY <1>16, <1>17, <1>18, <1>19, <1>23 DEF Page
<1> QED
  BY <1>8, <1>14, <1>20, <1>21, <1>22, <1>23 DEF Next

\* For any cap and any sizes: through partial fills, expired orders, stops and flattens, a
\* taker's position stays within the cap, as long as every read of the position succeeded
\* and met no order of its own still working.
THEOREM CapHolds == Spec => []PositionWithinCap
<1>1. Init => TakerInv /\ CapInv
  <2> SUFFICES ASSUME Init PROVE TakerInv /\ CapInv
    OBVIOUS
  <2>1. Quote.pc = "idle" /\ task["requote"].pc = "idle" /\ orders = {} /\ position = 1
    BY IdleType, QuoteTask DEF Init, Quote
  <2>2. Away(position) <= MAX_POSITION
    BY <2>1, CapAssumption DEF Away
  <2> QED
    BY <2>1, <2>2 DEF TakerInv, CapInv, Outgoing, Sole
<1>2. CapInv => PositionWithinCap
  BY DEF CapInv, PositionWithinCap
<1> QED
  BY <1>1, <1>2, TypeInit, AuditInit, TypeStep, AuditStep, CapStep, PTL DEF Spec
=============================================================================
