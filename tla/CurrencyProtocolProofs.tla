----------------------- MODULE CurrencyProtocolProofs -----------------------
(***************************************************************************)
(* Proofs about CurrencyProtocol, for any number of peers, any tree of     *)
(* blocks and any sizes: what is on the wire of a connection is what its   *)
(* context expects, a connection never waits for two things, and no        *)
(* handler drops a peer whose chain did not change.                        *)
(***************************************************************************)
EXTENDS CurrencyProtocol, FiniteSetTheorems, FunctionTheorems, WellFoundedInduction, TLAPS

-----------------------------------------------------------------------------
(* Messages counted in a sequence. *)

IsSeq(s) == s \in Seq(Range(s))

LEMMA EmptySeq == IsSeq(<< >>) /\ \A type : Count(<< >>, type) = 0
<1>1. \A type : { i \in DOMAIN << >> : << >>[i].t = type } = {}
  OBVIOUS
<1> QED BY <1>1, FS_EmptySet DEF IsSeq, Range, Count

LEMMA CountType ==
  ASSUME NEW s, IsSeq(s), NEW type
  PROVE  Count(s, type) \in Nat /\ IsFiniteSet({ i \in DOMAIN s : s[i].t = type })
<1>1. Len(s) \in Nat /\ DOMAIN s = 1 .. Len(s)
  BY DEF IsSeq
<1>2. IsFiniteSet(1 .. Len(s)) /\ { i \in DOMAIN s : s[i].t = type } \in SUBSET (1 .. Len(s))
  BY <1>1, FS_Interval
<1>3. IsFiniteSet({ i \in DOMAIN s : s[i].t = type })
  BY <1>2, FS_Subset
<1> QED BY <1>3, FS_CardinalityType DEF Count

\* A message is sent.
LEMMA CountAppend ==
  ASSUME NEW s, IsSeq(s), NEW m
  PROVE  /\ IsSeq(Append(s, m))
         /\ \A type : Count(Append(s, m), type) = IF m.t = type THEN Count(s, type) + 1 ELSE Count(s, type)
<1> DEFINE r == Append(s, m)
<1> DEFINE S == Range(s) \cup {m}
<1>1. s \in Seq(S) /\ m \in S
  BY DEF IsSeq
<1>2. /\ r \in Seq(S) /\ Len(r) = Len(s) + 1 /\ Len(s) \in Nat /\ r[Len(s) + 1] = m
      /\ \A i \in 1 .. Len(s) : r[i] = s[i]
  BY <1>1
<1> HIDE DEF r
<1>3. IsSeq(r)
  <2>1. r \in [1 .. Len(r) -> Range(r)] /\ Len(r) \in Nat
    BY <1>2 DEF Range
  <2> QED BY <2>1 DEF IsSeq
<1>4. ASSUME NEW type
      PROVE  Count(r, type) = IF m.t = type THEN Count(s, type) + 1 ELSE Count(s, type)
  <2> DEFINE A == { i \in DOMAIN s : s[i].t = type }
  <2>1. DOMAIN s = 1 .. Len(s) /\ DOMAIN r = 1 .. (Len(s) + 1)
    BY <1>1, <1>2
  <2>2. { i \in DOMAIN r : r[i].t = type } = IF m.t = type THEN A \cup {Len(s) + 1} ELSE A
    BY <1>2, <2>1
  <2>3. IsFiniteSet(A) /\ Len(s) + 1 \notin A
    <3>1. IsFiniteSet(A)
      BY CountType
    <3> QED BY <1>2, <2>1, <3>1
  <2>4. Cardinality(A \cup {Len(s) + 1}) = Cardinality(A) + 1
    BY <2>3, FS_AddElement
  <2> QED BY <2>2, <2>4 DEF Count
<1> QED BY <1>3, <1>4 DEF r

\* A message is taken.
LEMMA CountTail ==
  ASSUME NEW s, IsSeq(s), s # << >>
  PROVE  /\ IsSeq(Tail(s))
         /\ \A type : Count(s, type) = IF Head(s).t = type THEN Count(Tail(s), type) + 1 ELSE Count(Tail(s), type)
<1> DEFINE r == Tail(s)
<1>1. /\ r \in Seq(Range(s)) /\ Len(s) \in Nat \ {0} /\ Len(r) = Len(s) - 1 /\ Head(s) = s[1]
      /\ \A i \in 1 .. Len(r) : r[i] = s[i + 1]
  BY DEF IsSeq
<1> HIDE DEF r
<1>2. IsSeq(r)
  <2>1. r \in [1 .. Len(r) -> Range(r)] /\ Len(r) \in Nat
    BY <1>1 DEF Range
  <2> QED BY <2>1 DEF IsSeq
<1>3. ASSUME NEW type
      PROVE  Count(s, type) = IF Head(s).t = type THEN Count(r, type) + 1 ELSE Count(r, type)
  <2> DEFINE A == { i \in DOMAIN r : r[i].t = type }
             B == { i \in DOMAIN s : s[i].t = type /\ i # 1 }
             f == [i \in A |-> i + 1]
  <2>1. DOMAIN s = 1 .. Len(s) /\ DOMAIN r = 1 .. (Len(s) - 1)
    BY <1>1 DEF IsSeq
  <2>2. f \in Bijection(A, B)
    <3>1. f \in [A -> B]
      BY <1>1, <2>1
    <3>2. \A i, j \in A : f[i] = f[j] => i = j
      BY <2>1
    <3>3. \A j \in B : \E i \in A : f[i] = j
      <4> TAKE j \in B
      <4>1. j - 1 \in A /\ f[j - 1] = j
        BY <1>1, <2>1
      <4> QED BY <4>1
    <3> QED BY <3>1, <3>2, <3>3, Fun_IsBij
  <2>3. IsFiniteSet(A)
    BY <1>2, CountType
  <2>4. Cardinality(A) = Cardinality(B) /\ IsFiniteSet(B)
    BY <2>2, <2>3, FS_Bijection DEF ExistsBijection
  <2>5. { i \in DOMAIN s : s[i].t = type } = IF Head(s).t = type THEN B \cup {1} ELSE B
    BY <1>1, <2>1
  <2>6. Cardinality(B \cup {1}) = Cardinality(B) + 1
    BY <2>4, FS_AddElement
  <2> QED BY <2>4, <2>5, <2>6 DEF Count
<1> QED BY <1>2, <1>3 DEF r

-----------------------------------------------------------------------------
(* Shapes of the records; what the data in them are does not matter here. *)

WireShape(x) ==
  /\ x \in [up : BOOLEAN, out : {x.out}, in : {x.in}]
  /\ IsSeq(x.out) /\ IsSeq(x.in)
CtxShape(c) ==
  c \in [state : {c.state}, needed : {c.needed}, requested : {c.requested}, fetched : {c.fetched},
         lastResponse : {c.lastResponse}, remoteSize : {c.remoteSize},
         expectChain : Nat, expectObjects : Nat, callbacks : Nat]
JobShape(j) ==
  /\ j \in [kind : {"none", "add", "new"}, blocks : {j.blocks}, count : {j.count}]
  /\ j.kind = "none" <=> j = NoJob

\* What the context c of a connection says about the messages m on its wire while its
\* handler is j.
Pending(c, m, j) ==
  c.callbacks + (Count(m.out, "chain") + Count(m.in, "entry")) + (Count(m.out, "objects") + Count(m.in, "blocks"))
    + (IF j.kind = "add" THEN 1 ELSE 0)
Agrees(c, m, j) ==
  /\ c.state # "closed"
  /\ c.expectChain = Count(m.out, "chain") + Count(m.in, "entry")
  /\ c.expectObjects = Count(m.out, "objects") + Count(m.in, "blocks")
  /\ c.requested # {} => c.expectObjects = 1
  /\ c.needed # << >> => c.state = "synchronizing"
  /\ Pending(c, m, j) <= (IF c.state = "synchronizing" THEN 1 ELSE 0)
  /\ c.state = "synchronizing" => Pending(c, m, j) = 1 \/ Stuck(c)

\* A connection that is up agrees with its wire; one that is lost while its handler runs
\* keeps its context until the handler ends, so that it is not opened in between.
ConnInv(p) ==
  /\ WireShape(wire[p]) /\ CtxShape(ctx[p]) /\ JobShape(job[p])
  /\ wire[p].up => Agrees(ctx[p], wire[p], job[p])
  /\ job[p].kind # "none" => ctx[p].state # "closed"
  /\ job[p].kind = "new" => ctx[p].state = "normal"
SyncInv ==
  /\ wire = [p \in Peers |-> wire[p]] /\ ctx = [p \in Peers |-> ctx[p]] /\ job = [p \in Peers |-> job[p]]
  /\ \A p \in Peers : ConnInv(p)

\* A step of one connection.
LEMMA OneMoves ==
  ASSUME SyncInv, NEW p \in Peers, NEW m, NEW c, NEW j,
         wire' = [wire EXCEPT ![p] = m], ctx' = [ctx EXCEPT ![p] = c], job' = [job EXCEPT ![p] = j],
         WireShape(m), CtxShape(c), JobShape(j), m.up => Agrees(c, m, j),
         j.kind # "none" => c.state # "closed", j.kind = "new" => c.state = "normal"
  PROVE  SyncInv'
<1>1. /\ wire' = [q \in Peers |-> IF q = p THEN m ELSE wire[q]]
      /\ ctx' = [q \in Peers |-> IF q = p THEN c ELSE ctx[q]]
      /\ job' = [q \in Peers |-> IF q = p THEN j ELSE job[q]]
  BY DEF SyncInv
<1>2. ASSUME NEW q \in Peers PROVE ConnInv(q)'
  <2>1. CASE q = p
    <3>1. wire'[q] = m /\ ctx'[q] = c /\ job'[q] = j
      BY <1>1, <2>1
    <3> QED BY <3>1 DEF ConnInv
  <2>2. CASE q # p
    <3>1. wire'[q] = wire[q] /\ ctx'[q] = ctx[q] /\ job'[q] = job[q]
      BY <1>1, <2>2
    <3> QED BY <3>1 DEF ConnInv, SyncInv
  <2> QED BY <2>1, <2>2
<1>3. wire' = [q \in Peers |-> wire'[q]] /\ ctx' = [q \in Peers |-> ctx'[q]] /\ job' = [q \in Peers |-> job'[q]]
  BY <1>1
<1> QED BY <1>2, <1>3 DEF SyncInv

LEMMA Closed ==
  /\ WireShape(NoWire) /\ ~NoWire.up
  /\ CtxShape(Gone) /\ CtxShape(Fresh) /\ Fresh.state = "before"
  /\ JobShape(NoJob) /\ NoJob.kind = "none"
<1>1. WireShape(NoWire) /\ ~NoWire.up
  BY EmptySeq DEF WireShape, NoWire
<1>2. CtxShape(Fresh) /\ Fresh.state = "before"
  BY DEF CtxShape, Fresh
<1>3. CtxShape(Gone)
  BY DEF CtxShape, Gone, Fresh
<1>4. JobShape(NoJob) /\ NoJob.kind = "none"
  BY DEF JobShape, NoJob
<1> QED BY <1>1, <1>2, <1>3, <1>4

\* A connection is dropped, or its link is lost.
LEMMA ConnectionEnds ==
  ASSUME SyncInv, NEW p \in Peers, wire' = [wire EXCEPT ![p] = NoWire],
         \/ ctx' = [ctx EXCEPT ![p] = Gone] /\ job' = [job EXCEPT ![p] = NoJob]
         \/ ctx' = [ctx EXCEPT ![p] = IF job[p] = NoJob THEN Gone ELSE @] /\ job' = job
  PROVE  SyncInv'
<1>0. ConnInv(p)
  BY DEF SyncInv
<1>1. CASE ctx' = [ctx EXCEPT ![p] = Gone] /\ job' = [job EXCEPT ![p] = NoJob]
  BY <1>1, Closed, OneMoves
<1>2. CASE ctx' = [ctx EXCEPT ![p] = IF job[p] = NoJob THEN Gone ELSE @] /\ job' = job
  <2>1. job' = [job EXCEPT ![p] = job[p]]
    BY <1>2 DEF SyncInv
  <2>2. CASE job[p] = NoJob
    <3>1. ctx' = [ctx EXCEPT ![p] = Gone]
      BY <1>2, <2>2
    <3> QED BY <2>1, <2>2, <3>1, Closed, OneMoves
  <2>3. CASE job[p] # NoJob
    <3>1. ctx' = [ctx EXCEPT ![p] = ctx[p]]
      BY <1>2, <2>3
    <3>2. CtxShape(ctx[p]) /\ JobShape(job[p])
      BY <1>0 DEF ConnInv
    <3> QED BY <1>0, <2>1, <3>1, <3>2, Closed, OneMoves DEF ConnInv
  <2> QED BY <2>2, <2>3
<1> QED BY <1>1, <1>2

-----------------------------------------------------------------------------
(* The end of a handler. *)

After(m, posts, taken) ==
  [up |-> TRUE, out |-> m.out \o posts, in |-> IF taken THEN Tail(m.in) ELSE m.in]

LEMMA HandlerEnds ==
  ASSUME SyncInv, NEW p \in Peers, NEW c, NEW posts, NEW taken \in BOOLEAN, Ends(p, c, posts, taken),
         CtxShape(c), WireShape(After(wire[p], posts, taken)),
         wire[p].up => Agrees(c, After(wire[p], posts, taken), NoJob)
  PROVE  SyncInv'
<1> DEFINE m == After(wire[p], posts, taken)
<1>0. WireShape(wire[p]) /\ m.up
  BY DEF SyncInv, ConnInv, After
<1>1. CASE wire[p].up
  <2>2. wire' = [wire EXCEPT ![p] = m]
    BY <1>1 DEF Ends, After
  <2>3. ctx' = [ctx EXCEPT ![p] = c] /\ job' = [job EXCEPT ![p] = NoJob]
    BY <1>1 DEF Ends
  <2> HIDE DEF m
  <2> QED BY <1>1, <2>2, <2>3, Closed, OneMoves DEF m
<1>2. CASE ~wire[p].up
  <2>1. wire' = [wire EXCEPT ![p] = NoWire] /\ ctx' = [ctx EXCEPT ![p] = Gone] /\ job' = [job EXCEPT ![p] = NoJob]
    BY <1>2 DEF Ends
  <2> QED BY <2>1, ConnectionEnds
<1> QED BY <1>1, <1>2

\* What a handler that posts nothing, or one message, leaves on the wire.
LEMMA Posted ==
  ASSUME NEW s, IsSeq(s), NEW x
  PROVE  s \o << >> = s /\ s \o << x >> = Append(s, x)
<1> DEFINE S == Range(s) \cup {x}
<1>1. s \in Seq(S) /\ x \in S
  BY DEF IsSeq
<1> HIDE DEF S
<1> QED BY <1>1

LEMMA AfterShape ==
  ASSUME NEW m, WireShape(m), NEW taken \in BOOLEAN, taken => m.in # << >>, NEW posts, IsSeq(m.out \o posts)
  PROVE  WireShape(After(m, posts, taken))
<1>1. IsSeq(IF taken THEN Tail(m.in) ELSE m.in)
  BY CountTail DEF WireShape
<1> QED BY <1>1 DEF After, WireShape

-----------------------------------------------------------------------------
(* Asking. *)

\* Nothing is expected and nothing is on the way, the message taken apart.
Rest(m, taken) == IF taken THEN Tail(m.in) ELSE m.in
Quiet(c, m, taken) ==
  /\ c.callbacks = 0 /\ c.expectChain = 0 /\ c.expectObjects = 0 /\ c.requested = {}
  /\ Count(m.out, "chain") = 0 /\ Count(Rest(m, taken), "entry") = 0
  /\ Count(m.out, "objects") = 0 /\ Count(Rest(m, taken), "blocks") = 0

\* A question to the peer that the context c counts.
AskedChain(c, r) ==
  \E x : /\ x.t = "chain" /\ r[2] = << x >>
         /\ CtxShape(r[1]) /\ r[1].expectChain = c.expectChain + 1
         /\ r[1].state = c.state /\ r[1].needed = c.needed /\ r[1].requested = c.requested
         /\ r[1].expectObjects = c.expectObjects /\ r[1].callbacks = c.callbacks
AskedObjects(c, r) ==
  \E x : /\ x.t = "objects" /\ r[2] = << x >>
         /\ CtxShape(r[1]) /\ r[1].expectObjects = c.expectObjects + 1
         /\ r[1].state = c.state
         /\ r[1].expectChain = c.expectChain /\ r[1].callbacks = c.callbacks

LEMMA AskingCounts ==
  ASSUME NEW c, CtxShape(c), NEW ids
  PROVE  /\ AskedChain(c, Asking(c, ids))
         /\ AskedChain(c, Asking([c EXCEPT !.fetched = << >>], ids))
<1> DEFINE x == [t |-> "chain", ids |-> ids]
           d == [c EXCEPT !.fetched = << >>]
           e == [c EXCEPT !.expectChain = @ + 1]
           f == [d EXCEPT !.expectChain = @ + 1]
<1>1. x.t = "chain" /\ Asking(c, ids) = << e, << x >> >> /\ Asking(d, ids) = << f, << x >> >>
  BY DEF Asking
<1>2. /\ CtxShape(e) /\ e.expectChain = c.expectChain + 1
      /\ e.state = c.state /\ e.needed = c.needed /\ e.requested = c.requested
      /\ e.expectObjects = c.expectObjects /\ e.callbacks = c.callbacks
  BY DEF CtxShape
<1>3. /\ CtxShape(d) /\ d.expectChain = c.expectChain
      /\ d.state = c.state /\ d.needed = c.needed /\ d.requested = c.requested
      /\ d.expectObjects = c.expectObjects /\ d.callbacks = c.callbacks
  BY DEF CtxShape
<1> HIDE DEF d, e
<1>4. /\ CtxShape(f) /\ f.expectChain = d.expectChain + 1
      /\ f.state = d.state /\ f.needed = d.needed /\ f.requested = d.requested
      /\ f.expectObjects = d.expectObjects /\ f.callbacks = d.callbacks
  BY <1>3 DEF CtxShape
<1> HIDE DEF f, x
<1>5. AskedChain(c, << e, << x >> >>)
  BY <1>1, <1>2 DEF AskedChain
<1>6. AskedChain(c, << f, << x >> >>)
  BY <1>1, <1>3, <1>4 DEF AskedChain
<1> QED BY <1>1, <1>5, <1>6 DEF d

LEMMA RequestOutcome ==
  ASSUME NEW c, CtxShape(c), NEW check, NEW lim
  PROVE  LET r == RequestMissing(c, check, lim)
         IN  \/ c.needed = << >> /\ AskedChain(c, r)
             \/ c.needed # << >> /\ AskedObjects(c, r)
             \/ /\ c.needed = << >> /\ c.requested = {}
                /\ r = << [c EXCEPT !.state = "normal"], << >> >>
             \/ c.needed = << >> /\ (Stuck(c) \/ c.requested # {}) /\ r = << c, << >> >>
<1> DEFINE r == RequestMissing(c, check, lim)
<1>1. CASE c.needed # << >>
  <2> DEFINE w == Wanted(c, check, lim)
             n == SubSeq(c.needed, w.taken + 1, Len(c.needed))
             q == c.requested \cup Range(w.ids)
             z == c.expectObjects + 1
             d == [c EXCEPT !.needed = n, !.requested = q, !.expectObjects = z]
             x == [t |-> "objects", blocks |-> w.ids]
  <2>1. r = << d, << x >> >>
    BY <1>1 DEF RequestMissing
  <2> HIDE DEF w, n, q
  <2>2. CtxShape(d) /\ d.expectObjects = c.expectObjects + 1 /\ d.state = c.state
        /\ d.expectChain = c.expectChain /\ d.callbacks = c.callbacks
    <3>1. z \in Nat
      BY DEF CtxShape
    <3> HIDE DEF z
    <3>2. CtxShape(d) /\ d.expectObjects = z /\ d.state = c.state
          /\ d.expectChain = c.expectChain /\ d.callbacks = c.callbacks
      BY <3>1 DEF CtxShape
    <3> QED BY <3>2 DEF z
  <2>3. x.t = "objects"
    OBVIOUS
  <2> HIDE DEF d, x, r
  <2>4. AskedObjects(c, r)
    BY <2>1, <2>2, <2>3 DEF AskedObjects
  <2> QED BY <1>1, <2>4 DEF r
<1>2. CASE c.needed = << >> /\ c.lastResponse < c.remoteSize - 1
  <2>1. r = AskForIds(c)
    BY <1>2 DEF RequestMissing
  <2>2. \/ AskForIds(c) = Asking(c, ShortHistory(c.fetched))
        \/ AskForIds(c) = Asking([c EXCEPT !.fetched = << >>], ShortHistory(Path[top]))
    BY DEF AskForIds
  <2>3. AskedChain(c, AskForIds(c))
    BY <2>2, AskingCounts
  <2> QED BY <1>2, <2>1, <2>3
<1>3. CASE c.needed = << >> /\ ~(c.lastResponse < c.remoteSize - 1)
  <2>1. CASE c.lastResponse = c.remoteSize - 1 /\ c.requested = {}
    BY <1>3, <2>1 DEF RequestMissing
  <2>2. CASE ~(c.lastResponse = c.remoteSize - 1 /\ c.requested = {})
    BY <1>3, <2>2 DEF RequestMissing, Stuck
  <2> QED BY <2>1, <2>2
<1> QED BY <1>1, <1>2, <1>3

\* A quiet connection that synchronises asks.
LEMMA AskingAgrees ==
  ASSUME NEW c, CtxShape(c), NEW m, WireShape(m), NEW r, NEW taken \in BOOLEAN, taken => m.in # << >>,
         Quiet(c, m, taken), c.state = "synchronizing", AskedChain(c, r) \/ AskedObjects(c, r)
  PROVE  /\ CtxShape(r[1])
         /\ WireShape(After(m, r[2], taken)) /\ Agrees(r[1], After(m, r[2], taken), NoJob)
<1> DEFINE posts == r[2]
           a == After(m, posts, taken)
           d == r[1]
<1>1. PICK x : /\ x.t \in {"chain", "objects"} /\ posts = << x >> /\ CtxShape(d) /\ d.state = c.state
               /\ d.callbacks = 0
               /\ d.expectChain = IF x.t = "chain" THEN 1 ELSE 0
               /\ d.expectObjects = IF x.t = "objects" THEN 1 ELSE 0
               /\ x.t = "chain" => d.requested = {}
  BY DEF AskedChain, AskedObjects, Quiet
<1> HIDE DEF posts
<1>2. /\ WireShape(a)
      /\ \A type : Count(a.out, type) = IF x.t = type THEN Count(m.out, type) + 1 ELSE Count(m.out, type)
  <2> DEFINE s == m.out
  <2>1. IsSeq(s)
    BY DEF WireShape
  <2> HIDE DEF s
  <2>2. s \o posts = Append(s, x)
    BY <1>1, <2>1, Posted
  <2>3. /\ IsSeq(s \o posts)
        /\ \A type : Count(s \o posts, type) = IF x.t = type THEN Count(s, type) + 1 ELSE Count(s, type)
    BY <2>1, <2>2, CountAppend
  <2>4. WireShape(a)
    BY <2>3, AfterShape DEF s
  <2>5. a.out = s \o posts
    BY DEF After, s
  <2> HIDE DEF a
  <2> QED BY <2>3, <2>4, <2>5 DEF s
<1>3. a.in = Rest(m, taken)
  BY DEF After, Rest
<1> HIDE DEF a, d
<1>4. /\ Count(a.out, "chain") = (IF x.t = "chain" THEN 1 ELSE 0) /\ Count(a.in, "entry") = 0
      /\ Count(a.out, "objects") = (IF x.t = "objects" THEN 1 ELSE 0) /\ Count(a.in, "blocks") = 0
  BY <1>1, <1>2, <1>3 DEF Quiet
<1>5. Pending(d, a, NoJob) = 1
  BY <1>1, <1>4 DEF Pending, NoJob
<1>6. Agrees(d, a, NoJob)
  BY <1>1, <1>4, <1>5 DEF Agrees
<1> QED BY <1>1, <1>2, <1>6 DEF a, d, posts

\* A handler that ends and posts nothing.
LEMMA PostsNothing ==
  ASSUME NEW c, CtxShape(c), NEW m, WireShape(m), NEW taken \in BOOLEAN, taken => m.in # << >>,
         Quiet(c, m, taken), c.state \notin {"closed", "synchronizing"} \/ (c.state = "synchronizing" /\ Stuck(c)),
         c.needed = << >>
  PROVE  WireShape(After(m, << >>, taken)) /\ Agrees(c, After(m, << >>, taken), NoJob)
<1> DEFINE posts == << >>
           a == After(m, posts, taken)
<1>1. a.out = m.out \o posts /\ a.in = Rest(m, taken)
  BY DEF After, Rest
<1>2. m.out \o << >> = m.out
  BY DEF WireShape, IsSeq
<1>3. WireShape(a)
  <2>1. IsSeq(m.out \o posts)
    BY <1>2 DEF WireShape
  <2> HIDE DEF posts
  <2> QED BY <2>1, AfterShape
<1> HIDE DEF a
<1>4. Pending(c, a, NoJob) = 0
  BY <1>1, <1>2 DEF Pending, NoJob, Quiet
<1>5. Agrees(c, a, NoJob)
  BY <1>1, <1>2, <1>4 DEF Agrees, Quiet
<1> QED BY <1>3, <1>5 DEF a

\* request_missing_objects on a quiet connection that synchronises.
LEMMA RequestAgrees ==
  ASSUME NEW c, CtxShape(c), NEW m, WireShape(m), NEW taken \in BOOLEAN, taken => m.in # << >>,
         Quiet(c, m, taken), c.state = "synchronizing", NEW check, NEW lim
  PROVE  LET r == RequestMissing(c, check, lim)
         IN  /\ CtxShape(r[1])
             /\ WireShape(After(m, r[2], taken)) /\ Agrees(r[1], After(m, r[2], taken), NoJob)
<1> DEFINE r == RequestMissing(c, check, lim)
<1>0. \/ c.needed = << >> /\ AskedChain(c, r)
      \/ c.needed # << >> /\ AskedObjects(c, r)
      \/ /\ c.needed = << >> /\ c.requested = {}
         /\ r = << [c EXCEPT !.state = "normal"], << >> >>
      \/ c.needed = << >> /\ (Stuck(c) \/ c.requested # {}) /\ r = << c, << >> >>
  BY RequestOutcome
<1> HIDE DEF r
<1>1. CASE AskedChain(c, r) \/ AskedObjects(c, r)
  BY <1>1, AskingAgrees DEF r
<1>2. CASE c.needed = << >> /\ r = << [c EXCEPT !.state = "normal"], << >> >>
  <2> DEFINE d == [c EXCEPT !.state = "normal"]
  <2>1. /\ CtxShape(d) /\ d.state = "normal" /\ d.callbacks = c.callbacks /\ d.expectChain = c.expectChain
        /\ d.expectObjects = c.expectObjects /\ d.requested = c.requested /\ d.needed = c.needed
    BY DEF CtxShape
  <2> HIDE DEF d
  <2>2. Quiet(d, m, taken)
    BY <2>1 DEF Quiet
  <2>3. WireShape(After(m, << >>, taken)) /\ Agrees(d, After(m, << >>, taken), NoJob)
    BY <1>2, <2>1, <2>2, PostsNothing
  <2>4. r[1] = d /\ r[2] = << >>
    BY <1>2 DEF d
  <2> QED BY <2>1, <2>3, <2>4 DEF r
<1>3. CASE c.needed = << >> /\ (Stuck(c) \/ c.requested # {}) /\ r = << c, << >> >>
  <2>1. Stuck(c) /\ r[1] = c /\ r[2] = << >>
    BY <1>3 DEF Quiet
  <2>2. WireShape(After(m, << >>, taken)) /\ Agrees(c, After(m, << >>, taken), NoJob)
    BY <1>3, <2>1, PostsNothing
  <2> QED BY <2>1, <2>2 DEF r
<1> QED BY <1>0, <1>1, <1>2, <1>3

-----------------------------------------------------------------------------
(* The peers. *)

\* Messages move or arrive, and what is in flight is the same.
LEMMA OnTheWire ==
  ASSUME SyncInv, NEW p \in Peers, NEW m, wire' = [wire EXCEPT ![p] = m], UNCHANGED << ctx, job >>,
         WireShape(m), m.up = wire[p].up,
         Count(m.out, "chain") + Count(m.in, "entry") = Count(wire[p].out, "chain") + Count(wire[p].in, "entry"),
         Count(m.out, "objects") + Count(m.in, "blocks") = Count(wire[p].out, "objects") + Count(wire[p].in, "blocks")
  PROVE  SyncInv'
<1>0. ConnInv(p) /\ ctx' = [ctx EXCEPT ![p] = ctx[p]] /\ job' = [job EXCEPT ![p] = job[p]]
  BY DEF SyncInv
<1>1. wire[p].up => Agrees(ctx[p], m, job[p])
  BY <1>0 DEF ConnInv, Agrees, Pending
<1>2. CtxShape(ctx[p]) /\ JobShape(job[p])
  BY <1>0 DEF ConnInv
<1> QED BY <1>0, <1>1, <1>2, OneMoves DEF ConnInv

LEMMA Delivered ==
  ASSUME SyncInv, NEW p \in Peers, wire[p].out # << >>, NEW x,
         \/ Head(wire[p].out).t = "chain" /\ x.t = "entry"
         \/ Head(wire[p].out).t = "objects" /\ x.t = "blocks",
         wire' = [wire EXCEPT ![p].out = Tail(@), ![p].in = Append(@, x)], UNCHANGED << ctx, job >>
  PROVE  SyncInv'
<1> DEFINE w == wire[p]
           m == [w EXCEPT !.out = Tail(@), !.in = Append(@, x)]
<1>1. WireShape(w)
  BY DEF SyncInv, ConnInv
<1>2. wire' = [wire EXCEPT ![p] = m]
  BY DEF SyncInv
<1> DEFINE o == w.out
           i == w.in
<1>3. /\ IsSeq(o) /\ IsSeq(i) /\ o # << >>
      /\ \/ Head(o).t = "chain" /\ x.t = "entry"
         \/ Head(o).t = "objects" /\ x.t = "blocks"
  BY <1>1 DEF WireShape
<1>4. m.out = Tail(o) /\ m.in = Append(i, x) /\ m.up = w.up
  BY <1>1 DEF WireShape
<1>5. m \in [up : BOOLEAN, out : {m.out}, in : {m.in}]
  BY <1>1 DEF WireShape
<1> HIDE DEF m, o, i
<1>6. /\ IsSeq(Tail(o)) /\ IsSeq(Append(i, x))
      /\ \A type : Count(o, type) = IF Head(o).t = type THEN Count(Tail(o), type) + 1 ELSE Count(Tail(o), type)
      /\ \A type : Count(Append(i, x), type) = IF x.t = type THEN Count(i, type) + 1 ELSE Count(i, type)
  <2>1. /\ IsSeq(Tail(o))
        /\ \A type : Count(o, type) = IF Head(o).t = type THEN Count(Tail(o), type) + 1 ELSE Count(Tail(o), type)
    BY <1>3, CountTail
  <2>2. /\ IsSeq(Append(i, x))
        /\ \A type : Count(Append(i, x), type) = IF x.t = type THEN Count(i, type) + 1 ELSE Count(i, type)
    BY <1>3, CountAppend
  <2> QED BY <2>1, <2>2
<1>7. /\ Count(Tail(o), "chain") \in Nat /\ Count(Tail(o), "objects") \in Nat
      /\ Count(i, "entry") \in Nat /\ Count(i, "blocks") \in Nat
  BY <1>3, <1>6, CountType
<1>8. /\ Count(m.out, "chain") + Count(m.in, "entry") = Count(o, "chain") + Count(i, "entry")
      /\ Count(m.out, "objects") + Count(m.in, "blocks") = Count(o, "objects") + Count(i, "blocks")
  <2>1. CASE Head(o).t = "chain" /\ x.t = "entry"
    <3>1. /\ Count(o, "chain") = Count(Tail(o), "chain") + 1 /\ Count(o, "objects") = Count(Tail(o), "objects")
          /\ Count(Append(i, x), "entry") = Count(i, "entry") + 1
          /\ Count(Append(i, x), "blocks") = Count(i, "blocks")
      BY <1>6, <2>1
    <3> QED BY <1>4, <1>7, <3>1
  <2>2. CASE Head(o).t = "objects" /\ x.t = "blocks"
    <3>1. /\ Count(o, "objects") = Count(Tail(o), "objects") + 1 /\ Count(o, "chain") = Count(Tail(o), "chain")
          /\ Count(Append(i, x), "blocks") = Count(i, "blocks") + 1
          /\ Count(Append(i, x), "entry") = Count(i, "entry")
      BY <1>6, <2>2
    <3> QED BY <1>4, <1>7, <3>1
  <2> QED BY <1>3, <2>1, <2>2
<1>9. WireShape(m)
  BY <1>4, <1>5, <1>6 DEF WireShape
<1> QED BY <1>2, <1>4, <1>8, <1>9, OnTheWire DEF o, i

LEMMA Arrived ==
  ASSUME SyncInv, NEW p \in Peers, NEW x, x.t \notin {"entry", "blocks"},
         wire' = [wire EXCEPT ![p].in = Append(@, x)], UNCHANGED << ctx, job >>
  PROVE  SyncInv'
<1> DEFINE w == wire[p]
           m == [w EXCEPT !.in = Append(@, x)]
           i == w.in
<1>1. WireShape(w)
  BY DEF SyncInv, ConnInv
<1>2. wire' = [wire EXCEPT ![p] = m]
  BY DEF SyncInv
<1>3. IsSeq(i) /\ IsSeq(w.out) /\ m.out = w.out /\ m.in = Append(i, x) /\ m.up = w.up
  BY <1>1 DEF WireShape
<1>4. m \in [up : BOOLEAN, out : {m.out}, in : {m.in}]
  BY <1>1 DEF WireShape
<1> HIDE DEF m, i
<1>5. IsSeq(Append(i, x)) /\ Count(Append(i, x), "entry") = Count(i, "entry")
      /\ Count(Append(i, x), "blocks") = Count(i, "blocks")
  <2>1. IsSeq(i)
    BY <1>3
  <2>2. IsSeq(Append(i, x)) /\ \A t : x.t # t => Count(Append(i, x), t) = Count(i, t)
    BY <2>1, CountAppend
  <2> QED BY <2>2
<1>6. WireShape(m)
  BY <1>3, <1>4, <1>5 DEF WireShape
<1> QED BY <1>2, <1>3, <1>5, <1>6, OnTheWire DEF i

LEMMA AnswerStep ==
  ASSUME SyncInv, NEW p \in Peers, Answer(p)
  PROVE  SyncInv'
<1>1. CASE AnswerChain(p)
  <2> DEFINE ids == Head(wire[p].out).ids
             split == CHOOSE i \in DOMAIN ids :
                 InChain(ids[i], peer[p]) /\ \A j \in 1 .. (i - 1) : ~InChain(ids[j], peer[p])
             chain == << Genesis >> \o Path[peer[p]]
             start == Height(ids[split])
             end   == IF start + IdsCount < Len(chain) THEN start + IdsCount ELSE Len(chain)
             x == [t |-> "entry", start |-> start, total |-> Len(chain), ids |-> SubSeq(chain, start + 1, end)]
  <2>1. /\ wire[p].out # << >> /\ Head(wire[p].out).t = "chain" /\ UNCHANGED << ctx, job >>
        /\ wire' = [wire EXCEPT ![p].out = Tail(@), ![p].in = Append(@, x)]
    BY <1>1 DEF AnswerChain
  <2>2. x.t = "entry"
    OBVIOUS
  <2> HIDE DEF x
  <2> QED BY <2>1, <2>2, Delivered
<1>2. CASE AnswerObjects(p)
  <2> DEFINE asked == Head(wire[p].out).blocks
             found == Those(asked, {Genesis} \cup Range(Path[peer[p]]))
             x == [t |-> "blocks", blocks |-> found, height |-> Size(peer[p])]
  <2>1. wire[p].out # << >> /\ Head(wire[p].out).t = "objects" /\ job' = job
    BY <1>2 DEF AnswerObjects
  <2>2. CASE found # << >> /\ Len(found) < Len(asked)
    <3>1. wire' = [wire EXCEPT ![p] = NoWire] /\ ctx' = [ctx EXCEPT ![p] = IF job[p] = NoJob THEN Gone ELSE @]
      BY <1>2, <2>2 DEF AnswerObjects
    <3> QED BY <2>1, <3>1, ConnectionEnds
  <2>3. CASE ~(found # << >> /\ Len(found) < Len(asked))
    <3>1. wire' = [wire EXCEPT ![p].out = Tail(@), ![p].in = Append(@, x)] /\ ctx' = ctx
      BY <1>2, <2>3 DEF AnswerObjects
    <3>2. x.t = "blocks"
      OBVIOUS
    <3> HIDE DEF x
    <3> QED BY <2>1, <3>1, <3>2, Delivered
  <2> QED BY <2>2, <2>3
<1> QED BY <1>1, <1>2 DEF Answer

LEMMA PeerStep ==
  ASSUME SyncInv, NEW p \in Peers,
         \/ Greet(p) \/ LinkLost(p) \/ BlockRefused(p)
         \/ \E b \in Blocks, relay \in BOOLEAN : PeerMoves(p, b, relay)
  PROVE  SyncInv'
<1>0. WireShape(wire[p]) /\ JobShape(job[p]) /\ ConnInv(p)
  BY DEF SyncInv, ConnInv
<1>1. CASE Connect(p)
  <2> DEFINE x == [t |-> "sync", top |-> peer[p], size |-> Size(peer[p])]
             i == << x >>
             m == [up |-> TRUE, out |-> << >>, in |-> i]
  <2>1. wire' = [wire EXCEPT ![p] = m] /\ ctx' = [ctx EXCEPT ![p] = Fresh] /\ job' = job /\ ctx[p] = Gone
    BY <1>1 DEF Connect
  <2>2. job[p] = NoJob /\ job' = [job EXCEPT ![p] = NoJob]
    BY <1>0, <2>1 DEF ConnInv, JobShape, Gone, Fresh, SyncInv
  <2>3. x.t = "sync"
    OBVIOUS
  <2> HIDE DEF x
  <2>4. IsSeq(i) /\ Count(i, "entry") = 0 /\ Count(i, "blocks") = 0
    <3> DEFINE e == << >>
    <3>1. IsSeq(e) /\ (\A type : Count(e, type) = 0) /\ Append(e, x) = i
      BY EmptySeq
    <3> HIDE DEF e, i
    <3>2. /\ IsSeq(Append(e, x))
          /\ \A type : Count(Append(e, x), type) = IF x.t = type THEN Count(e, type) + 1 ELSE Count(e, type)
      BY <3>1, CountAppend
    <3> QED BY <2>3, <3>1, <3>2
  <2>5. WireShape(m) /\ m.up /\ m.out = << >> /\ m.in = i
    BY <2>4, EmptySeq DEF WireShape
  <2> HIDE DEF m, i
  <2>6. /\ Fresh.state = "before" /\ Fresh.callbacks = 0 /\ Fresh.expectChain = 0 /\ Fresh.expectObjects = 0
        /\ Fresh.requested = {} /\ Fresh.needed = << >>
    BY DEF Fresh
  <2>7. Pending(Fresh, m, NoJob) = 0
    BY <2>4, <2>5, <2>6, EmptySeq DEF Pending, NoJob
  <2>8. Agrees(Fresh, m, NoJob)
    BY <2>4, <2>5, <2>6, <2>7, EmptySeq DEF Agrees
  <2> QED BY <2>1, <2>2, <2>5, <2>8, Closed, OneMoves
<1>2. CASE TimedSync(p)
  <2> DEFINE x == [t |-> "sync", top |-> peer[p], size |-> Size(peer[p])]
  <2>1. wire' = [wire EXCEPT ![p].in = Append(@, x)] /\ UNCHANGED << ctx, job >>
    BY <1>2 DEF TimedSync
  <2>2. x.t = "sync"
    OBVIOUS
  <2> HIDE DEF x
  <2> QED BY <2>1, <2>2, Arrived
<1>3. CASE LinkLost(p) \/ BlockRefused(p)
  BY <1>3, ConnectionEnds DEF LinkLost, BlockRefused
<1>4. ASSUME NEW b \in Blocks, NEW relay \in BOOLEAN, PeerMoves(p, b, relay) PROVE SyncInv'
  <2> DEFINE x == [t |-> "new", block |-> b]
  <2>1. UNCHANGED << ctx, job >>
    BY <1>4 DEF PeerMoves
  <2>2. CASE relay /\ wire[p].up
    <3>1. wire' = [wire EXCEPT ![p].in = Append(@, x)]
      BY <1>4, <2>2 DEF PeerMoves
    <3>2. x.t = "new"
      OBVIOUS
    <3> HIDE DEF x
    <3> QED BY <2>1, <3>1, <3>2, Arrived
  <2>3. CASE ~(relay /\ wire[p].up)
    <3>1. wire' = [wire EXCEPT ![p].in = @]
      BY <1>4, <2>3 DEF PeerMoves
    <3>2. [wire[p] EXCEPT !.in = @] = wire[p]
      BY <1>0 DEF WireShape
    <3>3. wire' = [wire EXCEPT ![p] = wire[p]]
      BY <3>1, <3>2 DEF SyncInv
    <3> QED BY <1>0, <2>1, <3>3, OnTheWire
  <2> QED BY <2>2, <2>3
<1> QED BY <1>1, <1>2, <1>3, <1>4 DEF Greet

-----------------------------------------------------------------------------
(* The handlers of the node. *)

LEMMA EndsDown ==
  ASSUME SyncInv, NEW p \in Peers, ~wire[p].up, NEW c, NEW posts, NEW taken, Ends(p, c, posts, taken)
  PROVE  SyncInv'
<1>1. wire' = [wire EXCEPT ![p] = NoWire] /\ ctx' = [ctx EXCEPT ![p] = Gone] /\ job' = [job EXCEPT ![p] = NoJob]
  BY DEF Ends
<1> QED BY <1>1, ConnectionEnds

\* What an invariant connection that is up and takes a message, or not, has to say.
LEMMA Up ==
  ASSUME SyncInv, NEW p \in Peers, wire[p].up, NEW taken \in BOOLEAN, taken => wire[p].in # << >>
  PROVE  /\ WireShape(wire[p]) /\ CtxShape(ctx[p]) /\ JobShape(job[p]) /\ Agrees(ctx[p], wire[p], job[p])
         /\ IsSeq(Rest(wire[p], taken))
         /\ Count(Rest(wire[p], taken), "entry") =
              IF taken /\ Head(wire[p].in).t = "entry" THEN Count(wire[p].in, "entry") - 1 ELSE Count(wire[p].in, "entry")
         /\ Count(Rest(wire[p], taken), "blocks") =
              IF taken /\ Head(wire[p].in).t = "blocks" THEN Count(wire[p].in, "blocks") - 1 ELSE Count(wire[p].in, "blocks")
         /\ Count(wire[p].out, "chain") \in Nat /\ Count(Rest(wire[p], taken), "entry") \in Nat
         /\ Count(wire[p].out, "objects") \in Nat /\ Count(Rest(wire[p], taken), "blocks") \in Nat
<1>1. WireShape(wire[p]) /\ CtxShape(ctx[p]) /\ JobShape(job[p]) /\ Agrees(ctx[p], wire[p], job[p])
  BY DEF SyncInv, ConnInv
<1> DEFINE o == wire[p].out
           i == wire[p].in
           r == Rest(wire[p], taken)
<1>2. IsSeq(o) /\ IsSeq(i) /\ r = (IF taken THEN Tail(i) ELSE i) /\ (taken => i # << >>)
  BY <1>1 DEF WireShape, Rest
<1> HIDE DEF o, i, r
<1>3. IsSeq(r)
  BY <1>2, CountTail
<1>4. Count(r, "entry") \in Nat /\ Count(r, "blocks") \in Nat /\ Count(o, "chain") \in Nat /\ Count(o, "objects") \in Nat
  BY <1>2, <1>3, CountType
<1>5. /\ Count(i, "entry") = IF taken /\ Head(i).t = "entry" THEN Count(r, "entry") + 1 ELSE Count(r, "entry")
      /\ Count(i, "blocks") = IF taken /\ Head(i).t = "blocks" THEN Count(r, "blocks") + 1 ELSE Count(r, "blocks")
  BY <1>2, CountTail
<1>6. /\ Count(r, "entry") = IF taken /\ Head(i).t = "entry" THEN Count(i, "entry") - 1 ELSE Count(i, "entry")
      /\ Count(r, "blocks") = IF taken /\ Head(i).t = "blocks" THEN Count(i, "blocks") - 1 ELSE Count(i, "blocks")
  BY <1>4, <1>5
<1> QED BY <1>1, <1>3, <1>4, <1>6 DEF o, i, r

\* A connection that waits for one thing waits for no other; one that does not
\* synchronise waits for nothing.
LEMMA OnlyOne ==
  ASSUME NEW c, CtxShape(c), NEW m, WireShape(m), NEW j, Agrees(c, m, j)
  PROVE  /\ c.state # "synchronizing" => c.callbacks = 0 /\ j.kind # "add" /\ c.needed = << >>
         /\ c.callbacks > 0 => c.callbacks = 1 /\ c.state = "synchronizing" /\ j.kind # "add"
         /\ j.kind = "add" => c.callbacks = 0 /\ c.state = "synchronizing"
         /\ c.state # "synchronizing" \/ c.callbacks > 0 \/ j.kind = "add" =>
              /\ Count(m.out, "chain") = 0 /\ Count(m.in, "entry") = 0
              /\ Count(m.out, "objects") = 0 /\ Count(m.in, "blocks") = 0
              /\ c.expectChain = 0 /\ c.expectObjects = 0 /\ c.requested = {}
         /\ c.expectChain > 0 =>
              /\ c.expectChain = 1 /\ c.state = "synchronizing" /\ c.callbacks = 0 /\ j.kind # "add"
              /\ c.expectObjects = 0 /\ c.requested = {}
              /\ Count(m.out, "objects") = 0 /\ Count(m.in, "blocks") = 0
              /\ Count(m.in, "entry") > 0 => Count(m.in, "entry") = 1 /\ Count(m.out, "chain") = 0
         /\ c.expectObjects > 0 =>
              /\ c.expectObjects = 1 /\ c.state = "synchronizing" /\ c.callbacks = 0 /\ j.kind # "add"
              /\ c.expectChain = 0
              /\ Count(m.out, "chain") = 0 /\ Count(m.in, "entry") = 0
              /\ Count(m.in, "blocks") > 0 => Count(m.in, "blocks") = 1 /\ Count(m.out, "objects") = 0
<1> DEFINE oc == Count(m.out, "chain")
           ie == Count(m.in, "entry")
           oo == Count(m.out, "objects")
           ib == Count(m.in, "blocks")
           k  == c.callbacks
           ec == c.expectChain
           eo == c.expectObjects
<1>1. oc \in Nat /\ ie \in Nat /\ oo \in Nat /\ ib \in Nat
  BY CountType DEF WireShape
<1>2. k \in Nat /\ ec \in Nat /\ eo \in Nat
  BY DEF CtxShape
<1>3. /\ ec = oc + ie /\ eo = oo + ib
      /\ k + (oc + ie) + (oo + ib) + (IF j.kind = "add" THEN 1 ELSE 0) <= (IF c.state = "synchronizing" THEN 1 ELSE 0)
  BY DEF Agrees, Pending
<1>4. (c.requested # {} => eo = 1) /\ (c.needed # << >> => c.state = "synchronizing")
  BY DEF Agrees
<1> HIDE DEF oc, ie, oo, ib, k, ec, eo
<1>5. /\ c.state # "synchronizing" => k = 0 /\ j.kind # "add" /\ c.needed = << >>
      /\ k > 0 => k = 1 /\ c.state = "synchronizing" /\ j.kind # "add"
      /\ j.kind = "add" => k = 0 /\ c.state = "synchronizing"
      /\ c.state # "synchronizing" \/ k > 0 \/ j.kind = "add" =>
           oc = 0 /\ ie = 0 /\ oo = 0 /\ ib = 0 /\ ec = 0 /\ eo = 0 /\ c.requested = {}
  BY <1>1, <1>2, <1>3, <1>4
<1>6. /\ ec > 0 => /\ ec = 1 /\ c.state = "synchronizing" /\ k = 0 /\ j.kind # "add"
                   /\ eo = 0 /\ c.requested = {} /\ oo = 0 /\ ib = 0 /\ (ie > 0 => ie = 1 /\ oc = 0)
      /\ eo > 0 => /\ eo = 1 /\ c.state = "synchronizing" /\ k = 0 /\ j.kind # "add"
                   /\ ec = 0 /\ oc = 0 /\ ie = 0 /\ (ib > 0 => ib = 1 /\ oo = 0)
  BY <1>1, <1>2, <1>3, <1>4
<1> QED BY <1>5, <1>6 DEF oc, ie, oo, ib, k, ec, eo

\* Agreement where the wire is quiet.
LEMMA QuietAgrees ==
  ASSUME NEW c, CtxShape(c), NEW m, NEW j, c.state # "closed",
         Count(m.out, "chain") = 0, Count(m.in, "entry") = 0,
         Count(m.out, "objects") = 0, Count(m.in, "blocks") = 0,
         c.expectChain = 0, c.expectObjects = 0, c.requested = {},
         c.needed # << >> => c.state = "synchronizing",
         c.callbacks = IF c.state = "synchronizing" /\ j.kind # "add" THEN 1 ELSE 0,
         j.kind = "add" => c.state = "synchronizing"
  PROVE  Agrees(c, m, j)
<1>1. Pending(c, m, j) = IF c.state = "synchronizing" THEN 1 ELSE 0
  BY DEF Pending
<1> QED BY <1>1 DEF Agrees

LEMMA HandleSyncStep ==
  ASSUME SyncInv, NEW p \in Peers, HandleSync(p)
  PROVE  SyncInv'
<1> DEFINE c == ctx[p]
           m == wire[p]
           none == << >>
<1>0. m.up /\ job[p] = NoJob /\ m.in # << >> /\ Head(m.in).t = "sync"
  BY DEF HandleSync, Receives
<1>1. /\ WireShape(m) /\ CtxShape(c) /\ Agrees(c, m, NoJob)
      /\ IsSeq(Rest(m, TRUE))
      /\ Count(Rest(m, TRUE), "entry") = Count(m.in, "entry")
      /\ Count(Rest(m, TRUE), "blocks") = Count(m.in, "blocks")
      /\ Count(m.out, "chain") \in Nat /\ Count(m.in, "entry") \in Nat
      /\ Count(m.out, "objects") \in Nat /\ Count(m.in, "blocks") \in Nat
  BY <1>0, Up
<1> DEFINE a == After(m, none, TRUE)
<1>2. a.out = m.out /\ a.in = Rest(m, TRUE)
  BY <1>1, Posted DEF After, Rest, WireShape
<1>3. WireShape(a)
  <2>1. IsSeq(m.out \o none)
    BY <1>1, Posted DEF WireShape
  <2> HIDE DEF none
  <2> QED BY <1>0, <1>1, <2>1, AfterShape
<1>4. CASE c.state = "synchronizing"
  <2>1. Ends(p, c, none, TRUE)
    BY <1>4 DEF HandleSync
  <2>2. Agrees(c, a, NoJob)
    <3> HIDE DEF a
    <3> QED BY <1>1, <1>2 DEF Agrees, Pending
  <2> QED BY <1>1, <1>3, <2>1, <2>2, HandlerEnds
<1>5. CASE c.state # "synchronizing"
  <2>0. Quiet(c, m, TRUE) /\ c.needed = << >>
    <3> HIDE DEF c, m
    <3> QED BY <1>1, <1>5, OnlyOne DEF Quiet
  <2> DEFINE n == [c EXCEPT !.state = "normal"]
             k == Head(m.in).size
             z == c.callbacks + 1
             s == [c EXCEPT !.state = "synchronizing", !.remoteSize = k, !.fetched = << >>, !.callbacks = z]
  <2>1. Ends(p, n, none, TRUE) \/ Ends(p, s, none, TRUE)
    BY <1>5 DEF HandleSync
  <2>2. /\ CtxShape(n) /\ n.state = "normal" /\ n.needed = c.needed /\ n.requested = c.requested
        /\ n.callbacks = c.callbacks /\ n.expectChain = c.expectChain /\ n.expectObjects = c.expectObjects
    BY <1>1 DEF CtxShape
  <2>3. WireShape(a) /\ Agrees(n, a, NoJob)
    <3> HIDE DEF n
    <3>1. Quiet(n, m, TRUE)
      BY <2>0, <2>2 DEF Quiet
    <3> QED BY <1>0, <1>1, <2>0, <2>2, <3>1, PostsNothing
  <2>4. z \in Nat
    BY <1>1 DEF CtxShape
  <2>5. z = 1
    BY <2>0 DEF Quiet
  <2> HIDE DEF z, k
  <2>6. /\ CtxShape(s) /\ s.state = "synchronizing" /\ s.needed = c.needed /\ s.requested = c.requested
        /\ s.callbacks = z /\ s.expectChain = c.expectChain /\ s.expectObjects = c.expectObjects
    BY <1>1, <2>4 DEF CtxShape
  <2> HIDE DEF s, n, a
  <2>8. Agrees(s, a, NoJob)
    BY <1>2, <2>0, <2>5, <2>6, Closed, QuietAgrees DEF Quiet
  <2> QED BY <1>3, <2>1, <2>2, <2>3, <2>6, <2>8, HandlerEnds DEF a
<1> QED BY <1>4, <1>5

LEMMA OnCallbackStep ==
  ASSUME SyncInv, NEW p \in Peers, OnCallback(p)
  PROVE  SyncInv'
<1> DEFINE b == ctx[p]
           m == wire[p]
           z == b.callbacks - 1
           c == [b EXCEPT !.callbacks = z]
           r == Asking(c, ShortHistory(Path[top]))
<1>0. m.up /\ job[p] = NoJob /\ b.callbacks > 0
  BY DEF OnCallback
<1>1. /\ WireShape(m) /\ CtxShape(b) /\ Agrees(b, m, NoJob)
      /\ Count(Rest(m, FALSE), "entry") = Count(m.in, "entry")
      /\ Count(Rest(m, FALSE), "blocks") = Count(m.in, "blocks")
      /\ Count(m.out, "chain") \in Nat /\ Count(m.in, "entry") \in Nat
      /\ Count(m.out, "objects") \in Nat /\ Count(m.in, "blocks") \in Nat
  BY <1>0, Up
<1>2. z \in Nat
  BY <1>0, <1>1 DEF CtxShape
<1>3. b.callbacks = 1 /\ b.state = "synchronizing" /\ z = 0
      /\ Count(m.out, "chain") = 0 /\ Count(m.in, "entry") = 0
      /\ Count(m.out, "objects") = 0 /\ Count(m.in, "blocks") = 0
      /\ b.expectChain = 0 /\ b.expectObjects = 0 /\ b.requested = {}
  <2> HIDE DEF b, m
  <2> QED BY <1>0, <1>1, OnlyOne
<1> HIDE DEF z
<1>4. /\ CtxShape(c) /\ c.state = b.state /\ c.callbacks = z /\ c.expectChain = b.expectChain
      /\ c.expectObjects = b.expectObjects /\ c.requested = b.requested
  BY <1>1, <1>2 DEF CtxShape
<1>5. Ends(p, r[1], r[2], FALSE)
  BY <1>3, <1>4 DEF OnCallback, z
<1>6. AskedChain(c, r)
  <2> HIDE DEF c
  <2> QED BY <1>4, AskingCounts
<1> HIDE DEF c, r
<1>7. Quiet(c, m, FALSE)
  BY <1>1, <1>3, <1>4 DEF Quiet
<1>8. CtxShape(r[1]) /\ WireShape(After(m, r[2], FALSE)) /\ Agrees(r[1], After(m, r[2], FALSE), NoJob)
  BY <1>1, <1>3, <1>4, <1>6, <1>7, AskingAgrees
<1> QED BY <1>5, <1>8, HandlerEnds

LEMMA HandleChainEntryStep ==
  ASSUME SyncInv, NEW p \in Peers, NEW lim, HandleChainEntry(p, lim)
  PROVE  SyncInv'
<1>0. CASE Drop(p)
  BY <1>0, ConnectionEnds DEF Drop
<1> DEFINE b == ctx[p]
           m == wire[p]
           msg == Head(m.in)
           z == b.expectChain - 1
           c0 == [b EXCEPT !.expectChain = z]
           old == IF FetchedSize(c0) # msg.start THEN << >> ELSE c0.fetched
           v1 == msg.total
           v2 == msg.start + Len(msg.ids) - 1
           v3 == old \o Those(msg.ids, Blocks \ {Genesis})
           v4 == c0.needed \o Those(msg.ids, Blocks \ known)
           c == [c0 EXCEPT !.remoteSize = v1, !.lastResponse = v2, !.fetched = v3, !.needed = v4]
           r == RequestMissing(c, FALSE, lim)
<1>1. CASE b.expectChain # 0 /\ Ends(p, r[1], r[2], TRUE)
  <2>0. m.up /\ job[p] = NoJob /\ m.in # << >> /\ Head(m.in).t = "entry"
    BY DEF HandleChainEntry, Receives
  <2>1. /\ WireShape(m) /\ CtxShape(b) /\ Agrees(b, m, NoJob)
        /\ Count(Rest(m, TRUE), "entry") = Count(m.in, "entry") - 1
        /\ Count(Rest(m, TRUE), "blocks") = Count(m.in, "blocks")
        /\ Count(m.in, "entry") > 0
    <3>1. Count(Rest(m, TRUE), "entry") \in Nat /\ Count(Rest(m, TRUE), "entry") = Count(m.in, "entry") - 1
      BY <2>0, Up
    <3>2. Count(m.in, "entry") \in Nat
      BY <2>0, Up, CountType DEF WireShape
    <3>4. Count(m.in, "entry") > 0
      <4> DEFINE x == Count(Rest(m, TRUE), "entry")
                 y == Count(m.in, "entry")
      <4>1. x \in Nat /\ x = y - 1 /\ y \in Nat
        BY <3>1, <3>2
      <4> HIDE DEF x, y
      <4>2. y > 0
        BY <4>1
      <4> QED BY <4>2 DEF y
    <3>3. /\ WireShape(m) /\ CtxShape(b) /\ Agrees(b, m, NoJob)
          /\ Count(Rest(m, TRUE), "blocks") = Count(m.in, "blocks")
      BY <2>0, Up
    <3> HIDE DEF m, b
    <3> QED BY <3>1, <3>3, <3>4
  <2>2. /\ b.expectChain = 1 /\ b.state = "synchronizing" /\ b.callbacks = 0
        /\ b.expectObjects = 0 /\ b.requested = {}
        /\ Count(m.out, "objects") = 0 /\ Count(m.in, "blocks") = 0
        /\ Count(m.in, "entry") = 1 /\ Count(m.out, "chain") = 0
    <3> HIDE DEF b, m
    <3>1. b.expectChain > 0
      BY <1>1, <2>1 DEF CtxShape
    <3> QED BY <2>1, <3>1, OnlyOne
  <2>3. z = 0 /\ z \in Nat
    BY <2>2
  <2> HIDE DEF z
  <2>4. /\ CtxShape(c0) /\ c0.expectChain = z /\ c0.state = b.state /\ c0.callbacks = b.callbacks
        /\ c0.expectObjects = b.expectObjects /\ c0.requested = b.requested
    BY <2>1, <2>3 DEF CtxShape
  <2> HIDE DEF c0, v1, v2, v3, v4
  <2>5. /\ CtxShape(c) /\ c.expectChain = c0.expectChain /\ c.state = c0.state /\ c.callbacks = c0.callbacks
        /\ c.expectObjects = c0.expectObjects /\ c.requested = c0.requested
    BY <2>4 DEF CtxShape
  <2> HIDE DEF c
  <2>6. Quiet(c, m, TRUE) /\ c.state = "synchronizing"
    <3>1. Count(Rest(m, TRUE), "entry") = 0 /\ Count(Rest(m, TRUE), "blocks") = 0
      <4> DEFINE x == Count(Rest(m, TRUE), "entry")
                 y == Count(m.in, "entry")
      <4>1. x = y - 1 /\ y = 1
        BY <2>1, <2>2
      <4> HIDE DEF x, y
      <4>2. x = 0
        BY <4>1
      <4> QED BY <2>1, <2>2, <4>2 DEF x
    <3> HIDE DEF m, b
    <3> QED BY <2>2, <2>3, <2>4, <2>5, <3>1 DEF Quiet
  <2>7. CtxShape(r[1]) /\ WireShape(After(m, r[2], TRUE)) /\ Agrees(r[1], After(m, r[2], TRUE), NoJob)
    BY <2>0, <2>1, <2>5, <2>6, RequestAgrees
  <2> HIDE DEF r
  <2> QED BY <1>1, <2>7, HandlerEnds
<1>2. Drop(p) \/ (b.expectChain # 0 /\ Ends(p, r[1], r[2], TRUE))
  BY DEF HandleChainEntry
<1> QED BY <1>0, <1>1, <1>2

LEMMA HandleObjectsStep ==
  ASSUME SyncInv, NEW p \in Peers, HandleObjects(p)
  PROVE  SyncInv'
<1>0. CASE Drop(p)
  BY <1>0, ConnectionEnds DEF Drop
<1> DEFINE b == ctx[p]
           m == wire[p]
           msg == Head(m.in)
           z == b.expectObjects - 1
           v == msg.height
           c == [b EXCEPT !.expectObjects = z, !.remoteSize = v, !.requested = {}]
           d == [c EXCEPT !.state = "idle", !.needed = << >>]
           j == [kind |-> "add", blocks |-> msg.blocks, count |-> 0]
           rest == Tail(m.in)
           n == [m EXCEPT !.in = rest]
           none == << >>
<1>1. CASE /\ b.expectObjects # 0
           /\ \/ Ends(p, d, none, TRUE)
              \/ /\ ctx' = [ctx EXCEPT ![p] = c] /\ wire' = [wire EXCEPT ![p].in = Tail(@)]
                 /\ job' = [job EXCEPT ![p] = j]
  <2>0. m.up /\ job[p] = NoJob /\ m.in # << >> /\ Head(m.in).t = "blocks"
    BY DEF HandleObjects, Receives
  <2>1. /\ WireShape(m) /\ CtxShape(b) /\ Agrees(b, m, NoJob) /\ IsSeq(Rest(m, TRUE))
        /\ Count(Rest(m, TRUE), "blocks") = Count(m.in, "blocks") - 1
        /\ Count(Rest(m, TRUE), "entry") = Count(m.in, "entry")
        /\ Count(m.in, "blocks") > 0
    <3>1. Count(Rest(m, TRUE), "blocks") \in Nat /\ Count(Rest(m, TRUE), "blocks") = Count(m.in, "blocks") - 1
      BY <2>0, Up
    <3>2. Count(m.in, "blocks") \in Nat
      BY <2>0, Up, CountType DEF WireShape
    <3>4. Count(m.in, "blocks") > 0
      <4> DEFINE x == Count(Rest(m, TRUE), "blocks")
                 y == Count(m.in, "blocks")
      <4>1. x \in Nat /\ x = y - 1 /\ y \in Nat
        BY <3>1, <3>2
      <4> HIDE DEF x, y
      <4>2. y > 0
        BY <4>1
      <4> QED BY <4>2 DEF y
    <3>3. /\ WireShape(m) /\ CtxShape(b) /\ Agrees(b, m, NoJob) /\ IsSeq(Rest(m, TRUE))
          /\ Count(Rest(m, TRUE), "entry") = Count(m.in, "entry")
      BY <2>0, Up
    <3> HIDE DEF m, b
    <3> QED BY <3>1, <3>3, <3>4
  <2>2. /\ b.expectObjects = 1 /\ b.state = "synchronizing" /\ b.callbacks = 0 /\ b.expectChain = 0
        /\ Count(m.out, "chain") = 0 /\ Count(m.in, "entry") = 0
        /\ Count(m.in, "blocks") = 1 /\ Count(m.out, "objects") = 0
    <3> HIDE DEF b, m
    <3>1. b.expectObjects > 0
      BY <1>1, <2>1 DEF CtxShape
    <3> QED BY <2>1, <3>1, OnlyOne
  <2>3. z = 0 /\ z \in Nat
    BY <2>2
  <2> HIDE DEF z, v
  <2>4. /\ CtxShape(c) /\ c.expectObjects = z /\ c.state = b.state /\ c.callbacks = b.callbacks
        /\ c.expectChain = b.expectChain /\ c.requested = {}
    BY <2>1, <2>3 DEF CtxShape
  <2> HIDE DEF c
  <2>5. /\ CtxShape(d) /\ d.expectObjects = c.expectObjects /\ d.state = "idle" /\ d.callbacks = c.callbacks
        /\ d.expectChain = c.expectChain /\ d.requested = c.requested /\ d.needed = << >>
    BY <2>4 DEF CtxShape
  <2>8. Count(Rest(m, TRUE), "entry") = 0 /\ Count(Rest(m, TRUE), "blocks") = 0
    <3> DEFINE x == Count(Rest(m, TRUE), "blocks")
               y == Count(m.in, "blocks")
    <3>1. x = y - 1 /\ y = 1
      BY <2>1, <2>2
    <3> HIDE DEF x, y
    <3>2. x = 0
      BY <3>1
    <3> QED BY <2>1, <2>2, <3>2 DEF x
  <2>6. CASE Ends(p, d, none, TRUE)
    <3> HIDE DEF d
    <3>1. Quiet(d, m, TRUE)
      <4> HIDE DEF m, b
      <4> QED BY <2>2, <2>3, <2>4, <2>5, <2>8 DEF Quiet
    <3>2. WireShape(After(m, none, TRUE)) /\ Agrees(d, After(m, none, TRUE), NoJob)
      BY <2>0, <2>1, <2>5, <3>1, PostsNothing
    <3> QED BY <2>5, <2>6, <3>2, HandlerEnds
  <2>7. CASE /\ ctx' = [ctx EXCEPT ![p] = c] /\ wire' = [wire EXCEPT ![p].in = Tail(@)]
             /\ job' = [job EXCEPT ![p] = j]
    <3>1. wire' = [wire EXCEPT ![p] = n]
      BY <2>7 DEF SyncInv
    <3>2. rest = Rest(m, TRUE)
      BY DEF Rest
    <3> HIDE DEF rest
    <3>3. n.out = m.out /\ n.in = rest /\ n \in [up : BOOLEAN, out : {n.out}, in : {n.in}]
      BY <2>1 DEF WireShape
    <3>4. j.kind = "add" /\ JobShape(j)
      BY DEF JobShape, NoJob
    <3> HIDE DEF n, j
    <3>5. WireShape(n)
      BY <2>1, <3>2, <3>3 DEF WireShape
    <3>6. Agrees(c, n, j)
      <4>1. /\ Count(n.out, "chain") = 0 /\ Count(n.in, "entry") = 0
            /\ Count(n.out, "objects") = 0 /\ Count(n.in, "blocks") = 0
        BY <2>2, <2>8, <3>2, <3>3
      <4>2. /\ c.expectChain = 0 /\ c.expectObjects = 0 /\ c.requested = {} /\ c.callbacks = 0
            /\ c.state = "synchronizing"
        BY <2>2, <2>3, <2>4
      <4> QED BY <2>4, <3>4, <4>1, <4>2, QuietAgrees
    <3> QED BY <2>2, <2>4, <2>7, <3>1, <3>4, <3>5, <3>6, OneMoves
  <2> QED BY <1>1, <2>6, <2>7
<1>2. \/ Drop(p)
      \/ /\ b.expectObjects # 0
         /\ \/ Ends(p, d, none, TRUE)
            \/ /\ ctx' = [ctx EXCEPT ![p] = c] /\ wire' = [wire EXCEPT ![p].in = Tail(@)]
               /\ job' = [job EXCEPT ![p] = j]
  BY DEF HandleObjects
<1> QED BY <1>0, <1>1, <1>2

LEMMA AddReceivedStep ==
  ASSUME SyncInv, NEW p \in Peers, AddReceived(p)
  PROVE  SyncInv'
<1> DEFINE c == ctx[p]
           m == wire[p]
           d == [c EXCEPT !.state = "idle", !.needed = << >>, !.requested = {}]
           j == [job[p] EXCEPT !.blocks = Tail(@), !.count = @ + 1]
           none == << >>
<1>0. ConnInv(p) /\ CtxShape(c) /\ WireShape(m) /\ JobShape(job[p]) /\ job[p].kind = "add"
  BY DEF AddReceived, SyncInv, ConnInv
<1>1. CASE Ends(p, d, none, FALSE)
  <2>1. CASE m.up
    <3>1. /\ CtxShape(d) /\ d.expectObjects = c.expectObjects /\ d.state = "idle" /\ d.callbacks = c.callbacks
          /\ d.expectChain = c.expectChain /\ d.requested = {} /\ d.needed = << >>
      BY <1>0 DEF CtxShape
    <3>2. Agrees(c, m, job[p]) /\ Rest(m, FALSE) = m.in
      BY <1>0, <2>1 DEF ConnInv, Rest
    <3> HIDE DEF c, m, d
    <3>3. Quiet(d, m, FALSE)
      <4>1. /\ c.callbacks = 0 /\ c.expectChain = 0 /\ c.expectObjects = 0
            /\ Count(m.out, "chain") = 0 /\ Count(m.in, "entry") = 0
            /\ Count(m.out, "objects") = 0 /\ Count(m.in, "blocks") = 0
        BY <1>0, <3>2, OnlyOne
      <4> QED BY <3>1, <3>2, <4>1 DEF Quiet
    <3>4. WireShape(After(m, none, FALSE)) /\ Agrees(d, After(m, none, FALSE), NoJob)
      BY <1>0, <3>1, <3>3, PostsNothing
    <3> QED BY <1>1, <3>1, <3>4, HandlerEnds DEF m
  <2>2. CASE ~m.up
    BY <1>1, <2>2, EndsDown
  <2> QED BY <2>1, <2>2
<1>2. CASE job' = [job EXCEPT ![p].blocks = Tail(@), ![p].count = @ + 1] /\ UNCHANGED << ctx, wire >>
  <2>1. job' = [job EXCEPT ![p] = j] /\ ctx' = [ctx EXCEPT ![p] = c] /\ wire' = [wire EXCEPT ![p] = m]
    BY <1>2 DEF SyncInv
  <2>2. j.kind = "add" /\ JobShape(j)
    BY <1>0 DEF JobShape, NoJob
  <2> HIDE DEF j
  <2>3. m.up => Agrees(c, m, j)
    BY <1>0, <2>2 DEF ConnInv, Agrees, Pending
  <2> QED BY <1>0, <2>1, <2>2, <2>3, OneMoves DEF ConnInv
<1>3. CASE Drop(p)
  BY <1>3, ConnectionEnds DEF Drop
<1> QED BY <1>1, <1>2, <1>3 DEF AddReceived

LEMMA ObjectsAddedStep ==
  ASSUME SyncInv, NEW p \in Peers, NEW lim, ObjectsAdded(p, lim)
  PROVE  SyncInv'
<1> DEFINE c == ctx[p]
           m == wire[p]
           r == RequestMissing(c, TRUE, lim)
<1>0. /\ ConnInv(p) /\ CtxShape(c) /\ WireShape(m) /\ JobShape(job[p]) /\ job[p].kind = "add"
      /\ Ends(p, r[1], r[2], FALSE)
  BY DEF ObjectsAdded, SyncInv, ConnInv
<1>1. CASE m.up
  <2>1. Agrees(c, m, job[p]) /\ Rest(m, FALSE) = m.in
    BY <1>0, <1>1 DEF ConnInv, Rest
  <2> HIDE DEF c, m
  <2>2. Quiet(c, m, FALSE) /\ c.state = "synchronizing"
    <3>1. /\ c.callbacks = 0 /\ c.state = "synchronizing"
          /\ Count(m.out, "chain") = 0 /\ Count(m.in, "entry") = 0
          /\ Count(m.out, "objects") = 0 /\ Count(m.in, "blocks") = 0
          /\ c.expectChain = 0 /\ c.expectObjects = 0 /\ c.requested = {}
      <4> DEFINE j == job[p]
      <4>1. CtxShape(c) /\ WireShape(m) /\ Agrees(c, m, j) /\ j.kind = "add"
        BY <1>0, <2>1
      <4> HIDE DEF j
      <4> QED BY <4>1, OnlyOne
    <3> QED BY <2>1, <3>1 DEF Quiet
  <2>3. CtxShape(r[1]) /\ WireShape(After(m, r[2], FALSE)) /\ Agrees(r[1], After(m, r[2], FALSE), NoJob)
    BY <1>0, <2>2, RequestAgrees
  <2> HIDE DEF r
  <2> QED BY <1>0, <2>3, HandlerEnds DEF m
<1>2. CASE ~m.up
  <2> HIDE DEF r
  <2> QED BY <1>0, <1>2, EndsDown
<1> QED BY <1>1, <1>2

LEMMA HandleNewBlockStep ==
  ASSUME SyncInv, NEW p \in Peers, HandleNewBlock(p)
  PROVE  SyncInv'
<1> DEFINE b == Head(wire[p].in).block
           c == ctx[p]
           m == wire[p]
           mine == c.state = "normal" /\ b \notin que /\ ~Have(b)
           j == IF mine THEN [kind |-> "new", blocks |-> << b >>, count |-> 0] ELSE NoJob
           rest == Tail(m.in)
           n == [m EXCEPT !.in = rest]
<1>0. m.up /\ job[p] = NoJob /\ m.in # << >> /\ Head(m.in).t = "new"
  BY DEF HandleNewBlock, Receives
<1>1. wire' = [wire EXCEPT ![p] = n] /\ ctx' = [ctx EXCEPT ![p] = c] /\ job' = [job EXCEPT ![p] = j]
  BY <1>0 DEF HandleNewBlock, SyncInv
<1>2. /\ WireShape(m) /\ CtxShape(c) /\ Agrees(c, m, NoJob) /\ IsSeq(Rest(m, TRUE))
      /\ Count(Rest(m, TRUE), "blocks") = Count(m.in, "blocks")
      /\ Count(Rest(m, TRUE), "entry") = Count(m.in, "entry")
  BY <1>0, Up
<1>3. rest = Rest(m, TRUE)
  BY DEF Rest
<1>4. (j.kind = "new" /\ c.state = "normal") \/ j = NoJob
  OBVIOUS
<1>5. JobShape(j) /\ j.kind # "add"
  BY DEF JobShape, NoJob
<1> HIDE DEF rest
<1>6. n.out = m.out /\ n.in = rest /\ n \in [up : BOOLEAN, out : {n.out}, in : {n.in}]
  BY <1>2 DEF WireShape
<1> HIDE DEF n, j
<1>7. WireShape(n)
  BY <1>2, <1>3, <1>6 DEF WireShape
<1>8. Agrees(c, n, j)
  <2>1. NoJob.kind # "add"
    BY DEF NoJob
  <2> QED BY <1>2, <1>3, <1>5, <1>6, <2>1 DEF Agrees, Pending
<1>9. j.kind # "none" => c.state # "closed"
  BY <1>2 DEF Agrees
<1>10. j.kind = "new" => c.state = "normal"
  BY <1>4, Closed
<1> QED BY <1>1, <1>2, <1>5, <1>7, <1>8, <1>9, <1>10, OneMoves

LEMMA AddNotifiedStep ==
  ASSUME SyncInv, NEW p \in Peers, AddNotified(p)
  PROVE  SyncInv'
<1> DEFINE c == ctx[p]
           m == wire[p]
           d == [c EXCEPT !.state = "synchronizing", !.fetched = << >>]
           r == Asking(d, ShortHistory(Path[top]))
           none == << >>
<1>0. /\ ConnInv(p) /\ CtxShape(c) /\ WireShape(m) /\ JobShape(job[p]) /\ job[p].kind = "new" /\ c.state = "normal"
      /\ Ends(p, c, none, FALSE) \/ Ends(p, r[1], r[2], FALSE)
  BY DEF AddNotified, SyncInv, ConnInv
<1>1. CASE m.up
  <2>1. Agrees(c, m, job[p]) /\ Rest(m, FALSE) = m.in
    BY <1>0, <1>1 DEF ConnInv, Rest
  <2>2. /\ CtxShape(d) /\ d.expectObjects = c.expectObjects /\ d.state = "synchronizing" /\ d.callbacks = c.callbacks
        /\ d.expectChain = c.expectChain /\ d.requested = c.requested
    BY <1>0 DEF CtxShape
  <2> HIDE DEF c, m, d
  <2>3. Quiet(c, m, FALSE) /\ c.needed = << >>
    BY <1>0, <2>1, OnlyOne DEF Quiet
  <2>4. Quiet(d, m, FALSE)
    BY <2>2, <2>3 DEF Quiet
  <2>5. CASE Ends(p, c, none, FALSE)
    <3>1. WireShape(After(m, none, FALSE)) /\ Agrees(c, After(m, none, FALSE), NoJob)
      BY <1>0, <2>3, PostsNothing
    <3> QED BY <1>0, <2>5, <3>1, HandlerEnds DEF m
  <2>6. CASE Ends(p, r[1], r[2], FALSE)
    <3>1. AskedChain(d, r)
      BY <2>2, AskingCounts
    <3> HIDE DEF r
    <3>2. CtxShape(r[1]) /\ WireShape(After(m, r[2], FALSE)) /\ Agrees(r[1], After(m, r[2], FALSE), NoJob)
      BY <1>0, <2>2, <2>4, <3>1, AskingAgrees
    <3> QED BY <2>6, <3>2, HandlerEnds DEF m
  <2> QED BY <1>0, <2>5, <2>6
<1>2. CASE ~m.up
  <2> HIDE DEF r, c
  <2> QED BY <1>0, <1>2, EndsDown
<1> QED BY <1>1, <1>2

-----------------------------------------------------------------------------
(* Numbers. *)

\* A set of natural numbers has a smallest element: the intervals 1..m are well
\* founded under strict inclusion.
LEMMA LeastElement ==
  ASSUME NEW T \in SUBSET Nat, T # {}
  PROVE  \E m \in T : \A k \in T : ~(k < m)
<1> DEFINE F == { 1..m : m \in T }
<1>1. \A m \in T : 1..m \in FiniteSubsetsOf(Nat)
  <2> TAKE m \in T
  <2>1. IsFiniteSet(1..m) /\ 1..m \subseteq Nat
    BY FS_Interval
  <2> QED BY <2>1 DEF FiniteSubsetsOf
<1>2. F \subseteq FiniteSubsetsOf(Nat) /\ F # {}
  BY <1>1
<1> DEFINE R == StrictSubsetOrdering(Nat)
<1>3. IsWellFoundedOn(R, FiniteSubsetsOf(Nat))
  BY FS_StrictSubsetOrderingWellFounded
<1>4. PICK X \in F : \A Y \in F : ~(<< Y, X >> \in R)
  <2> HIDE DEF F, R
  <2> QED BY <1>2, <1>3, WFMin
<1>5. PICK m \in T : X = 1..m
  OBVIOUS
<1>6. ASSUME NEW k \in T, k < m PROVE FALSE
  <2>1. 1..k \in F /\ 1..k \subseteq Nat /\ 1..m \subseteq Nat
    OBVIOUS
  <2>2. \A i \in 1..k : i \in 1..m
    BY <1>6
  <2>3. m \in 1..m /\ m \notin 1..k
    BY <1>6
  <2>4. 1..k \subseteq 1..m /\ 1..k # 1..m
    BY <2>2, <2>3
  <2> DEFINE x == 1..k
  <2> DEFINE y == 1..m
  <2>5. << x, y >> \in R
    <3>1. x \subseteq Nat /\ y \subseteq Nat /\ x \subseteq y /\ x # y
      BY <2>1, <2>4
    <3> HIDE DEF x, y
    <3> QED BY <3>1 DEF StrictSubsetOrdering
  <2> QED BY <1>4, <1>5, <2>1, <2>5
<1> QED BY <1>6

\* Induction, for a set of natural numbers.
LEMMA NatSetInduction ==
  ASSUME NEW S, 0 \in S, \A n \in Nat : n \in S => n + 1 \in S
  PROVE  Nat \subseteq S
<1> SUFFICES ASSUME NEW x \in Nat, x \notin S PROVE FALSE
  OBVIOUS
<1> DEFINE T == Nat \ S
<1>1. T \in SUBSET Nat /\ T # {}
  OBVIOUS
<1>2. PICK m \in T : \A k \in T : ~(k < m)
  <2> HIDE DEF T
  <2> QED BY <1>1, LeastElement
<1>3. m \in Nat /\ m # 0 /\ m \notin S
  OBVIOUS
<1>4. m - 1 \in Nat /\ m - 1 < m /\ (m - 1) + 1 = m
  BY <1>3
<1>5. m - 1 \in S
  BY <1>2, <1>4
<1> QED BY <1>3, <1>4, <1>5
-----------------------------------------------------------------------------
(* Path: the recursive definition has a solution, since weights decrease.  *)

PathEquation(f, b) == f[b] = IF b = Genesis THEN << >> ELSE Append(f[Parent[b]], b)
Lighter(n) == { b \in Blocks : Weight[b] < n }

LEMMA ParentFacts ==
  ASSUME NEW b \in Blocks \ {Genesis}
  PROVE  Parent[b] \in Blocks /\ Weight[b] \in Nat /\ Weight[Parent[b]] \in Nat /\ Weight[Parent[b]] < Weight[b]
<1>1. Parent[b] \in Blocks
  BY TreeAssumption
<1> QED BY <1>1, TreeAssumption

LEMMA PathUpTo ==
  ASSUME NEW n \in Nat
  PROVE  \E f \in [Lighter(n) -> Seq(Blocks)] : \A b \in Lighter(n) : PathEquation(f, b)
<1> DEFINE S == { m \in Nat : \E f \in [Lighter(m) -> Seq(Blocks)] : \A b \in Lighter(m) : PathEquation(f, b) }
<1>1. 0 \in S
  <2>1. Lighter(0) = {}
    BY TreeAssumption DEF Lighter
  <2>2. [b \in Lighter(0) |-> << >>] \in [Lighter(0) -> Seq(Blocks)]
    BY <2>1
  <2> QED BY <2>1, <2>2
<1>2. ASSUME NEW m \in Nat, m \in S PROVE m + 1 \in S
  <2>1. PICK f \in [Lighter(m) -> Seq(Blocks)] : \A b \in Lighter(m) : PathEquation(f, b)
    BY <1>2
  <2> DEFINE g == [b \in Lighter(m + 1) |-> IF b = Genesis THEN << >> ELSE Append(f[Parent[b]], b)]
  <2>2. ASSUME NEW b \in Lighter(m + 1), b # Genesis
        PROVE  Parent[b] \in Lighter(m) /\ Parent[b] \in Lighter(m + 1) /\ b \in Blocks /\ f[Parent[b]] \in Seq(Blocks)
    <3>1. b \in Blocks \ {Genesis} /\ Weight[b] < m + 1
      BY <2>2 DEF Lighter
    <3>2. Parent[b] \in Blocks /\ Weight[Parent[b]] < m /\ Weight[Parent[b]] < m + 1
      BY <3>1, ParentFacts
    <3> QED BY <3>1, <3>2 DEF Lighter
  <2>3. g \in [Lighter(m + 1) -> Seq(Blocks)]
    BY <2>2
  <2>4. \A b \in Lighter(m) : g[b] = f[b] /\ b \in Lighter(m + 1)
    <3> TAKE b \in Lighter(m)
    <3>1. b \in Lighter(m + 1)
      BY TreeAssumption DEF Lighter
    <3> QED BY <2>1, <3>1 DEF PathEquation
  <2>5. ASSUME NEW b \in Lighter(m + 1) PROVE PathEquation(g, b)
    <3>1. CASE b = Genesis
      BY <3>1 DEF PathEquation
    <3>2. CASE b # Genesis
      <4>1. g[Parent[b]] = f[Parent[b]]
        BY <2>2, <2>4, <3>2
      <4> QED BY <3>2, <4>1 DEF PathEquation
    <3> QED BY <3>1, <3>2
  <2> HIDE DEF g
  <2> QED BY <2>3, <2>5
<1> HIDE DEF S
<1>3. Nat \subseteq S
  BY <1>1, <1>2, NatSetInduction
<1>4. n \in S
  BY <1>3
<1> QED BY <1>4 DEF S

PathOver(f, n) == \A b \in Lighter(n) : PathEquation(f, b)

LEMMA PathUnique ==
  ASSUME NEW n \in Nat, NEW m \in Nat, NEW f, PathOver(f, n), NEW g, PathOver(g, m),
         NEW b \in Blocks, Weight[b] < n, Weight[b] < m
  PROVE  f[b] = g[b]
<1> DEFINE T == { k \in Nat : \E c \in Blocks : Weight[c] = k /\ k < n /\ k < m /\ f[c] # g[c] }
<1> SUFFICES ASSUME f[b] # g[b] PROVE FALSE
  OBVIOUS
<1>1. T \in SUBSET Nat /\ Weight[b] \in T
  BY TreeAssumption
<1>2. PICK k \in T : \A j \in T : ~(j < k)
  <2> HIDE DEF T
  <2> QED BY <1>1, LeastElement
<1>3. PICK c \in Blocks : Weight[c] = k /\ k < n /\ k < m /\ f[c] # g[c]
  OBVIOUS
<1>4. c \in Lighter(n) /\ c \in Lighter(m)
  BY <1>3 DEF Lighter
<1>5. PathEquation(f, c) /\ PathEquation(g, c)
  BY <1>4 DEF PathOver
<1>6. CASE c = Genesis
  BY <1>3, <1>6, <1>5 DEF PathEquation
<1>7. CASE c # Genesis
  <2>1. /\ Parent[c] \in Blocks /\ Weight[Parent[c]] \in Nat /\ Weight[Parent[c]] < k
    BY <1>3, <1>7, ParentFacts
  <2>2. Weight[Parent[c]] < n /\ Weight[Parent[c]] < m
    BY <1>3, <2>1
  <2>3. f[Parent[c]] = g[Parent[c]]
    BY <1>2, <2>1, <2>2
  <2> QED BY <1>3, <1>7, <1>5, <2>3 DEF PathEquation
<1> QED BY <1>6, <1>7

LEMMA PathDef ==
  /\ Path \in [Blocks -> Seq(Blocks)]
  /\ \A b \in Blocks : PathEquation(Path, b)
<1> DEFINE F(n) == CHOOSE f \in [Lighter(n) -> Seq(Blocks)] : \A b \in Lighter(n) : PathEquation(f, b)
<1>1. \A n \in Nat : F(n) \in [Lighter(n) -> Seq(Blocks)] /\ PathOver(F(n), n)
  BY PathUpTo DEF PathOver
<1> HIDE DEF F
<1> DEFINE h == [b \in Blocks |-> F(Weight[b] + 1)[b]]
<1>2. \A b \in Blocks : Weight[b] \in Nat /\ Weight[b] + 1 \in Nat /\ b \in Lighter(Weight[b] + 1)
  BY TreeAssumption DEF Lighter
<1>3. h \in [Blocks -> Seq(Blocks)]
  BY <1>1, <1>2
<1>4. ASSUME NEW b \in Blocks PROVE PathEquation(h, b)
  <2> DEFINE n == Weight[b] + 1
  <2>1. n \in Nat /\ h[b] = F(n)[b] /\ PathEquation(F(n), b)
    BY <1>1, <1>2 DEF PathOver
  <2>2. CASE b = Genesis
    BY <2>1, <2>2 DEF PathEquation
  <2>3. CASE b # Genesis
    <3> DEFINE p == Parent[b]
    <3> DEFINE m == Weight[p] + 1
    <3>1. p \in Blocks /\ Weight[p] \in Nat /\ Weight[p] < n /\ Weight[p] < m /\ m \in Nat /\ n \in Nat
      BY <2>1, <2>3, ParentFacts
    <3>2. h[p] = F(m)[p]
      BY <3>1
    <3>3. F(m)[p] = F(n)[p]
      <4>1. PathOver(F(m), m) /\ PathOver(F(n), n)
        BY <1>1, <3>1
      <4> DEFINE f == F(m)
                 g == F(n)
      <4>2. p \in Blocks /\ Weight[p] < n /\ Weight[p] < m /\ n \in Nat /\ m \in Nat
        BY <3>1
      <4> HIDE DEF h, p, m, n, f, g
      <4>3. PathOver(f, m) /\ PathOver(g, n)
        BY <4>1 DEF f, g
      <4>4. f[p] = g[p]
        BY <4>2, <4>3, PathUnique
      <4> QED BY <4>4 DEF f, g
    <3> QED BY <2>1, <2>3, <3>2, <3>3 DEF PathEquation
  <2> QED BY <2>2, <2>3
<1>5. h = [b \in Blocks |-> IF b = Genesis THEN << >> ELSE Append(h[Parent[b]], b)]
  <2>1. \A b \in Blocks : h[b] = IF b = Genesis THEN << >> ELSE Append(h[Parent[b]], b)
    BY <1>4 DEF PathEquation
  <2>2. h = [b \in Blocks |-> h[b]]
    OBVIOUS
  <2> HIDE DEF h
  <2> QED BY <2>1, <2>2
<1> HIDE DEF h
<1>6. Path = [b \in Blocks |-> IF b = Genesis THEN << >> ELSE Append(Path[Parent[b]], b)]
  BY <1>5 DEF Path
<1>7. \A b \in Blocks : PathEquation(Path, b)
  <2> DEFINE g == Path
  <2>1. g = [b \in Blocks |-> IF b = Genesis THEN << >> ELSE Append(g[Parent[b]], b)]
    BY <1>6
  <2> HIDE DEF g
  <2>2. \A b \in Blocks : g[b] = IF b = Genesis THEN << >> ELSE Append(g[Parent[b]], b)
    BY <2>1
  <2> QED BY <2>2 DEF g, PathEquation
<1>8. ASSUME NEW b \in Blocks PROVE Path[b] = h[b]
  <2> DEFINE n == Weight[b] + 1
  <2>1. n \in Nat /\ Weight[b] < n
    BY <1>2
  <2>2. PathOver(Path, n) /\ PathOver(h, n)
    BY <1>4, <1>7 DEF Lighter, PathOver
  <2> HIDE DEF n
  <2> DEFINE g == Path
  <2>3. PathOver(g, n)
    BY <2>2
  <2> HIDE DEF g
  <2>4. g[b] = h[b]
    BY <2>1, <2>2, <2>3, PathUnique
  <2> QED BY <2>4 DEF g
<1>9. Path = [b \in Blocks |-> h[b]]
  <2> DEFINE g == Path
  <2>1. g = [b \in Blocks |-> IF b = Genesis THEN << >> ELSE Append(g[Parent[b]], b)]
    BY <1>6
  <2>2. \A b \in Blocks : g[b] = h[b]
    BY <1>8
  <2> HIDE DEF g
  <2> QED BY <2>1, <2>2 DEF g
<1>10. Path \in [Blocks -> Seq(Blocks)]
  BY <1>3, <1>9
<1> QED BY <1>7, <1>10

-----------------------------------------------------------------------------
(* Ranges. *)

LEMMA RangeAppend ==
  ASSUME NEW E, NEW s \in Seq(E), NEW x
  PROVE  Range(Append(s, x)) = Range(s) \cup {x}
<1> DEFINE S == E \cup {x}
           r == Append(s, x)
<1>1. s \in Seq(S) /\ x \in S
  OBVIOUS
<1>2. /\ r \in Seq(S) /\ Len(r) = Len(s) + 1 /\ Len(s) \in Nat /\ r[Len(s) + 1] = x
      /\ \A i \in 1 .. Len(s) : r[i] = s[i]
  BY <1>1
<1>3. DOMAIN s = 1 .. Len(s) /\ DOMAIN r = 1 .. (Len(s) + 1)
  BY <1>2
<1> HIDE DEF r
<1>4. \A i \in DOMAIN r : r[i] \in Range(s) \cup {x}
  BY <1>2, <1>3 DEF Range
<1>5. \A i \in DOMAIN s : s[i] \in Range(r)
  <2> TAKE i \in DOMAIN s
  <2>1. i \in DOMAIN r /\ r[i] = s[i]
    BY <1>2, <1>3
  <2> QED BY <2>1 DEF Range
<1>6. x \in Range(r)
  <2>1. Len(s) + 1 \in DOMAIN r
    BY <1>2, <1>3
  <2> QED BY <1>2, <2>1 DEF Range
<1>7. Range(r) = Range(s) \cup {x}
  BY <1>4, <1>5, <1>6 DEF Range
<1> QED BY <1>7 DEF r

LEMMA RangeFacts ==
  ASSUME NEW E, NEW s \in Seq(E)
  PROVE  /\ Range(s) \subseteq E /\ (Range(s) = {} <=> s = << >>)
         /\ \A x \in Range(s) : \E i \in 1 .. Len(s) : s[i] = x
         /\ \A i \in 1 .. Len(s) : s[i] \in Range(s)
         /\ s # << >> => Head(s) = s[1] /\ Head(s) \in Range(s) /\ Tail(s) \in Seq(E) /\ Range(Tail(s)) \subseteq Range(s)
<1>1. /\ DOMAIN s = 1 .. Len(s) /\ Len(s) \in Nat /\ \A i \in 1 .. Len(s) : s[i] \in E
      /\ Len(s) = 0 <=> s = << >>
  OBVIOUS
<1>2. /\ Range(s) \subseteq E
      /\ \A x \in Range(s) : \E i \in 1 .. Len(s) : s[i] = x
      /\ \A i \in 1 .. Len(s) : s[i] \in Range(s)
  BY <1>1 DEF Range
<1>3. Range(s) = {} <=> s = << >>
  <2>1. Len(s) # 0 => 1 \in 1 .. Len(s)
    BY <1>1
  <2>2. Len(s) = 0 => 1 .. Len(s) = {}
    BY <1>1
  <2> QED BY <1>1, <1>2, <2>1, <2>2
<1>4. ASSUME s # << >>
      PROVE  Head(s) = s[1] /\ Head(s) \in Range(s) /\ Tail(s) \in Seq(E) /\ Range(Tail(s)) \subseteq Range(s)
  <2> DEFINE r == Tail(s)
  <2>1. Head(s) = s[1] /\ r \in Seq(E) /\ Len(r) = Len(s) - 1 /\ \A i \in 1 .. Len(r) : r[i] = s[i + 1]
    BY <1>4
  <2>2. 1 \in 1 .. Len(s)
    BY <1>1, <1>4
  <2> HIDE DEF r
  <2>3. DOMAIN r = 1 .. Len(r) /\ \A i \in 1 .. Len(r) : i + 1 \in 1 .. Len(s)
    BY <1>1, <2>1
  <2>4. \A i \in DOMAIN r : r[i] \in Range(s)
    BY <1>2, <2>1, <2>3
  <2>5. Range(r) \subseteq Range(s)
    BY <2>4 DEF Range
  <2> QED BY <1>2, <2>1, <2>2, <2>5 DEF r
<1> QED BY <1>2, <1>3, <1>4

-----------------------------------------------------------------------------
(* Chains. *)

LEMMA PathOfGenesis == Path[Genesis] = << >>
BY PathDef, TreeAssumption DEF PathEquation

LEMMA PathOfChild ==
  ASSUME NEW b \in Blocks \ {Genesis}
  PROVE  /\ Path[b] = Append(Path[Parent[b]], b) /\ Path[b] \in Seq(Blocks)
         /\ Parent[b] \in Blocks /\ Path[Parent[b]] \in Seq(Blocks)
         /\ Len(Path[b]) = Len(Path[Parent[b]]) + 1 /\ Path[b][Len(Path[b])] = b
<1>1. Parent[b] \in Blocks /\ Path[Parent[b]] \in Seq(Blocks) /\ Path[b] \in Seq(Blocks)
  BY PathDef, ParentFacts
<1>2. Path[b] = Append(Path[Parent[b]], b)
  BY PathDef DEF PathEquation
<1> DEFINE q == Path[Parent[b]]
<1>3. q \in Seq(Blocks) /\ Path[b] = Append(q, b)
  BY <1>1, <1>2
<1> HIDE DEF q
<1>4. Len(Path[b]) = Len(q) + 1 /\ Path[b][Len(q) + 1] = b
  BY <1>3
<1> QED BY <1>1, <1>2, <1>4 DEF q


\* A block of a chain is where its own chain ends, on the block before it.
StepOfPath(b, h) ==
  LET x == Path[b][h]
  IN  /\ x \in Blocks \ {Genesis} /\ Len(Path[x]) = h
      /\ Parent[x] = IF h = 1 THEN Genesis ELSE Path[b][h - 1]

LEMMA PathSteps ==
  ASSUME NEW b \in Blocks, NEW h \in 1 .. Len(Path[b])
  PROVE  StepOfPath(b, h)
<1> DEFINE T == { k \in Nat : \E c \in Blocks : Weight[c] = k /\ \E i \in 1 .. Len(Path[c]) : ~StepOfPath(c, i) }
<1> SUFFICES ASSUME ~StepOfPath(b, h) PROVE FALSE
  OBVIOUS
<1>1. T \in SUBSET Nat /\ Weight[b] \in T
  BY TreeAssumption
<1>2. PICK k \in T : \A j \in T : ~(j < k)
  <2> HIDE DEF T
  <2> QED BY <1>1, LeastElement
<1>3. PICK c \in Blocks : Weight[c] = k /\ \E i \in 1 .. Len(Path[c]) : ~StepOfPath(c, i)
  OBVIOUS
<1>4. PICK i \in 1 .. Len(Path[c]) : ~StepOfPath(c, i)
  BY <1>3
<1>5. c # Genesis
  <2>1. ASSUME c = Genesis PROVE FALSE
    <3>1. Len(Path[c]) = 0
      BY <2>1, PathOfGenesis
    <3> QED BY <1>4, <3>1
  <2> QED BY <2>1
<1> DEFINE d == Parent[c]
           q == Path[d]
           n == Len(q)
<1>6. /\ Path[c] = Append(q, c) /\ Path[c] \in Seq(Blocks) /\ d \in Blocks /\ q \in Seq(Blocks) /\ n \in Nat
      /\ Len(Path[c]) = n + 1 /\ Weight[d] \in Nat /\ Weight[d] < Weight[c]
  <2>1. c \in Blocks \ {Genesis}
    BY <1>5
  <2>2. Path[d] \in Seq(Blocks)
    BY <2>1, PathOfChild
  <2>3. Len(Path[d]) \in Nat
    BY <2>2
  <2> QED BY <2>1, <2>2, <2>3, PathOfChild, ParentFacts
<1>7. \A g \in 1 .. n : StepOfPath(d, g)
  BY <1>2, <1>3, <1>6
<1>8. \A g \in 1 .. n : Path[c][g] = q[g]
  <2> HIDE DEF q
  <2> QED BY <1>6 DEF n
<1>9. Path[c][n + 1] = c
  <2> HIDE DEF q
  <2> QED BY <1>6 DEF n
<1>10. CASE i \in 1 .. n
  <2>1. Path[c][i] = Path[d][i] /\ (i # 1 => Path[c][i - 1] = Path[d][i - 1])
    <3>1. i # 1 => i - 1 \in 1 .. n
      BY <1>6, <1>10
    <3> QED BY <1>8, <1>10, <3>1
  <2>2. StepOfPath(d, i)
    BY <1>7, <1>10
  <2>3. StepOfPath(c, i)
    BY <2>1, <2>2 DEF StepOfPath
  <2> QED BY <1>4, <2>3
<1>11. CASE i = n + 1
  <2>1. Path[c][i] = c /\ Len(Path[c]) = i /\ c \in Blocks \ {Genesis}
    BY <1>5, <1>6, <1>9, <1>11
  <2>2. Parent[c] = IF i = 1 THEN Genesis ELSE Path[c][i - 1]
    <3>1. CASE d = Genesis
      <4>1. n = 0
        BY <3>1, PathOfGenesis
      <4> QED BY <1>11, <3>1, <4>1
    <3>2. CASE d # Genesis
      <4>1. q[n] = d /\ n # 0
        <5>1. d \in Blocks \ {Genesis}
          BY <1>6, <3>2
        <5>2. Path[Parent[d]] \in Seq(Blocks) /\ Len(Path[d]) = Len(Path[Parent[d]]) + 1 /\ Path[d][Len(Path[d])] = d
          BY <5>1, PathOfChild
        <5>3. Len(Path[Parent[d]]) \in Nat
          BY <5>2
        <5> QED BY <5>2, <5>3
      <4>2. n \in 1 .. n /\ i - 1 = n /\ i # 1
        BY <1>6, <1>11, <4>1
      <4>3. Path[c][i - 1] = d
        BY <1>8, <4>1, <4>2
      <4> QED BY <4>2, <4>3
    <3> QED BY <3>1, <3>2
  <2>3. StepOfPath(c, i)
    BY <2>1, <2>2 DEF StepOfPath
  <2> QED BY <1>4, <2>3
<1> QED BY <1>4, <1>6, <1>10, <1>11

Chain(t) == Range(Path[t]) \cup {Genesis}

LEMMA ChainFacts ==
  ASSUME NEW t \in Blocks
  PROVE  /\ Path[t] \in Seq(Blocks) /\ Height(t) \in Nat /\ Size(t) \in Nat \ {0}
         /\ Range(Path[t]) \subseteq Blocks /\ Chain(t) \subseteq Blocks /\ t \in Chain(t)
         /\ Chain(t) = { b \in Blocks : InChain(b, t) }
<1>1. Path[t] \in Seq(Blocks)
  BY PathDef
<1>2. Len(Path[t]) \in Nat /\ Range(Path[t]) \subseteq Blocks
  BY <1>1 DEF Range
<1>3. t \in Chain(t)
  <2>1. CASE t = Genesis
    BY <2>1 DEF Chain
  <2>2. CASE t # Genesis
    <3>1. /\ Path[Parent[t]] \in Seq(Blocks)
          /\ Len(Path[t]) = Len(Path[Parent[t]]) + 1 /\ Path[t][Len(Path[t])] = t
      BY <2>2, PathOfChild
    <3>2. Len(Path[Parent[t]]) \in Nat
      BY <3>1
    <3>3. Len(Path[t]) \in DOMAIN Path[t]
      BY <1>1, <3>1, <3>2
    <3> QED BY <3>1, <3>3 DEF Chain, Range
  <2> QED BY <2>1, <2>2
<1> QED BY <1>1, <1>2, <1>3, TreeAssumption DEF Height, Size, Chain, InChain

\* A set of blocks that holds the parents of its blocks holds their chains.
Rooted(K) == K \subseteq Blocks /\ Genesis \in K /\ \A b \in K \ {Genesis} : Parent[b] \in K

LEMMA RootedChain ==
  ASSUME NEW K, Rooted(K), NEW b \in K
  PROVE  Chain(b) \subseteq K
<1> DEFINE T == { k \in Nat : \E c \in K : Weight[c] = k /\ ~(Chain(c) \subseteq K) }
<1> SUFFICES ASSUME ~(Chain(b) \subseteq K) PROVE FALSE
  OBVIOUS
<1>1. T \in SUBSET Nat /\ Weight[b] \in T
  BY TreeAssumption DEF Rooted
<1>2. PICK k \in T : \A j \in T : ~(j < k)
  <2> HIDE DEF T
  <2> QED BY <1>1, LeastElement
<1>3. PICK c \in K : Weight[c] = k /\ ~(Chain(c) \subseteq K)
  OBVIOUS
<1>4. CASE c = Genesis
  <2>1. Chain(c) = {Genesis}
    BY <1>4, PathOfGenesis, EmptySeq DEF Chain, Range
  <2> QED BY <1>3, <2>1 DEF Rooted
<1>5. CASE c # Genesis
  <2>1. /\ c \in Blocks \ {Genesis} /\ Parent[c] \in K /\ Path[c] = Append(Path[Parent[c]], c)
        /\ Path[Parent[c]] \in Seq(Blocks) /\ Weight[Parent[c]] \in Nat /\ Weight[Parent[c]] < k
    BY <1>3, <1>5, PathOfChild, ParentFacts DEF Rooted
  <2>2. Chain(Parent[c]) \subseteq K
    BY <1>2, <2>1
  <2>3. Range(Path[c]) = Range(Path[Parent[c]]) \cup {c}
    <3> DEFINE q == Path[Parent[c]]
    <3>1. q \in Seq(Blocks) /\ Path[c] = Append(q, c)
      BY <2>1
    <3> HIDE DEF q
    <3>2. Range(Append(q, c)) = Range(q) \cup {c}
      BY <3>1, <2>1, RangeAppend
    <3> QED BY <3>1, <3>2 DEF q
  <2> QED BY <1>3, <2>2, <2>3 DEF Chain
<1> QED BY <1>4, <1>5

-----------------------------------------------------------------------------
(* Orders in which blocks can be added. *)

\* Added one after the other to a node that knows the blocks K, the blocks of s are known
\* already or have a known parent: no one of them is an orphan.
Ready(K, s) ==
  \A i \in 1 .. Len(s) :
    s[i] \in K \/ Parent[s[i]] \in K \/ \E j \in 1 .. (i - 1) : s[j] = Parent[s[i]]

LEMMA ReadyMore ==
  ASSUME NEW s, NEW K, Ready(K, s), NEW L, K \subseteq L
  PROVE  Ready(L, s)
BY DEF Ready

LEMMA ReadyEmpty == \A K : Ready(K, << >>)
BY DEF Ready

LEMMA ReadyHead ==
  ASSUME NEW s \in Seq(Blocks), s # << >>, NEW K, Ready(K, s)
  PROVE  /\ Head(s) \in K \/ Parent[Head(s)] \in K
         /\ Head(s) \in K => Ready(K, Tail(s))
<1> DEFINE r == Tail(s)
<1>1. /\ Head(s) = s[1] /\ r \in Seq(Blocks) /\ Len(r) = Len(s) - 1 /\ Len(r) \in Nat
      /\ \A i \in 1 .. Len(r) : r[i] = s[i + 1]
  OBVIOUS
<1> HIDE DEF r
<1>2. 1 \in 1 .. Len(s) /\ 1 .. (1 - 1) = {}
  BY <1>1
<1>3. s[1] \in K \/ Parent[s[1]] \in K
  BY <1>2 DEF Ready
<1>4. ASSUME s[1] \in K, NEW i \in 1 .. Len(r)
      PROVE  r[i] \in K \/ Parent[r[i]] \in K \/ \E j \in 1 .. (i - 1) : r[j] = Parent[r[i]]
  <2>1. i + 1 \in 1 .. Len(s) /\ r[i] = s[i + 1] /\ i + 1 - 1 = i
    BY <1>1
  <2>2. \/ s[i + 1] \in K \/ Parent[s[i + 1]] \in K
        \/ \E j \in 1 .. i : s[j] = Parent[s[i + 1]]
    BY <2>1 DEF Ready
  <2>3. ASSUME NEW j \in 1 .. i, s[j] = Parent[s[i + 1]]
        PROVE  Parent[r[i]] \in K \/ \E k \in 1 .. (i - 1) : r[k] = Parent[r[i]]
    <3>1. CASE j = 1
      BY <1>4, <2>1, <2>3, <3>1
    <3>2. CASE j # 1
      <4>1. j - 1 \in 1 .. (i - 1) /\ j - 1 \in 1 .. Len(r) /\ (j - 1) + 1 = j
        BY <1>1, <3>2
      <4>2. r[j - 1] = Parent[r[i]]
        BY <1>1, <2>1, <2>3, <4>1
      <4> QED BY <4>1, <4>2
    <3> QED BY <3>1, <3>2
  <2> QED BY <2>1, <2>2, <2>3
<1>5. s[1] \in K => Ready(K, r)
  BY <1>4 DEF Ready
<1> QED BY <1>1, <1>3, <1>5 DEF r

\* One block more.
LEMMA ReadyAppend ==
  ASSUME NEW E, NEW s \in Seq(E), NEW K, Ready(K, s), NEW x,
         x \in K \/ Parent[x] \in K \/ Parent[x] \in Range(s)
  PROVE  Ready(K, Append(s, x))
<1> DEFINE S == E \cup {x}
           r == Append(s, x)
<1>1. s \in Seq(S) /\ x \in S
  OBVIOUS
<1>2. /\ Len(r) = Len(s) + 1 /\ Len(s) \in Nat /\ r[Len(s) + 1] = x
      /\ \A i \in 1 .. Len(s) : r[i] = s[i]
  BY <1>1
<1> HIDE DEF r
<1>3. ASSUME NEW i \in 1 .. Len(s)
      PROVE  r[i] \in K \/ Parent[r[i]] \in K \/ \E j \in 1 .. (i - 1) : r[j] = Parent[r[i]]
  <2>1. r[i] = s[i] /\ \A j \in 1 .. (i - 1) : r[j] = s[j]
    BY <1>2
  <2> QED BY <2>1 DEF Ready
<1>4. x \in K \/ Parent[x] \in K \/ \E j \in 1 .. (Len(s) + 1 - 1) : r[j] = Parent[x]
  <2>1. CASE Parent[x] \in Range(s)
    <3>1. PICK j \in 1 .. Len(s) : s[j] = Parent[x]
      BY <2>1, RangeFacts
    <3>2. j \in 1 .. (Len(s) + 1 - 1) /\ r[j] = Parent[x]
      BY <1>2, <3>1
    <3> QED BY <3>2
  <2> QED BY <2>1
<1>5. ASSUME NEW i \in 1 .. Len(r)
      PROVE  r[i] \in K \/ Parent[r[i]] \in K \/ \E j \in 1 .. (i - 1) : r[j] = Parent[r[i]]
  <2>1. i \in 1 .. Len(s) \/ i = Len(s) + 1
    BY <1>2
  <2> QED BY <1>2, <1>3, <1>4, <2>1
<1> QED BY <1>5 DEF Ready, r

LEMMA ReadyConcat ==
  ASSUME NEW s \in Seq(Blocks), NEW t \in Seq(Blocks), NEW K, Ready(K, s), Ready(K, t)
  PROVE  /\ Ready(K, s \o t) /\ s \o t \in Seq(Blocks) /\ Range(s \o t) = Range(s) \cup Range(t)
<1> DEFINE r == s \o t
           n == Len(s)
<1>1. /\ r \in Seq(Blocks) /\ Len(r) = n + Len(t) /\ n \in Nat /\ Len(t) \in Nat
      /\ \A i \in 1 .. n : r[i] = s[i]
      /\ \A i \in 1 .. Len(t) : r[n + i] = t[i]
      /\ DOMAIN r = 1 .. Len(r) /\ DOMAIN s = 1 .. n /\ DOMAIN t = 1 .. Len(t)
  OBVIOUS
<1> HIDE DEF r, n
<1>2. ASSUME NEW i \in 1 .. Len(r)
      PROVE  r[i] \in K \/ Parent[r[i]] \in K \/ \E j \in 1 .. (i - 1) : r[j] = Parent[r[i]]
  <2>1. CASE i \in 1 .. n
    <3>1. r[i] = s[i] /\ \A j \in 1 .. (i - 1) : r[j] = s[j]
      BY <1>1, <2>1
    <3> QED BY <2>1, <3>1 DEF Ready, n
  <2>2. CASE i \notin 1 .. n
    <3> DEFINE k == i - n
    <3>1. k \in 1 .. Len(t) /\ r[i] = t[k] /\ k \in Int /\ i = n + k
      <4>1. k \in 1 .. Len(t) /\ i = n + k
        BY <1>1, <2>2
      <4> QED BY <1>1, <4>1
    <3> HIDE DEF k
    <3>2. t[k] \in K \/ Parent[t[k]] \in K \/ \E j \in 1 .. (k - 1) : t[j] = Parent[t[k]]
      BY <3>1 DEF Ready
    <3>3. ASSUME NEW j \in 1 .. (k - 1), t[j] = Parent[t[k]]
          PROVE  \E g \in 1 .. (i - 1) : r[g] = Parent[r[i]]
      <4>1. n + j \in 1 .. (i - 1) /\ j \in 1 .. Len(t)
        BY <1>1, <3>1
      <4>2. r[n + j] = Parent[r[i]]
        BY <1>1, <3>1, <3>3, <4>1
      <4> QED BY <4>1, <4>2
    <3> QED BY <3>1, <3>2, <3>3
  <2> QED BY <2>1, <2>2
<1>3. Ready(K, r)
  BY <1>2 DEF Ready
<1>4. \A i \in DOMAIN r : r[i] \in Range(s) \cup Range(t)
  <2> TAKE i \in DOMAIN r
  <2>1. CASE i \in 1 .. n
    BY <1>1, <2>1 DEF Range
  <2>2. CASE i \notin 1 .. n
    <3> DEFINE k == i - n
    <3>1. k \in 1 .. Len(t) /\ i = n + k
      BY <1>1, <2>2
    <3>2. r[n + k] = t[k]
      BY <1>1, <3>1
    <3> QED BY <1>1, <3>1, <3>2 DEF Range
  <2> QED BY <2>1, <2>2
<1>5. (\A i \in DOMAIN s : s[i] \in Range(r)) /\ (\A i \in DOMAIN t : t[i] \in Range(r))
  <2>1. ASSUME NEW i \in DOMAIN s PROVE s[i] \in Range(r)
    <3>1. i \in DOMAIN r /\ r[i] = s[i]
      BY <1>1
    <3> QED BY <3>1 DEF Range
  <2>2. ASSUME NEW i \in DOMAIN t PROVE t[i] \in Range(r)
    <3>1. n + i \in DOMAIN r /\ r[n + i] = t[i]
      BY <1>1
    <3> QED BY <3>1 DEF Range
  <2> QED BY <2>1, <2>2
<1>6. Range(r) = Range(s) \cup Range(t)
  BY <1>4, <1>5 DEF Range
<1> QED BY <1>1, <1>3, <1>6 DEF r

\* A queue is taken from the front.
LEMMA ReadySplit ==
  ASSUME NEW s \in Seq(Blocks), NEW n \in 0 .. Len(s), NEW K, Ready(K, s)
  PROVE  LET a == SubSeq(s, 1, n)
             b == SubSeq(s, n + 1, Len(s))
         IN  /\ a \in Seq(Blocks) /\ b \in Seq(Blocks) /\ Range(s) = Range(a) \cup Range(b)
             /\ Ready(K, a) /\ Ready(K \cup Range(a), b)
<1> DEFINE a == SubSeq(s, 1, n)
           b == SubSeq(s, n + 1, Len(s))
           l == Len(s)
<1>1. /\ a \in Seq(Blocks) /\ Len(a) = n /\ (\A i \in 1 .. n : a[i] = s[i])
      /\ b \in Seq(Blocks) /\ Len(b) = l - n /\ (\A i \in 1 .. (l - n) : b[i] = s[n + i])
      /\ l \in Nat /\ n \in Nat /\ n <= l /\ DOMAIN s = 1 .. l /\ DOMAIN a = 1 .. n /\ DOMAIN b = 1 .. (l - n)
  <2>1. l \in Nat /\ n \in Nat /\ n <= l /\ DOMAIN s = 1 .. l /\ \A i \in 1 .. l : s[i] \in Blocks
    OBVIOUS
  <2>2. a = [i \in 1 .. n |-> s[i]]
    BY <2>1
  <2>3. b = [i \in 1 .. (l - n) |-> s[n + i]]
    BY <2>1
  <2>4. \A i \in 1 .. n : s[i] \in Blocks
    BY <2>1
  <2>5. l - n \in Nat /\ \A i \in 1 .. (l - n) : n + i \in 1 .. l /\ s[n + i] \in Blocks
    BY <2>1
  <2> HIDE DEF a, b
  <2>6. a \in Seq(Blocks) /\ Len(a) = n /\ (\A i \in 1 .. n : a[i] = s[i]) /\ DOMAIN a = 1 .. n
    BY <2>1, <2>2, <2>4
  <2>7. b \in Seq(Blocks) /\ Len(b) = l - n /\ (\A i \in 1 .. (l - n) : b[i] = s[n + i]) /\ DOMAIN b = 1 .. (l - n)
    BY <2>1, <2>3, <2>5
  <2> QED BY <2>1, <2>6, <2>7
<1> HIDE DEF a, b
<1>2. Range(s) = Range(a) \cup Range(b)
  <2>1. \A i \in 1 .. l : s[i] \in Range(a) \cup Range(b)
    <3> TAKE i \in 1 .. l
    <3>1. CASE i <= n
      <4>1. i \in DOMAIN a /\ a[i] = s[i]
        BY <1>1, <3>1
      <4> QED BY <4>1 DEF Range
    <3>2. CASE ~(i <= n)
      <4>1. i - n \in DOMAIN b /\ n + (i - n) = i
        BY <1>1, <3>2
      <4>2. b[i - n] = s[i]
        BY <1>1, <4>1
      <4> QED BY <4>1, <4>2 DEF Range
    <3> QED BY <3>1, <3>2
  <2>2. \A i \in DOMAIN a : a[i] \in Range(s)
    <3> TAKE i \in DOMAIN a
    <3>1. i \in DOMAIN s /\ a[i] = s[i]
      BY <1>1
    <3> QED BY <3>1 DEF Range
  <2>3. \A i \in DOMAIN b : b[i] \in Range(s)
    <3> TAKE i \in DOMAIN b
    <3>1. n + i \in DOMAIN s /\ b[i] = s[n + i]
      BY <1>1
    <3> QED BY <3>1 DEF Range
  <2> QED BY <1>1, <2>1, <2>2, <2>3 DEF Range
<1>3. Ready(K, a)
  <2>1. ASSUME NEW i \in 1 .. n
        PROVE  a[i] \in K \/ Parent[a[i]] \in K \/ \E j \in 1 .. (i - 1) : a[j] = Parent[a[i]]
    <3>1. i \in 1 .. l /\ a[i] = s[i] /\ \A j \in 1 .. (i - 1) : a[j] = s[j]
      BY <1>1
    <3> QED BY <3>1 DEF Ready, l
  <2> QED BY <1>1, <2>1 DEF Ready
<1>4. Ready(K \cup Range(a), b)
  <2>1. ASSUME NEW i \in 1 .. (l - n)
        PROVE  \/ b[i] \in K \cup Range(a) \/ Parent[b[i]] \in K \cup Range(a)
               \/ \E j \in 1 .. (i - 1) : b[j] = Parent[b[i]]
    <3> DEFINE k == n + i
    <3>1. k \in 1 .. l /\ b[i] = s[k]
      BY <1>1
    <3>2. s[k] \in K \/ Parent[s[k]] \in K \/ \E j \in 1 .. (k - 1) : s[j] = Parent[s[k]]
      BY <3>1 DEF Ready, l
    <3>3. ASSUME NEW j \in 1 .. (k - 1), s[j] = Parent[s[k]]
          PROVE  Parent[b[i]] \in Range(a) \/ \E g \in 1 .. (i - 1) : b[g] = Parent[b[i]]
      <4>1. CASE j <= n
        <5>1. j \in DOMAIN a /\ a[j] = s[j]
          BY <1>1, <4>1
        <5> QED BY <3>1, <3>3, <5>1 DEF Range
      <4>2. CASE ~(j <= n)
        <5>1. j - n \in 1 .. (i - 1) /\ j - n \in 1 .. (l - n) /\ n + (j - n) = j
          BY <1>1, <4>2
        <5>2. b[j - n] = Parent[b[i]]
          BY <1>1, <3>1, <3>3, <5>1
        <5> QED BY <5>1, <5>2
      <4> QED BY <4>1, <4>2
    <3> QED BY <3>1, <3>2, <3>3
  <2> QED BY <1>1, <2>1 DEF Ready
<1> QED BY <1>1, <1>2, <1>3, <1>4 DEF a, b

-----------------------------------------------------------------------------
(* Those: the elements of a sequence that are in a set. *)

Picks(f, s, S, n) ==
  /\ f[0] = << >>
  /\ \A i \in 1 .. n : f[i] = IF s[i] \in S THEN Append(f[i - 1], s[i]) ELSE f[i - 1]

LEMMA PicksExist ==
  ASSUME NEW s, NEW S, NEW n \in Nat
  PROVE  \E f : Picks(f, s, S, n)
<1> DEFINE T == { m \in Nat : \E f : Picks(f, s, S, m) }
<1>1. 0 \in T
  <2> DEFINE f == [i \in {0} |-> << >>]
  <2>1. f[0] = << >> /\ 1 .. 0 = {}
    OBVIOUS
  <2> HIDE DEF f
  <2>2. Picks(f, s, S, 0)
    BY <2>1 DEF Picks
  <2> QED BY <2>2
<1>2. ASSUME NEW m \in Nat, m \in T PROVE m + 1 \in T
  <2>1. PICK f : Picks(f, s, S, m)
    BY <1>2
  <2> DEFINE x == IF s[m + 1] \in S THEN Append(f[m], s[m + 1]) ELSE f[m]
             g == [i \in 0 .. m + 1 |-> IF i = m + 1 THEN x ELSE f[i]]
  <2>2. g[m + 1] = x /\ \A i \in 0 .. m : g[i] = f[i]
    <3> HIDE DEF x
    <3> QED OBVIOUS
  <2> HIDE DEF g
  <2>3. ASSUME NEW i \in 1 .. m + 1
        PROVE  g[i] = IF s[i] \in S THEN Append(g[i - 1], s[i]) ELSE g[i - 1]
    <3>1. CASE i = m + 1
      <4>1. i - 1 = m /\ g[i - 1] = f[m] /\ g[i] = x
        BY <2>2, <3>1
      <4> QED BY <3>1, <4>1
    <3>2. CASE i # m + 1
      <4>1. i \in 1 .. m /\ g[i] = f[i] /\ g[i - 1] = f[i - 1]
        BY <2>2, <3>2
      <4> QED BY <2>1, <4>1 DEF Picks
    <3> QED BY <3>1, <3>2
  <2>4. g[0] = << >>
    BY <2>1, <2>2 DEF Picks
  <2>5. Picks(g, s, S, m + 1)
    BY <2>3, <2>4 DEF Picks
  <2> QED BY <2>5
<1> HIDE DEF T
<1>3. Nat \subseteq T
  BY <1>1, <1>2, NatSetInduction
<1>4. n \in T
  BY <1>3
<1> QED BY <1>4 DEF T

LEMMA ThosePicked ==
  ASSUME NEW E, NEW s \in Seq(E), NEW S
  PROVE  \E f : Picks(f, s, S, Len(s)) /\ Those(s, S) = f[Len(s)]
<1> DEFINE n == Len(s)
           Rhs(f, i) == IF i = 0 THEN << >> ELSE IF s[i] \in S THEN Append(f[i - 1], s[i]) ELSE f[i - 1]
<1>0. n \in Nat
  OBVIOUS
<1> HIDE DEF n
<1>1. PICK f : Picks(f, s, S, n)
  BY <1>0, PicksExist
<1>2. \E g : g = [i \in 0 .. n |-> Rhs(g, i)]
  <2> DEFINE g == [i \in 0 .. n |-> f[i]]
  <2>1. \A i \in 0 .. n : g[i] = f[i] /\ (i # 0 => i \in 1 .. n /\ g[i - 1] = f[i - 1])
    BY <1>0
  <2>2. g = [i \in 0 .. n |-> g[i]]
    OBVIOUS
  <2> HIDE DEF g
  <2>3. \A i \in 0 .. n : g[i] = Rhs(g, i)
    BY <1>1, <2>1 DEF Picks
  <2> HIDE DEF Rhs
  <2>4. g = [i \in 0 .. n |-> Rhs(g, i)]
    BY <2>2, <2>3
  <2> QED BY <2>4
<1> DEFINE pick == CHOOSE g : g = [i \in 0 .. n |-> Rhs(g, i)]
<1>3. pick = [i \in 0 .. n |-> Rhs(pick, i)]
  <2> HIDE DEF Rhs
  <2> QED BY <1>2
<1>4. Those(s, S) = pick[n]
  BY DEF Those, n
<1> HIDE DEF pick
<1>5. \A i \in 0 .. n : pick[i] = Rhs(pick, i)
  <2> HIDE DEF Rhs
  <2> QED BY <1>3
<1>6. Picks(pick, s, S, n)
  <2>1. \A i \in 1 .. n : i \in 0 .. n /\ i # 0
    BY <1>0
  <2>2. 0 \in 0 .. n
    BY <1>0
  <2> QED BY <1>5, <2>1, <2>2 DEF Picks
<1> HIDE DEF Rhs
<1> QED BY <1>4, <1>6 DEF n

\* What is picked up to position i.
Picked(E, s, S, r, i) ==
  /\ r \in Seq(E)
  /\ Range(r) = { s[j] : j \in { k \in 1 .. i : s[k] \in S } }
  /\ (\A j \in 1 .. i : s[j] \in S) => Len(r) = i /\ \A j \in 1 .. i : r[j] = s[j]
  /\ \A K : Ready(K, s) /\ (\A j \in 1 .. i : s[j] \in S \/ s[j] \in K) => Ready(K, r)

LEMMA PickedNext ==
  ASSUME NEW E, NEW s \in Seq(E), NEW S, NEW i \in Nat, i + 1 \in 1 .. Len(s), NEW r, Picked(E, s, S, r, i)
  PROVE  Picked(E, s, S, IF s[i + 1] \in S THEN Append(r, s[i + 1]) ELSE r, i + 1)
<1> DEFINE x == s[i + 1]
           q == Append(r, x)
           A(k) == { s[j] : j \in { g \in 1 .. k : s[g] \in S } }
<1>0. r \in Seq(E) /\ x \in E /\ Range(r) = A(i) /\ Len(r) \in Nat /\ 1 .. (i + 1) = (1 .. i) \cup {i + 1}
  <2>1. r \in Seq(E)
    BY DEF Picked
  <2> QED BY <2>1 DEF Picked
<1>1. ASSUME NEW K, Ready(K, s), \A j \in 1 .. (i + 1) : s[j] \in S \/ s[j] \in K
      PROVE  Ready(K, IF x \in S THEN q ELSE r)
  <2>1. Ready(K, r)
    BY <1>0, <1>1 DEF Picked
  <2>2. CASE x \in S
    <3>1. x \in K \/ Parent[x] \in K \/ \E j \in 1 .. i : s[j] = Parent[x]
      <4>1. (i + 1) - 1 = i
        OBVIOUS
      <4> QED BY <1>1, <4>1 DEF Ready
    <3>2. ASSUME NEW j \in 1 .. i, s[j] = Parent[x] PROVE Parent[x] \in K \/ Parent[x] \in Range(r)
      <4>1. s[j] \in S \/ s[j] \in K
        BY <1>0, <1>1
      <4> QED BY <1>0, <3>2, <4>1
    <3>3. x \in K \/ Parent[x] \in K \/ Parent[x] \in Range(r)
      BY <3>1, <3>2
    <3> HIDE DEF x
    <3>4. Ready(K, Append(r, x))
      BY <1>0, <2>1, <3>3, ReadyAppend
    <3> QED BY <2>2, <3>4
  <2>3. CASE x \notin S
    BY <2>1, <2>3
  <2> QED BY <2>2, <2>3
<1>2. CASE x \in S
  <2>1. q \in Seq(E) /\ Len(q) = Len(r) + 1 /\ q[Len(r) + 1] = x /\ \A j \in 1 .. Len(r) : q[j] = r[j]
    <3> HIDE DEF x
    <3> QED BY <1>0
  <2>2. Range(q) = Range(r) \cup {x}
    <3> HIDE DEF x
    <3> QED BY <1>0, RangeAppend
  <2>3. A(i + 1) = A(i) \cup {x}
    BY <1>0, <1>2
  <2>4. ASSUME \A j \in 1 .. (i + 1) : s[j] \in S
        PROVE  Len(q) = i + 1 /\ \A j \in 1 .. (i + 1) : q[j] = s[j]
    <3>1. Len(r) = i /\ \A j \in 1 .. i : r[j] = s[j]
      BY <1>0, <2>4 DEF Picked
    <3> HIDE DEF q
    <3> QED BY <1>0, <2>1, <3>1
  <2> HIDE DEF q
  <2>5. Picked(E, s, S, q, i + 1)
    BY <1>0, <1>1, <1>2, <2>1, <2>2, <2>3, <2>4 DEF Picked
  <2> QED BY <1>2, <2>5 DEF q
<1>3. CASE x \notin S
  <2>1. A(i + 1) = A(i)
    BY <1>0, <1>3
  <2>2. ~\A j \in 1 .. (i + 1) : s[j] \in S
    BY <1>0, <1>3
  <2> HIDE DEF q
  <2>3. Picked(E, s, S, r, i + 1)
    BY <1>0, <1>1, <1>3, <2>1, <2>2 DEF Picked
  <2> QED BY <1>3, <2>3
<1> QED BY <1>2, <1>3

LEMMA ThoseFacts ==
  ASSUME NEW E, NEW s \in Seq(E), NEW S
  PROVE  /\ Those(s, S) \in Seq(E) /\ Range(Those(s, S)) = Range(s) \cap S
         /\ Range(s) \subseteq S => Those(s, S) = s
         /\ \A K : Ready(K, s) /\ Range(s) \ S \subseteq K => Ready(K, Those(s, S))
<1> DEFINE n == Len(s)
           r == Those(s, S)
<1>0. n \in Nat /\ DOMAIN s = 1 .. n /\ Range(s) = { s[j] : j \in 1 .. n }
  BY DEF Range
<1>1. PICK f : Picks(f, s, S, n) /\ r = f[n]
  BY ThosePicked
<1> DEFINE T == { i \in Nat : i <= n => Picked(E, s, S, f[i], i) }
<1>2. 0 \in T
  <2>1. f[0] = << >> /\ 1 .. 0 = {} /\ Range(<< >>) = {} /\ << >> \in Seq(E) /\ Len(<< >>) = 0
    BY <1>1 DEF Picks, Range
  <2>2. Picked(E, s, S, << >>, 0)
    BY <2>1, ReadyEmpty DEF Picked
  <2> QED BY <2>1, <2>2
<1>3. ASSUME NEW i \in Nat, i \in T PROVE i + 1 \in T
  <2> SUFFICES ASSUME i + 1 <= n PROVE Picked(E, s, S, f[i + 1], i + 1)
    OBVIOUS
  <2>1. i <= n /\ i + 1 \in 1 .. n /\ (i + 1) - 1 = i
    BY <1>0
  <2>2. Picked(E, s, S, f[i], i)
    BY <1>3, <2>1
  <2>3. f[i + 1] = IF s[i + 1] \in S THEN Append(f[i], s[i + 1]) ELSE f[i]
    BY <1>1, <2>1 DEF Picks
  <2> DEFINE y == f[i]
  <2>4. Picked(E, s, S, IF s[i + 1] \in S THEN Append(y, s[i + 1]) ELSE y, i + 1)
    <3> HIDE DEF y, T
    <3>1. Picked(E, s, S, y, i)
      BY <2>2 DEF y
    <3> QED BY <2>1, <3>1, PickedNext
  <2> QED BY <2>3, <2>4
<1> HIDE DEF T
<1>4. n \in T
  BY <1>0, <1>2, <1>3, NatSetInduction
<1>5. Picked(E, s, S, r, n)
  BY <1>0, <1>1, <1>4 DEF T
<1> HIDE DEF r
<1>6. r \in Seq(E) /\ Range(r) = Range(s) \cap S
  BY <1>0, <1>5 DEF Picked
<1>7. ASSUME Range(s) \subseteq S PROVE r = s
  <2>1. Len(r) = n /\ \A j \in 1 .. n : r[j] = s[j]
    BY <1>0, <1>5, <1>7 DEF Picked
  <2> QED BY <1>0, <1>6, <2>1
<1>8. \A K : Ready(K, s) /\ Range(s) \ S \subseteq K => Ready(K, r)
  <2> SUFFICES ASSUME NEW K, Ready(K, s), Range(s) \ S \subseteq K PROVE Ready(K, r)
    OBVIOUS
  <2>1. \A j \in 1 .. n : s[j] \in S \/ s[j] \in K
    BY <1>0
  <2> QED BY <1>5, <2>1 DEF Picked
<1> QED BY <1>6, <1>7, <1>8 DEF r

-----------------------------------------------------------------------------
(* What the peers whose chain did not change send, and what is asked of them. *)

CtxTypes(c) ==
  /\ c.state \in States /\ c.needed \in Seq(Blocks) /\ c.fetched \in Seq(Blocks)
  /\ c.requested \subseteq Blocks /\ c.lastResponse \in Nat /\ c.remoteSize \in Nat
JobTypes(j) == j.blocks \in Seq(Blocks) /\ (j.kind = "new" => j.blocks # << >>)

\* A message x to a peer whose top block is t, from a node that knows K and a connection
\* that has requested q; h: the chain of the peer did not change.
OutOk(x, K, t, h, q) ==
  /\ x.t = "chain" =>
       /\ x.ids \in Seq(Blocks) /\ Genesis \in Range(x.ids)
       /\ h => Range(x.ids) \subseteq K
  /\ x.t = "objects" =>
       /\ x.blocks \in Seq(Blocks)
       /\ h => Range(x.blocks) = q /\ Range(x.blocks) \subseteq Chain(t) /\ Ready(K, x.blocks)
EntryOk(x, K, t) ==
  /\ x.ids # << >> /\ x.ids[1] \in K /\ x.total = Size(t)
  /\ x.start + Len(x.ids) - 1 <= x.total /\ Range(x.ids) \subseteq Chain(t) /\ Ready(K, x.ids)
BlocksOk(x, K, t, q) == Range(x.blocks) = q /\ Ready(K, x.blocks) /\ x.height = Size(t)
InOk(x, K, t, h, q) ==
  /\ x.t = "sync" => x.top \in Blocks /\ x.size \in Nat
  /\ x.t = "new" => x.block \in Blocks
  /\ x.t = "entry" =>
       /\ x.ids \in Seq(Blocks) /\ x.start \in Nat /\ x.total \in Nat
       /\ h => EntryOk(x, K, t)
  /\ x.t = "blocks" =>
       /\ x.blocks \in Seq(Blocks) /\ x.height \in Nat
       /\ h => BlocksOk(x, K, t, q)
WireOk(m, K, t, h, q) ==
  /\ \A x \in Range(m.out) : OutOk(x, K, t, h, q)
  /\ \A x \in Range(m.in) : InOk(x, K, t, h, q)

\* The blocks that are still needed are of the chain of the peer and can be added after
\* those requested and those, B, that the handler has; so were the ids fetched.
CtxOk(c, K, t, B) ==
  /\ c.lastResponse <= Size(t) /\ Range(c.needed) \subseteq Chain(t)
  /\ Ready(K \cup c.requested \cup B, c.needed)
  /\ c.state = "synchronizing" => Range(c.fetched) \subseteq K \cup c.requested \cup B \cup Range(c.needed)
JobBlocks(j) == IF j.kind = "add" THEN Range(j.blocks) ELSE {}

Flow(K, t, h, c, m, j) ==
  /\ CtxTypes(c) /\ JobTypes(j) /\ WireOk(m, K, t, h, c.requested)
  /\ h /\ j.kind = "add" => Ready(K, j.blocks)
  /\ h /\ m.up => CtxOk(c, K, t, JobBlocks(j))

KnownInv == Rooted(known) /\ top \in known
NetInv ==
  /\ net \in [trouble : Nat, moved : SUBSET Peers, blamed : {{}}]
  /\ peer \in [Peers -> Blocks] /\ que \subseteq Blocks /\ synced \in BOOLEAN
FlowInv ==
  /\ KnownInv /\ NetInv
  /\ \A p \in Peers : Flow(known, peer[p], p \notin net.moved, ctx[p], wire[p], job[p])

\* More blocks are known.
LEMMA FlowMore ==
  ASSUME NEW K, NEW L, K \subseteq L, NEW t, NEW h \in BOOLEAN, NEW c, NEW m, NEW j, Flow(K, t, h, c, m, j)
  PROVE  Flow(L, t, h, c, m, j)
<1>1. ASSUME NEW x, NEW q, OutOk(x, K, t, h, q) PROVE OutOk(x, L, t, h, q)
  BY <1>1, ReadyMore DEF OutOk
<1>2. ASSUME NEW x, NEW q, InOk(x, K, t, h, q) PROVE InOk(x, L, t, h, q)
  <2>1. EntryOk(x, K, t) => EntryOk(x, L, t)
    BY ReadyMore DEF EntryOk
  <2>2. BlocksOk(x, K, t, q) => BlocksOk(x, L, t, q)
    BY ReadyMore DEF BlocksOk
  <2> QED BY <1>2, <2>1, <2>2 DEF InOk
<1>3. ASSUME NEW B, CtxOk(c, K, t, B) PROVE CtxOk(c, L, t, B)
  <2>1. K \cup c.requested \cup B \subseteq L \cup c.requested \cup B
    OBVIOUS
  <2>2. Ready(L \cup c.requested \cup B, c.needed)
    BY <1>3, <2>1, ReadyMore DEF CtxOk
  <2> QED BY <1>3, <2>2 DEF CtxOk
<1>4. WireOk(m, L, t, h, c.requested)
  BY <1>1, <1>2 DEF WireOk, Flow
<1> QED BY <1>3, <1>4, ReadyMore DEF Flow

\* Nothing is claimed of a peer whose chain changed.
LEMMA FlowMoved ==
  ASSUME NEW K, NEW t, NEW u, NEW h \in BOOLEAN, NEW c, NEW m, NEW j, Flow(K, t, h, c, m, j)
  PROVE  Flow(K, u, FALSE, c, m, j)
<1>1. \A x, q : OutOk(x, K, t, h, q) => OutOk(x, K, u, FALSE, q)
  BY DEF OutOk
<1>2. \A x, q : InOk(x, K, t, h, q) => InOk(x, K, u, FALSE, q)
  BY DEF InOk
<1>3. WireOk(m, K, u, FALSE, c.requested)
  BY <1>1, <1>2 DEF WireOk, Flow
<1> QED BY <1>3 DEF Flow

\* A step of one connection.
LEMMA FlowOne ==
  ASSUME SyncInv, FlowInv, NEW p \in Peers, NEW m, NEW c, NEW j,
         wire' = [wire EXCEPT ![p] = m], ctx' = [ctx EXCEPT ![p] = c], job' = [job EXCEPT ![p] = j],
         KnownInv', known \subseteq known', NetInv',
         \A q \in Peers \ {p} : peer'[q] = peer[q] /\ (q \in net'.moved <=> q \in net.moved),
         Flow(known', peer'[p], p \notin net'.moved, c, m, j)
  PROVE  FlowInv'
<1>1. /\ wire' = [q \in Peers |-> IF q = p THEN m ELSE wire[q]]
      /\ ctx' = [q \in Peers |-> IF q = p THEN c ELSE ctx[q]]
      /\ job' = [q \in Peers |-> IF q = p THEN j ELSE job[q]]
  BY DEF SyncInv
<1>2. ASSUME NEW q \in Peers PROVE Flow(known', peer'[q], q \notin net'.moved, ctx'[q], wire'[q], job'[q])
  <2>1. CASE q = p
    <3>1. wire'[q] = m /\ ctx'[q] = c /\ job'[q] = j
      BY <1>1, <2>1
    <3> QED BY <2>1, <3>1
  <2>2. CASE q # p
    <3>1. wire'[q] = wire[q] /\ ctx'[q] = ctx[q] /\ job'[q] = job[q]
      BY <1>1, <2>2
    <3>2. peer'[q] = peer[q] /\ (q \notin net'.moved) = (q \notin net.moved)
      BY <2>2
    <3>3. Flow(known, peer[q], q \notin net.moved, ctx[q], wire[q], job[q])
      BY DEF FlowInv
    <3>4. Flow(known', peer[q], q \notin net.moved, ctx[q], wire[q], job[q])
      BY <3>3, FlowMore
    <3> QED BY <3>1, <3>2, <3>4
  <2> QED BY <2>1, <2>2
<1> QED BY <1>2 DEF FlowInv

LEMMA FlowClosed ==
  ASSUME NEW K, NEW t \in Blocks, NEW h \in BOOLEAN
  PROVE  Flow(K, t, h, Gone, NoWire, NoJob)
<1>1. CtxTypes(Gone) /\ Gone.requested = {}
  BY DEF CtxTypes, Gone, Fresh, States
<1>2. JobTypes(NoJob) /\ NoJob.kind = "none"
  BY DEF JobTypes, NoJob
<1>3. Range(NoWire.out) = {} /\ Range(NoWire.in) = {} /\ ~NoWire.up
  BY DEF NoWire, Range
<1>4. WireOk(NoWire, K, t, h, {})
  BY <1>3 DEF WireOk
<1> QED BY <1>1, <1>2, <1>3, <1>4 DEF Flow

\* A connection is dropped, or its link is lost.
LEMMA FlowEnds ==
  ASSUME SyncInv, FlowInv, NEW p \in Peers, wire' = [wire EXCEPT ![p] = NoWire],
         \/ ctx' = [ctx EXCEPT ![p] = Gone] /\ job' = [job EXCEPT ![p] = NoJob]
         \/ ctx' = [ctx EXCEPT ![p] = IF job[p] = NoJob THEN Gone ELSE @] /\ job' = job,
         KnownInv', known \subseteq known', NetInv', peer' = peer, net'.moved = net.moved
  PROVE  FlowInv'
<1>0. peer[p] \in Blocks /\ Flow(known, peer[p], p \notin net.moved, ctx[p], wire[p], job[p])
  BY DEF FlowInv, NetInv
<1>1. Flow(known', peer'[p], p \notin net'.moved, Gone, NoWire, NoJob)
  <2> DEFINE h == p \notin net'.moved
  <2>1. h \in BOOLEAN
    OBVIOUS
  <2> HIDE DEF h
  <2>2. Flow(known', peer[p], h, Gone, NoWire, NoJob)
    BY <1>0, <2>1, FlowClosed
  <2> QED BY <2>2 DEF h
<1>2. CASE ctx' = [ctx EXCEPT ![p] = Gone] /\ job' = [job EXCEPT ![p] = NoJob]
  BY <1>1, <1>2, FlowOne
<1>3. CASE ctx' = [ctx EXCEPT ![p] = IF job[p] = NoJob THEN Gone ELSE @] /\ job' = job
  <2>1. job' = [job EXCEPT ![p] = job[p]]
    BY <1>3 DEF SyncInv
  <2>2. CASE job[p] = NoJob
    <3>1. ctx' = [ctx EXCEPT ![p] = Gone]
      BY <1>3, <2>2
    <3> QED BY <1>1, <2>1, <2>2, <3>1, FlowOne
  <2>3. CASE job[p] # NoJob
    <3>1. ctx' = [ctx EXCEPT ![p] = ctx[p]]
      BY <1>3, <2>3
    <3>2. Range(NoWire.out) = {} /\ Range(NoWire.in) = {} /\ ~NoWire.up
      BY DEF NoWire, Range
    <3>3. Flow(known, peer[p], p \notin net.moved, ctx[p], NoWire, job[p])
      BY <1>0, <3>2 DEF Flow, WireOk
    <3>4. Flow(known', peer'[p], p \notin net'.moved, ctx[p], NoWire, job[p])
      BY <3>3, FlowMore
    <3> QED BY <2>1, <3>1, <3>4, FlowOne
  <2> QED BY <2>2, <2>3
<1> QED BY <1>2, <1>3

-----------------------------------------------------------------------------
(* Messages on the wire. *)

LEMMA RangeOf ==
  ASSUME NEW s, IsSeq(s)
  PROVE  /\ \A x : IsSeq(Append(s, x)) /\ Range(Append(s, x)) = Range(s) \cup {x}
         /\ s # << >> => Head(s) \in Range(s) /\ IsSeq(Tail(s)) /\ Range(Tail(s)) \subseteq Range(s)
         /\ \A type : Count(s, type) = 0 => \A x \in Range(s) : x.t # type
<1>1. s \in Seq(Range(s))
  BY DEF IsSeq
<1>2. \A x : IsSeq(Append(s, x)) /\ Range(Append(s, x)) = Range(s) \cup {x}
  <2> TAKE x
  <2> DEFINE E == Range(s)
  <2>1. s \in Seq(E)
    BY <1>1
  <2> HIDE DEF E
  <2>2. Range(Append(s, x)) = Range(s) \cup {x}
    BY <2>1, RangeAppend
  <2> QED BY <2>2, CountAppend
<1>3. s # << >> => Head(s) \in Range(s) /\ IsSeq(Tail(s)) /\ Range(Tail(s)) \subseteq Range(s)
  <2> DEFINE E == Range(s)
  <2>1. s \in Seq(E)
    BY <1>1
  <2> HIDE DEF E
  <2> QED BY <2>1, RangeFacts, CountTail
<1>4. ASSUME NEW type, Count(s, type) = 0, NEW x \in Range(s) PROVE x.t # type
  <2>1. IsFiniteSet({ i \in DOMAIN s : s[i].t = type })
    BY CountType
  <2>2. { i \in DOMAIN s : s[i].t = type } = {}
    BY <1>4, <2>1, FS_EmptySet DEF Count
  <2> QED BY <2>2 DEF Range
<1> QED BY <1>2, <1>3, <1>4

\* What is requested matters to requests of blocks and to blocks alone.
LEMMA WireRequested ==
  ASSUME NEW m, WireShape(m), NEW K, NEW t, NEW h \in BOOLEAN, NEW q, WireOk(m, K, t, h, q), NEW r,
         Count(m.out, "objects") = 0, Count(m.in, "blocks") = 0
  PROVE  WireOk(m, K, t, h, r)
<1> DEFINE o == m.out
           i == m.in
<1>1. IsSeq(o) /\ IsSeq(i) /\ Count(o, "objects") = 0 /\ Count(i, "blocks") = 0
  BY DEF WireShape
<1> HIDE DEF o, i
<1>2. (\A x \in Range(o) : x.t # "objects") /\ (\A x \in Range(i) : x.t # "blocks")
  BY <1>1, RangeOf
<1>3. \A x \in Range(o) : OutOk(x, K, t, h, r)
  BY <1>2 DEF OutOk, WireOk, o
<1>4. \A x \in Range(i) : InOk(x, K, t, h, r)
  BY <1>2 DEF InOk, WireOk, i
<1> QED BY <1>3, <1>4 DEF WireOk, o, i

Posts(z) == z = << >> \/ \E x : z = << x >>

LEMMA WireTaken ==
  ASSUME NEW m, WireShape(m), NEW taken \in BOOLEAN, taken => m.in # << >>,
         NEW K, NEW t, NEW h \in BOOLEAN, NEW q, WireOk(m, K, t, h, q), NEW r,
         q = r \/ (Count(m.out, "objects") = 0 /\ Count(Rest(m, taken), "blocks") = 0),
         NEW posts, Posts(posts), \A x \in Range(posts) : OutOk(x, K, t, h, r)
  PROVE  WireOk(After(m, posts, taken), K, t, h, r)
<1> DEFINE o == m.out
           i == m.in
           n == Rest(m, taken)
           w == [up |-> TRUE, out |-> o, in |-> n]
<1>1. IsSeq(o) /\ IsSeq(i) /\ (taken => i # << >>) /\ n = (IF taken THEN Tail(i) ELSE i)
  BY DEF WireShape, Rest
<1>2. IsSeq(n) /\ Range(n) \subseteq Range(i)
  <2> HIDE DEF i, n
  <2> QED BY <1>1, RangeOf
<1>3. WireOk(w, K, t, h, q)
  BY <1>2 DEF WireOk
<1>4. WireShape(w)
  <2> HIDE DEF o, n
  <2> QED BY <1>1, <1>2 DEF WireShape
<1>5. WireOk(w, K, t, h, r)
  <2>1. w.out = m.out /\ w.in = Rest(m, taken)
    OBVIOUS
  <2> HIDE DEF w
  <2> QED BY <1>3, <1>4, <2>1, WireRequested
<1> DEFINE a == After(m, posts, taken)
<1>6. a.out = o \o posts /\ a.in = n
  BY DEF After, Rest
<1>7. Range(o \o posts) = Range(o) \cup Range(posts)
  <2> HIDE DEF o
  <2>1. CASE posts = << >>
    <3>1. o \o posts = o /\ Range(posts) = {}
      BY <1>1, <2>1, Posted DEF Range
    <3> QED BY <3>1
  <2>2. ASSUME NEW x, posts = << x >> PROVE Range(o \o posts) = Range(o) \cup Range(posts)
    <3>1. o \o posts = Append(o, x) /\ Range(posts) = {x}
      BY <1>1, <2>2, Posted DEF Range
    <3> QED BY <1>1, <3>1, RangeOf
  <2> QED BY <2>1, <2>2 DEF Posts
<1>8. w.out = o /\ w.in = n
  OBVIOUS
<1> HIDE DEF a, o, n, w
<1>9. WireOk(a, K, t, h, r)
  BY <1>5, <1>6, <1>7, <1>8 DEF WireOk
<1> QED BY <1>9 DEF a

\* A message arrives, or is answered.
LEMMA WireArrives ==
  ASSUME NEW m, WireShape(m), NEW K, NEW t, NEW h \in BOOLEAN, NEW q, WireOk(m, K, t, h, q),
         NEW x, InOk(x, K, t, h, q), NEW n, n.in = Append(m.in, x),
         n.out = m.out \/ (m.out # << >> /\ n.out = Tail(m.out))
  PROVE  WireOk(n, K, t, h, q)
<1> DEFINE o == m.out
           i == m.in
<1>1. IsSeq(o) /\ IsSeq(i)
  BY DEF WireShape
<1> HIDE DEF o, i
<1>2. Range(Append(i, x)) = Range(i) \cup {x} /\ (o # << >> => Range(Tail(o)) \subseteq Range(o))
  BY <1>1, RangeOf
<1>3. Range(n.in) = Range(i) \cup {x} /\ Range(n.out) \subseteq Range(o)
  BY <1>2 DEF o, i
<1> QED BY <1>3 DEF WireOk, o, i

\* A handler ends.
LEMMA FlowHandlerEnds ==
  ASSUME SyncInv, FlowInv, NEW p \in Peers, NEW c, NEW posts, NEW taken \in BOOLEAN, Ends(p, c, posts, taken),
         taken => wire[p].in # << >>,
         KnownInv', known \subseteq known', NetInv', peer' = peer, net'.moved = net.moved,
         wire[p].up =>
           /\ CtxTypes(c) /\ Posts(posts)
           /\ \A x \in Range(posts) : OutOk(x, known', peer[p], p \notin net.moved, c.requested)
           /\ \/ ctx[p].requested = c.requested
              \/ Count(wire[p].out, "objects") = 0 /\ Count(Rest(wire[p], taken), "blocks") = 0
           /\ p \notin net.moved => CtxOk(c, known', peer[p], {})
  PROVE  FlowInv'
<1> DEFINE w == wire[p]
           m == After(w, posts, taken)
           t == peer[p]
           h == p \notin net.moved
<1>0. WireShape(w) /\ h \in BOOLEAN
  BY DEF SyncInv, ConnInv
<1>1. CASE wire[p].up
  <2>1. wire' = [wire EXCEPT ![p] = m] /\ ctx' = [ctx EXCEPT ![p] = c] /\ job' = [job EXCEPT ![p] = NoJob]
    BY <1>1 DEF Ends, After
  <2>2. Flow(known', t, h, ctx[p], w, job[p])
    <3>1. Flow(known, t, h, ctx[p], w, job[p])
      BY DEF FlowInv
    <3> HIDE DEF t, h, w
    <3> QED BY <1>0, <3>1, FlowMore
  <2>3. WireOk(m, known', t, h, c.requested)
    <3>1. WireOk(w, known', t, h, ctx[p].requested)
      BY <2>2 DEF Flow
    <3>2. /\ ctx[p].requested = c.requested \/ (Count(w.out, "objects") = 0 /\ Count(Rest(w, taken), "blocks") = 0)
          /\ Posts(posts) /\ \A x \in Range(posts) : OutOk(x, known', t, h, c.requested)
          /\ taken => w.in # << >>
      BY <1>1
    <3> HIDE DEF t, h, w
    <3> QED BY <1>0, <3>1, <3>2, WireTaken
  <2>4. JobTypes(NoJob) /\ NoJob.kind = "none" /\ JobBlocks(NoJob) = {}
    BY DEF JobTypes, NoJob, JobBlocks
  <2>5. CtxTypes(c) /\ (h => CtxOk(c, known', t, {}))
    BY <1>1
  <2> HIDE DEF m
  <2>6. Flow(known', peer'[p], p \notin net'.moved, c, m, NoJob)
    BY <2>3, <2>4, <2>5 DEF Flow
  <2> QED BY <2>1, <2>6, FlowOne
<1>2. CASE ~wire[p].up
  <2>1. wire' = [wire EXCEPT ![p] = NoWire] /\ ctx' = [ctx EXCEPT ![p] = Gone] /\ job' = [job EXCEPT ![p] = NoJob]
    BY <1>2 DEF Ends
  <2> QED BY <2>1, FlowEnds
<1> QED BY <1>1, <1>2

-----------------------------------------------------------------------------
(* What a connection asks for. *)

LEMMA ShortHistoryFacts ==
  ASSUME NEW ids \in Seq(Blocks)
  PROVE  /\ ShortHistory(ids) \in Seq(Blocks) /\ Genesis \in Range(ShortHistory(ids))
         /\ Range(ShortHistory(ids)) \subseteq Range(ids) \cup {Genesis}
<1> DEFINE n == Len(ids)
           all == [k \in 1 .. n |-> k]
           some == { k \in 1 .. n : Sampled(k) }
           picks == Those(all, some)
           a == [i \in DOMAIN picks |-> ids[n + 1 - picks[i]]]
           r == a \o << Genesis >>
<1>0. n \in Nat /\ (\A i \in 1 .. n : ids[i] \in Blocks /\ ids[i] \in Range(ids)) /\ Genesis \in Blocks
  BY RangeFacts, TreeAssumption
<1>1. ShortHistory(ids) = r
  BY DEF ShortHistory
<1>2. picks \in Seq(1 .. n)
  <2>1. all \in Seq(1 .. n)
    BY <1>0
  <2> HIDE DEF all, some, n
  <2> QED BY <2>1, ThoseFacts
<1> HIDE DEF picks, n
<1>3. a \in Seq(Blocks) /\ Range(a) \subseteq Range(ids)
  <2>1. DOMAIN picks = 1 .. Len(picks) /\ Len(picks) \in Nat
    BY <1>2
  <2>2. \A i \in DOMAIN picks : ids[n + 1 - picks[i]] \in Blocks /\ ids[n + 1 - picks[i]] \in Range(ids)
    <3> TAKE i \in DOMAIN picks
    <3>1. picks[i] \in 1 .. n
      <4> DEFINE N == 1 .. n
      <4>1. picks \in Seq(N)
        BY <1>2
      <4> HIDE DEF N
      <4>2. picks[i] \in N
        BY <4>1
      <4> QED BY <4>2 DEF N
    <3>2. n + 1 - picks[i] \in 1 .. n
      BY <1>0, <3>1
    <3> QED BY <1>0, <3>2
  <2> QED BY <2>1, <2>2 DEF Range
<1> HIDE DEF a
<1>4. r = Append(a, Genesis)
  BY <1>0, <1>3
<1> HIDE DEF r
<1>5. r \in Seq(Blocks) /\ Range(r) = Range(a) \cup {Genesis}
  BY <1>0, <1>3, <1>4, RangeAppend
<1> QED BY <1>1, <1>3, <1>5

LEMMA AskedIds ==
  ASSUME NEW ids \in Seq(Blocks), NEW K, NEW h \in BOOLEAN, Genesis \in K, h => Range(ids) \subseteq K, NEW t, NEW q, NEW c
  PROVE  LET r == Asking(c, ShortHistory(ids))
         IN  Posts(r[2]) /\ \A x \in Range(r[2]) : OutOk(x, K, t, h, q)
<1> DEFINE s == ShortHistory(ids)
           x == [t |-> "chain", ids |-> s]
           z == << x >>
<1>1. s \in Seq(Blocks) /\ Genesis \in Range(s) /\ (h => Range(s) \subseteq K)
  BY ShortHistoryFacts
<1>2. Asking(c, s)[2] = z
  BY DEF Asking
<1> HIDE DEF s
<1>3. x.t = "chain" /\ x.ids = s
  OBVIOUS
<1> HIDE DEF x
<1>4. OutOk(x, K, t, h, q)
  BY <1>1, <1>3 DEF OutOk
<1>5. Posts(z) /\ Range(z) = {x}
  BY DEF Posts, Range
<1> QED BY <1>2, <1>4, <1>5 DEF s

LEMMA WantedFacts ==
  ASSUME NEW c, c.needed \in Seq(Blocks), NEW check, NEW lim
  PROVE  LET w == Wanted(c, check, lim)
             S == IF check THEN Blocks \ known ELSE Blocks
         IN  w.taken \in 0 .. Len(c.needed) /\ w.ids = Those(SubSeq(c.needed, 1, w.taken), S)
<1> DEFINE missing == IF check THEN Blocks \ known ELSE Blocks
           l == Len(c.needed)
           full == { i \in 1 .. l : Cardinality({ j \in 1 .. i : check => ~Have(c.needed[j]) }) = lim }
           n == IF full = {} THEN l ELSE CHOOSE i \in full : \A j \in full : i <= j
<1>1. l \in Nat /\ full \in SUBSET (1 .. l)
  OBVIOUS
<1>2. Wanted(c, check, lim).taken = n /\ Wanted(c, check, lim).ids = Those(SubSeq(c.needed, 1, n), missing)
  BY DEF Wanted
<1> HIDE DEF full, l
<1>3. n \in 0 .. l
  <2>1. CASE full = {}
    BY <1>1, <2>1
  <2>2. CASE full # {}
    <3>1. full \in SUBSET Nat
      BY <1>1
    <3>2. PICK i \in full : \A j \in full : ~(j < i)
      BY <2>2, <3>1, LeastElement
    <3>3. \A j \in full : i <= j
      BY <3>1, <3>2
    <3>4. n \in full
      BY <2>2, <3>3
    <3> HIDE DEF n
    <3>5. n \in 1 .. l
      BY <1>1, <3>4
    <3> QED BY <1>1, <3>5
  <2> QED BY <2>1, <2>2
<1> HIDE DEF n, missing
<1> QED BY <1>2, <1>3 DEF l, missing

\* request_missing_objects keeps the promises of the connection.
LEMMA RequestFlow ==
  ASSUME NEW c, CtxShape(c), CtxTypes(c), Rooted(known), top \in known, NEW t \in Blocks, NEW h \in BOOLEAN,
         c.requested = {}, c.state = "synchronizing", h => CtxOk(c, known, t, {}), NEW check, NEW lim
  PROVE  LET r == RequestMissing(c, check, lim)
         IN  /\ CtxTypes(r[1]) /\ Posts(r[2])
             /\ \A x \in Range(r[2]) : OutOk(x, known, t, h, r[1].requested)
             /\ h => CtxOk(r[1], known, t, {})
<1> DEFINE r == RequestMissing(c, check, lim)
<1>0. Genesis \in known /\ known \subseteq Blocks
  BY DEF Rooted
<1>1. CASE c.needed # << >>
  <2> DEFINE w == Wanted(c, check, lim)
             k == w.taken
             ids == w.ids
             a == SubSeq(c.needed, 1, k)
             n == SubSeq(c.needed, k + 1, Len(c.needed))
             q == c.requested \cup Range(ids)
             z == c.expectObjects + 1
             d == [c EXCEPT !.needed = n, !.requested = q, !.expectObjects = z]
             x == [t |-> "objects", blocks |-> ids]
             S == IF check THEN Blocks \ known ELSE Blocks
  <2>1. r = << d, << x >> >>
    BY <1>1 DEF RequestMissing
  <2>2. c.needed \in Seq(Blocks)
    BY DEF CtxTypes
  <2>3. k \in 0 .. Len(c.needed) /\ ids = Those(a, S)
    BY <2>2, WantedFacts
  <2> HIDE DEF w
  <2>4. /\ d.state = c.state /\ d.needed = n /\ d.fetched = c.fetched /\ d.requested = q
        /\ d.lastResponse = c.lastResponse /\ d.remoteSize = c.remoteSize
    <3> HIDE DEF n, q, z
    <3> QED BY DEF CtxShape
  <2> HIDE DEF d
  <2>5. /\ a \in Seq(Blocks) /\ n \in Seq(Blocks) /\ Range(c.needed) = Range(a) \cup Range(n)
        /\ \A K : Ready(K, c.needed) => Ready(K, a) /\ Ready(K \cup Range(a), n)
    <3> DEFINE s == c.needed
    <3>1. s \in Seq(Blocks) /\ k \in 0 .. Len(s)
      BY <2>2, <2>3
    <3>2. ASSUME NEW K, Ready(K, s) PROVE Ready(K, SubSeq(s, 1, k)) /\ Ready(K \cup Range(SubSeq(s, 1, k)), SubSeq(s, k + 1, Len(s)))
      <4> HIDE DEF s, k
      <4> QED BY <3>1, <3>2, ReadySplit
    <3>3. Ready(Blocks, s)
      <4> HIDE DEF s
      <4>1. \A i \in 1 .. Len(s) : s[i] \in Blocks
        BY <3>1
      <4> QED BY <4>1 DEF Ready
    <3>4. /\ SubSeq(s, 1, k) \in Seq(Blocks) /\ SubSeq(s, k + 1, Len(s)) \in Seq(Blocks)
          /\ Range(s) = Range(SubSeq(s, 1, k)) \cup Range(SubSeq(s, k + 1, Len(s)))
      <4> HIDE DEF s, k
      <4> QED BY <3>1, <3>3, ReadySplit
    <3> QED BY <3>2, <3>4
  <2> HIDE DEF a, n, k
  <2>6. /\ ids \in Seq(Blocks) /\ Range(ids) = Range(a) \cap S
        /\ \A K : Ready(K, a) /\ Range(a) \ S \subseteq K => Ready(K, ids)
    <3> HIDE DEF S, ids
    <3> QED BY <2>3, <2>5, ThoseFacts
  <2>7. Range(a) \subseteq Blocks /\ Range(n) \subseteq Blocks
    BY <2>5, RangeFacts
  <2>8. Range(a) \ S \subseteq known /\ Range(a) \subseteq known \cup Range(ids) /\ Range(ids) \subseteq Range(a)
    <3> HIDE DEF ids
    <3>1. CASE check
      BY <2>6, <2>7, <3>1
    <3>2. CASE ~check
      BY <2>6, <2>7, <3>2
    <3> QED BY <3>1, <3>2
  <2> HIDE DEF ids, S
  <2>9. q = Range(ids) /\ q \subseteq Blocks
    BY <2>7, <2>8
  <2> HIDE DEF q
  <2>10. CtxTypes(d)
    BY <2>4, <2>5, <2>9 DEF CtxTypes
  <2>11. ASSUME h PROVE Ready(known, ids) /\ Range(ids) \subseteq Chain(t) /\ CtxOk(d, known, t, {})
    <3>1. /\ c.lastResponse <= Size(t) /\ Range(c.needed) \subseteq Chain(t)
          /\ Ready(known, c.needed) /\ Range(c.fetched) \subseteq known \cup Range(c.needed)
      <4>1. known \cup c.requested \cup {} = known
        OBVIOUS
      <4> QED BY <2>11, <4>1 DEF CtxOk
    <3>2. Ready(known, a) /\ Ready(known \cup Range(a), n)
      BY <2>5, <3>1
    <3>3. Ready(known, ids)
      BY <2>6, <2>8, <3>2
    <3>4. Ready(known \cup q \cup {}, n)
      <4>1. known \cup Range(a) \subseteq known \cup q \cup {}
        BY <2>8, <2>9
      <4> QED BY <3>2, <4>1, ReadyMore
    <3>5. Range(c.fetched) \subseteq known \cup q \cup {} \cup Range(n)
      BY <2>5, <2>8, <2>9, <3>1
    <3>6. CtxOk(d, known, t, {})
      BY <2>4, <2>5, <3>1, <3>4, <3>5 DEF CtxOk
    <3> QED BY <2>5, <2>8, <3>1, <3>3, <3>6
  <2>12. x.t = "objects" /\ x.blocks = ids
    OBVIOUS
  <2> HIDE DEF x
  <2>13. OutOk(x, known, t, h, d.requested)
    BY <2>4, <2>6, <2>9, <2>11, <2>12 DEF OutOk
  <2> DEFINE y == << x >>
  <2>14. Posts(y) /\ Range(y) = {x}
    BY DEF Posts, Range
  <2>15. r[1] = d /\ r[2] = y
    BY <2>1
  <2> HIDE DEF r, y
  <2> QED BY <2>10, <2>11, <2>13, <2>14, <2>15 DEF r
<1>2. CASE c.needed = << >> /\ c.lastResponse < c.remoteSize - 1
  <2> DEFINE d == [c EXCEPT !.fetched = << >>]
             mine == Path[top]
  <2>1. r = AskForIds(c)
    BY <1>2 DEF RequestMissing
  <2>2. \/ r = Asking(c, ShortHistory(c.fetched))
        \/ r = Asking(d, ShortHistory(mine))
    BY <2>1 DEF AskForIds
  <2>3. c.fetched \in Seq(Blocks) /\ (h => Range(c.fetched) \subseteq known)
    <3>1. h => Range(c.fetched) \subseteq known \cup c.requested \cup {} \cup Range(c.needed)
      BY DEF CtxOk
    <3>2. Range(c.needed) = {}
      BY <1>2 DEF Range
    <3> QED BY <3>1, <3>2 DEF CtxTypes
  <2>4. mine \in Seq(Blocks) /\ Range(mine) \subseteq known
    <3>1. Chain(top) \subseteq known
      BY RootedChain
    <3> QED BY <1>0, <3>1, PathDef DEF Chain
  <2>5. /\ CtxShape(d) /\ d.state = c.state /\ d.needed = c.needed /\ d.fetched = << >> /\ d.requested = {}
        /\ d.lastResponse = c.lastResponse /\ d.remoteSize = c.remoteSize
    BY DEF CtxShape
  <2> HIDE DEF d
  <2>6. CtxTypes(d) /\ (h => CtxOk(d, known, t, {}))
    <3>1. Range(d.fetched) = {} /\ << >> \in Seq(Blocks)
      BY <2>5 DEF Range
    <3>2. CtxTypes(d)
      BY <2>5, <3>1 DEF CtxTypes
    <3> QED BY <2>5, <3>1, <3>2 DEF CtxOk
  <2>7. ASSUME NEW b, CtxShape(b), CtxTypes(b), h => CtxOk(b, known, t, {}), b.requested = {},
               NEW s \in Seq(Blocks), h => Range(s) \subseteq known, r = Asking(b, ShortHistory(s))
        PROVE  /\ CtxTypes(r[1]) /\ Posts(r[2])
               /\ \A x \in Range(r[2]) : OutOk(x, known, t, h, r[1].requested)
               /\ h => CtxOk(r[1], known, t, {})
    <3> DEFINE e == [b EXCEPT !.expectChain = @ + 1]
               v == Asking(b, ShortHistory(s))
    <3>1. v[1] = e
      BY DEF Asking
    <3>2. /\ e.state = b.state /\ e.needed = b.needed /\ e.fetched = b.fetched /\ e.requested = b.requested
          /\ e.lastResponse = b.lastResponse /\ e.remoteSize = b.remoteSize
      BY <2>7 DEF CtxShape
    <3> HIDE DEF e
    <3>3. CtxTypes(e) /\ (h => CtxOk(e, known, t, {}))
      BY <2>7, <3>2 DEF CtxTypes, CtxOk
    <3>4. Posts(v[2]) /\ \A x \in Range(v[2]) : OutOk(x, known, t, h, e.requested)
      BY <1>0, <2>7, AskedIds
    <3> HIDE DEF r, v
    <3> QED BY <2>7, <3>1, <3>3, <3>4 DEF v
  <2> HIDE DEF mine, r
  <2> QED BY <2>2, <2>3, <2>4, <2>5, <2>6, <2>7 DEF r
<1>3. CASE c.needed = << >> /\ ~(c.lastResponse < c.remoteSize - 1)
  <2> DEFINE d == [c EXCEPT !.state = "normal"]
  <2>1. r = << d, << >> >> \/ r = << c, << >> >>
    BY <1>3 DEF RequestMissing
  <2>2. /\ d.state = "normal" /\ d.needed = c.needed /\ d.fetched = c.fetched /\ d.requested = c.requested
        /\ d.lastResponse = c.lastResponse /\ d.remoteSize = c.remoteSize
    BY DEF CtxShape
  <2> HIDE DEF d
  <2>3. CtxTypes(d) /\ (h => CtxOk(d, known, t, {}))
    BY <2>2 DEF CtxTypes, CtxOk, States
  <2>4. r[1] \in {c, d} /\ r[2] = << >>
    BY <2>1
  <2>5. Posts(r[2]) /\ Range(r[2]) = {}
    BY <2>4 DEF Posts, Range
  <2> HIDE DEF r
  <2> QED BY <2>3, <2>4, <2>5 DEF r
<1> QED BY <1>1, <1>2, <1>3

-----------------------------------------------------------------------------
(* The answers of the peers. *)

LEMMA ConcatFacts ==
  ASSUME NEW s \in Seq(Blocks), NEW t \in Seq(Blocks)
  PROVE  /\ s \o t \in Seq(Blocks) /\ Range(s \o t) = Range(s) \cup Range(t)
         /\ \A K : Ready(K, s) /\ Ready(K, t) => Ready(K, s \o t)
<1>1. ASSUME NEW r \in Seq(Blocks) PROVE Ready(Blocks, r)
  <2>1. \A i \in 1 .. Len(r) : r[i] \in Blocks
    OBVIOUS
  <2> QED BY <2>1 DEF Ready
<1>2. Ready(Blocks, s) /\ Ready(Blocks, t)
  BY <1>1
<1> QED BY <1>2, ReadyConcat

LEMMA Concat ==
  ASSUME NEW s \in Seq(Blocks), NEW t \in Seq(Blocks)
  PROVE  /\ s \o t \in Seq(Blocks) /\ Len(s \o t) = Len(s) + Len(t) /\ Len(s) \in Nat /\ Len(t) \in Nat
         /\ \A i \in 1 .. Len(s) : (s \o t)[i] = s[i]
         /\ \A i \in 1 .. Len(t) : (s \o t)[Len(s) + i] = t[i]
OBVIOUS

\* A part of a chain that starts at height n with the block b.
LEMMA PartOfChain ==
  ASSUME NEW t \in Blocks, NEW b \in Chain(t), NEW end \in Nat,
         Height(b) + 1 <= end, end <= Size(t)
  PROVE  LET chain == << Genesis >> \o Path[t]
             ids   == SubSeq(chain, Height(b) + 1, end)
         IN  /\ Len(chain) = Size(t) /\ Height(b) \in Nat /\ ids \in Seq(Blocks) /\ ids # << >> /\ ids[1] = b
             /\ Height(b) + Len(ids) = end /\ Range(ids) \subseteq Chain(t)
             /\ \A K : b \in K => Ready(K, ids)
<1> DEFINE q == Path[t]
           n == Len(q)
           g == << Genesis >>
           chain == g \o q
           s == Height(b)
           ids == SubSeq(chain, s + 1, end)
<1>1. q \in Seq(Blocks) /\ Size(t) = n + 1 /\ n \in Nat
  BY PathDef DEF Size, Height
<1>2. /\ chain \in Seq(Blocks) /\ Len(chain) = n + 1 /\ chain[1] = Genesis
      /\ \A h \in 1 .. n : chain[h + 1] = q[h]
  <2>1. g \in Seq(Blocks) /\ Len(g) = 1 /\ g[1] = Genesis
    BY TreeAssumption
  <2> HIDE DEF q, g
  <2>2. /\ chain \in Seq(Blocks) /\ Len(chain) = Len(g) + Len(q)
        /\ \A i \in 1 .. Len(g) : chain[i] = g[i]
        /\ \A i \in 1 .. Len(q) : chain[Len(g) + i] = q[i]
    BY <1>1, <2>1, Concat
  <2> HIDE DEF chain
  <2>3. \A h \in 1 .. n : Len(g) + h = h + 1
    BY <1>1, <2>1
  <2>4. 1 \in 1 .. Len(g) /\ Len(g) + Len(q) = n + 1
    BY <1>1, <2>1
  <2>5. \A h \in 1 .. n : chain[h + 1] = q[h]
    BY <2>2, <2>3
  <2>6. chain[1] = Genesis
    BY <2>1, <2>2, <2>4
  <2>7. Len(chain) = n + 1
    BY <2>2, <2>4
  <2> HIDE DEF n
  <2> QED BY <2>2, <2>5, <2>6, <2>7
<1>3. s \in 0 .. n /\ chain[s + 1] = b
  <2>1. CASE b = Genesis
    <3>1. s = 0
      BY <2>1, PathOfGenesis DEF Height
    <3> QED BY <1>1, <1>2, <2>1, <3>1
  <2>2. CASE b # Genesis
    <3>1. PICK h \in 1 .. n : q[h] = b
      <4>1. b \in Range(q)
        BY <2>2 DEF Chain
      <4> QED BY <1>1, <4>1, RangeFacts
    <3>2. StepOfPath(t, h)
      BY <3>1, PathSteps
    <3>3. s = h
      BY <3>1, <3>2 DEF StepOfPath, Height
    <3> HIDE DEF q, n, chain, s
    <3> QED BY <1>1, <1>2, <3>1, <3>3
  <2> QED BY <2>1, <2>2
<1>4. \A h \in 1 .. n : q[h] \in Chain(t) /\ Parent[q[h]] = IF h = 1 THEN Genesis ELSE q[h - 1]
  <2> TAKE h \in 1 .. n
  <2>1. StepOfPath(t, h)
    BY PathSteps
  <2>2. q[h] \in Range(q)
    BY <1>1, RangeFacts
  <2> QED BY <2>1, <2>2 DEF StepOfPath, Chain
<1> HIDE DEF q, n, s, chain
<1>5. \A h \in 1 .. (n + 1) : chain[h] \in Chain(t) /\ (h # 1 => Parent[chain[h]] = chain[h - 1])
  <2> TAKE h \in 1 .. (n + 1)
  <2>1. CASE h = 1
    BY <1>2, <2>1 DEF Chain
  <2>2. CASE h # 1
    <3>1. h - 1 \in 1 .. n /\ (h - 1) + 1 = h
      BY <1>1, <2>2
    <3>2. chain[h] = q[h - 1]
      BY <1>2, <3>1
    <3>3. Parent[q[h - 1]] = IF h - 1 = 1 THEN Genesis ELSE q[h - 2]
      BY <1>4, <3>1
    <3>4. chain[h - 1] = IF h - 1 = 1 THEN Genesis ELSE q[h - 2]
      <4>1. CASE h - 1 = 1
        BY <1>2, <4>1
      <4>2. CASE h - 1 # 1
        <5>1. h - 2 \in 1 .. n /\ (h - 2) + 1 = h - 1
          BY <1>1, <3>1, <4>2
        <5> QED BY <1>2, <4>2, <5>1
      <4> QED BY <4>1, <4>2
    <3> QED BY <1>4, <3>1, <3>2, <3>3, <3>4
  <2> QED BY <2>1, <2>2
<1>6. /\ s \in Nat /\ s + 1 <= end /\ end <= n + 1 /\ end - s \in Nat /\ end - s # 0
  BY <1>1, <1>3 DEF s
<1>7. /\ ids \in Seq(Blocks) /\ Len(ids) = end - s
      /\ \A i \in 1 .. (end - s) : ids[i] = chain[s + i]
  <2>1. \A i \in 1 .. (end - s) : s + i \in 1 .. Len(chain) /\ chain[s + i] \in Blocks
    BY <1>1, <1>2, <1>6
  <2>2. ids = [i \in 1 .. (end - s) |-> chain[s + i]]
    BY <1>1, <1>2, <1>6
  <2> DEFINE k == end - s
  <2>3. k \in Nat /\ (\A i \in 1 .. k : chain[s + i] \in Blocks) /\ ids = [i \in 1 .. k |-> chain[s + i]]
    BY <1>6, <2>1, <2>2
  <2> HIDE DEF ids, k
  <2>4. ids \in Seq(Blocks) /\ Len(ids) = k /\ \A i \in 1 .. k : ids[i] = chain[s + i]
    BY <2>3
  <2> QED BY <2>4 DEF k
<1> HIDE DEF ids
<1>8. ids # << >> /\ ids[1] = b /\ s + Len(ids) = end
  <2>1. Len(ids) # 0 /\ 1 \in 1 .. (end - s)
    BY <1>6, <1>7
  <2> QED BY <1>3, <1>6, <1>7, <2>1
<1>9. Range(ids) \subseteq Chain(t)
  <2>1. \A i \in 1 .. (end - s) : ids[i] \in Chain(t)
    <3> TAKE i \in 1 .. (end - s)
    <3>1. s + i \in 1 .. (n + 1)
      BY <1>1, <1>6
    <3> QED BY <1>5, <1>7, <3>1
  <2> QED BY <1>7, <2>1, RangeFacts
<1>10. ASSUME NEW K, b \in K PROVE Ready(K, ids)
  <2>1. ASSUME NEW i \in 1 .. (end - s)
        PROVE  ids[i] \in K \/ Parent[ids[i]] \in K \/ \E j \in 1 .. (i - 1) : ids[j] = Parent[ids[i]]
    <3>1. CASE i = 1
      BY <1>8, <1>10, <3>1
    <3>2. CASE i # 1
      <4> DEFINE k == s + i
      <4>1. k \in 1 .. (n + 1) /\ k # 1 /\ i - 1 \in 1 .. (end - s) /\ i - 1 \in 1 .. (i - 1) /\ s + (i - 1) = k - 1
        BY <1>1, <1>6, <3>2
      <4>2. ids[i] = chain[k] /\ ids[i - 1] = chain[k - 1]
        <5>1. ids[i] = chain[k]
          BY <1>7
        <5>2. ids[i - 1] = chain[s + (i - 1)]
          BY <1>7, <4>1
        <5> HIDE DEF k
        <5> QED BY <4>1, <5>1, <5>2
      <4> HIDE DEF k
      <4>3. Parent[chain[k]] = chain[k - 1]
        BY <1>5, <4>1
      <4> QED BY <4>1, <4>2, <4>3
    <3> QED BY <3>1, <3>2
  <2> QED BY <1>7, <2>1 DEF Ready
<1> QED BY <1>1, <1>2, <1>6, <1>7, <1>8, <1>9, <1>10 DEF ids, chain, s, g, q, n

\* What an unchanged state has to say.
LEMMA Steady ==
  ASSUME FlowInv, UNCHANGED << known, top, peer, net >>, que' \subseteq Blocks, synced' \in BOOLEAN
  PROVE  KnownInv' /\ NetInv' /\ known \subseteq known' /\ net'.moved = net.moved
BY DEF FlowInv, KnownInv, Rooted, NetInv

LEMMA OfFlow ==
  ASSUME SyncInv, FlowInv, NEW p \in Peers
  PROVE  /\ Flow(known, peer[p], p \notin net.moved, ctx[p], wire[p], job[p])
         /\ peer[p] \in Blocks /\ KnownInv /\ NetInv /\ ConnInv(p)
         /\ WireShape(wire[p]) /\ CtxShape(ctx[p]) /\ JobShape(job[p])
         /\ wire[p].out # << >> => OutOk(Head(wire[p].out), known, peer[p], p \notin net.moved, ctx[p].requested)
         /\ wire[p].in # << >> => InOk(Head(wire[p].in), known, peer[p], p \notin net.moved, ctx[p].requested)
<1>1. /\ Flow(known, peer[p], p \notin net.moved, ctx[p], wire[p], job[p])
      /\ peer[p] \in Blocks /\ KnownInv /\ NetInv /\ ConnInv(p)
      /\ WireShape(wire[p]) /\ CtxShape(ctx[p]) /\ JobShape(job[p])
  BY DEF FlowInv, NetInv, SyncInv, ConnInv
<1> DEFINE o == wire[p].out
           i == wire[p].in
<1>2. IsSeq(o) /\ IsSeq(i)
  BY <1>1 DEF WireShape
<1>3. /\ \A x \in Range(o) : OutOk(x, known, peer[p], p \notin net.moved, ctx[p].requested)
      /\ \A x \in Range(i) : InOk(x, known, peer[p], p \notin net.moved, ctx[p].requested)
  BY <1>1 DEF Flow, WireOk
<1> HIDE DEF o, i
<1>4. (o # << >> => Head(o) \in Range(o)) /\ (i # << >> => Head(i) \in Range(i))
  BY <1>2, RangeOf
<1> QED BY <1>1, <1>3, <1>4 DEF o, i

\* A message arrives, or an answer does, and nothing else changes.
LEMMA FlowArrives ==
  ASSUME SyncInv, FlowInv, NEW p \in Peers, NEW x,
         \/ wire' = [wire EXCEPT ![p].in = Append(@, x)]
         \/ wire[p].out # << >> /\ wire' = [wire EXCEPT ![p].out = Tail(@), ![p].in = Append(@, x)],
         UNCHANGED << known, top, peer, ctx, job, que, synced, net >>,
         InOk(x, known, peer[p], p \notin net.moved, ctx[p].requested)
  PROVE  FlowInv'
<1> DEFINE w == wire[p]
           t == peer[p]
           h == p \notin net.moved
           q == ctx[p].requested
<1>1. Flow(known, t, h, ctx[p], w, job[p]) /\ WireShape(w) /\ h \in BOOLEAN
  BY OfFlow
<1>2. KnownInv' /\ NetInv' /\ known \subseteq known' /\ net'.moved = net.moved
  <2>1. que' \subseteq Blocks /\ synced' \in BOOLEAN
    BY DEF FlowInv, NetInv
  <2> QED BY <2>1, Steady
<1>3. \E n : /\ wire' = [wire EXCEPT ![p] = n] /\ n.up = w.up /\ n.in = Append(w.in, x)
             /\ n.out = w.out \/ (w.out # << >> /\ n.out = Tail(w.out))
  <2>1. CASE wire' = [wire EXCEPT ![p].in = Append(@, x)]
    <3> DEFINE n == [w EXCEPT !.in = Append(@, x)]
    <3>1. wire' = [wire EXCEPT ![p] = n]
      BY <2>1 DEF SyncInv
    <3>2. n.up = w.up /\ n.in = Append(w.in, x) /\ n.out = w.out
      BY <1>1 DEF WireShape
    <3> HIDE DEF n
    <3> QED BY <3>1, <3>2
  <2>2. CASE wire[p].out # << >> /\ wire' = [wire EXCEPT ![p].out = Tail(@), ![p].in = Append(@, x)]
    <3> DEFINE n == [w EXCEPT !.out = Tail(@), !.in = Append(@, x)]
    <3>1. wire' = [wire EXCEPT ![p] = n]
      BY <2>2 DEF SyncInv
    <3>2. n.up = w.up /\ n.in = Append(w.in, x) /\ n.out = Tail(w.out)
      BY <1>1 DEF WireShape
    <3> HIDE DEF n
    <3> QED BY <2>2, <3>1, <3>2
  <2> QED BY <2>1, <2>2
<1>4. PICK n : /\ wire' = [wire EXCEPT ![p] = n] /\ n.up = w.up /\ n.in = Append(w.in, x)
               /\ n.out = w.out \/ (w.out # << >> /\ n.out = Tail(w.out))
  BY <1>3
<1>5. WireOk(n, known, t, h, q)
  <2>1. WireOk(w, known, t, h, q) /\ InOk(x, known, t, h, q)
    BY <1>1 DEF Flow
  <2> HIDE DEF w, t, h, q
  <2> QED BY <1>1, <1>4, <2>1, WireArrives
<1> DEFINE c == ctx[p]
           j == job[p]
<1>6. Flow(known', peer'[p], p \notin net'.moved, c, n, j)
  BY <1>1, <1>4, <1>5 DEF Flow
<1>7. ctx' = [ctx EXCEPT ![p] = c] /\ job' = [job EXCEPT ![p] = j]
  BY DEF SyncInv
<1>8. \A r \in Peers \ {p} : peer'[r] = peer[r] /\ (r \in net'.moved <=> r \in net.moved)
  BY <1>2
<1>9. wire' = [wire EXCEPT ![p] = n]
  BY <1>4
<1> HIDE DEF w, t, h, q, c, j
<1> QED BY <1>2, <1>6, <1>7, <1>8, <1>9, FlowOne

LEMMA AnswerChainFlow ==
  ASSUME SyncInv, FlowInv, NEW p \in Peers, AnswerChain(p)
  PROVE  FlowInv'
<1> DEFINE t == peer[p]
           h == p \notin net.moved
           asked == Head(wire[p].out)
           ids == asked.ids
           split == CHOOSE i \in DOMAIN ids : InChain(ids[i], t) /\ \A j \in 1 .. (i - 1) : ~InChain(ids[j], t)
           chain == << Genesis >> \o Path[t]
           b == ids[split]
           start == Height(b)
           end   == IF start + IdsCount < Len(chain) THEN start + IdsCount ELSE Len(chain)
           sent == SubSeq(chain, start + 1, end)
           x == [t |-> "entry", start |-> start, total |-> Len(chain), ids |-> sent]
<1>1. /\ wire[p].out # << >> /\ asked.t = "chain" /\ UNCHANGED << known, top, peer, ctx, job, que, synced, net >>
      /\ wire' = [wire EXCEPT ![p].out = Tail(@), ![p].in = Append(@, x)]
  BY DEF AnswerChain
<1>2. ids \in Seq(Blocks) /\ Genesis \in Range(ids) /\ (h => Range(ids) \subseteq known) /\ t \in Blocks
  BY <1>1, OfFlow DEF OutOk
<1>3. split \in DOMAIN ids /\ InChain(b, t)
  <2> DEFINE T == { i \in 1 .. Len(ids) : InChain(ids[i], t) }
  <2>1. DOMAIN ids = 1 .. Len(ids) /\ Len(ids) \in Nat
    BY <1>2
  <2>2. T \in SUBSET Nat /\ T # {}
    <3>1. PICK i \in 1 .. Len(ids) : ids[i] = Genesis
      BY <1>2, RangeFacts
    <3>2. i \in T
      BY <3>1 DEF InChain
    <3> QED BY <2>1, <3>2
  <2>3. PICK m \in T : \A k \in T : ~(k < m)
    <3> HIDE DEF T
    <3> QED BY <2>2, LeastElement
  <2>4. m \in DOMAIN ids /\ InChain(ids[m], t) /\ \A j \in 1 .. (m - 1) : ~InChain(ids[j], t)
    <3>1. m \in 1 .. Len(ids) /\ InChain(ids[m], t)
      BY <2>3
    <3>2. ASSUME NEW j \in 1 .. (m - 1), InChain(ids[j], t) PROVE FALSE
      <4>1. j \in 1 .. Len(ids) /\ j < m
        BY <2>1, <3>1
      <4>2. j \in T
        BY <3>2, <4>1
      <4> QED BY <2>3, <4>1, <4>2
    <3> QED BY <2>1, <3>1, <3>2
  <2>5. \E i \in DOMAIN ids : InChain(ids[i], t) /\ \A j \in 1 .. (i - 1) : ~InChain(ids[j], t)
    BY <2>4
  <2> HIDE DEF T, ids, t
  <2> QED BY <2>5
<1> HIDE DEF split
<1>4. b \in Chain(t) /\ b \in Blocks /\ b \in Range(ids)
  <2>1. split \in 1 .. Len(ids) /\ b \in Range(ids)
    BY <1>2, <1>3, RangeFacts
  <2>2. b \in Blocks
    BY <1>2, <2>1, RangeFacts
  <2> QED BY <1>2, <1>3, <2>1, <2>2, ChainFacts
<1> HIDE DEF b, ids
<1>5. /\ Len(chain) = Size(t) /\ Size(t) \in Nat /\ start \in Nat /\ start + 1 <= Size(t)
  <2>1. Size(t) \in Nat \ {0} /\ Path[t] \in Seq(Blocks)
    BY <1>2, ChainFacts
  <2>2. Len(chain) = Len(Path[t]) + 1
    <3> DEFINE q == Path[t]
               g == << Genesis >>
    <3>1. q \in Seq(Blocks) /\ g \in Seq(Blocks) /\ Len(g) = 1
      BY <2>1, TreeAssumption
    <3> HIDE DEF q, g
    <3>2. Len(g \o q) = Len(g) + Len(q) /\ Len(q) \in Nat
      BY <3>1, Concat
    <3>3. Len(g \o q) = Len(q) + 1
      BY <3>1, <3>2
    <3> QED BY <3>3 DEF q, g
  <2>3. start \in Nat /\ start <= Len(Path[t])
    <3>1. CASE b = Genesis
      <4>1. start = 0
        BY <3>1, PathOfGenesis DEF Height
      <4> QED BY <2>1, <4>1
    <3>2. CASE b # Genesis
      <4>1. b \in Range(Path[t])
        BY <1>4, <3>2 DEF Chain
      <4>2. PICK i \in 1 .. Len(Path[t]) : Path[t][i] = b
        <5> DEFINE q == Path[t]
        <5>1. q \in Seq(Blocks) /\ b \in Range(q)
          BY <2>1, <4>1
        <5> HIDE DEF q
        <5>2. \E i \in 1 .. Len(q) : q[i] = b
          BY <5>1, RangeFacts
        <5> QED BY <5>2 DEF q
      <4>3. StepOfPath(t, i)
        BY <1>2, <4>2, PathSteps
      <4>4. start = i /\ Len(Path[t]) \in Nat
        BY <2>1, <4>2, <4>3 DEF StepOfPath, Height
      <4> QED BY <4>2, <4>4
    <3> QED BY <3>1, <3>2
  <2> HIDE DEF chain, start
  <2>4. Size(t) = Len(Path[t]) + 1 /\ Len(Path[t]) \in Nat
    BY <2>1 DEF Size, Height
  <2> QED BY <2>1, <2>2, <2>3, <2>4
<1>6. end \in Nat /\ start + 1 <= end /\ end <= Size(t)
  <2>1. IdsCount \in Nat /\ IdsCount >= 1
    BY SizesAssumption
  <2> HIDE DEF chain, start
  <2> QED BY <1>5, <2>1
<1>7. /\ sent \in Seq(Blocks) /\ sent # << >> /\ sent[1] = b /\ start + Len(sent) = end
      /\ Range(sent) \subseteq Chain(t) /\ \A K : b \in K => Ready(K, sent)
  <2> HIDE DEF end
  <2> QED BY <1>2, <1>4, <1>6, PartOfChain
<1>8. x.t = "entry" /\ x.start = start /\ x.total = Size(t) /\ x.ids = sent
  BY <1>5
<1>9. Len(sent) \in Nat
  <2> HIDE DEF sent
  <2> QED BY <1>7
<1>10. InOk(x, known, t, h, ctx[p].requested)
  <2>1. h => b \in known
    BY <1>2, <1>4
  <2> HIDE DEF x, sent, start, end, t, h
  <2>2. start + Len(sent) - 1 <= Size(t)
    BY <1>5, <1>6, <1>7, <1>9
  <2>3. h => EntryOk(x, known, t)
    BY <1>7, <1>8, <2>1, <2>2 DEF EntryOk
  <2> QED BY <1>5, <1>7, <1>8, <2>3 DEF InOk
<1> HIDE DEF x
<1> QED BY <1>1, <1>10, FlowArrives

LEMMA AnswerObjectsFlow ==
  ASSUME SyncInv, FlowInv, NEW p \in Peers, AnswerObjects(p)
  PROVE  FlowInv'
<1> DEFINE t == peer[p]
           h == p \notin net.moved
           q == ctx[p].requested
           asked == Head(wire[p].out).blocks
           S == {Genesis} \cup Range(Path[peer[p]])
           found == Those(asked, S)
           x == [t |-> "blocks", blocks |-> found, height |-> Size(peer[p])]
<1>1. wire[p].out # << >> /\ Head(wire[p].out).t = "objects" /\ UNCHANGED << known, top, peer, job, que, synced, net >>
  BY DEF AnswerObjects
<1>2. /\ asked \in Seq(Blocks) /\ t \in Blocks
      /\ h => Range(asked) = q /\ Range(asked) \subseteq Chain(t) /\ Ready(known, asked)
  BY <1>1, OfFlow DEF OutOk
<1>3. S = Chain(t) /\ Size(t) \in Nat
  BY <1>2, ChainFacts DEF Chain
<1>4. /\ found \in Seq(Blocks) /\ (h => Range(found) = q /\ Ready(known, found))
  <2> DEFINE s == asked
  <2>1. s \in Seq(Blocks) /\ (h => Range(s) = q /\ Range(s) \subseteq S /\ Ready(known, s))
    BY <1>2, <1>3
  <2> HIDE DEF s, S
  <2>2. Those(s, S) \in Seq(Blocks) /\ (Range(s) \subseteq S => Those(s, S) = s)
    BY <2>1, ThoseFacts
  <2> QED BY <2>1, <2>2 DEF s
<1>5. KnownInv' /\ NetInv' /\ known \subseteq known' /\ net'.moved = net.moved
  <2>1. que' \subseteq Blocks /\ synced' \in BOOLEAN
    BY <1>1 DEF FlowInv, NetInv
  <2> QED BY <1>1, <2>1, Steady
<1>6. CASE found # << >> /\ Len(found) < Len(asked)
  <2>1. wire' = [wire EXCEPT ![p] = NoWire] /\ ctx' = [ctx EXCEPT ![p] = IF job[p] = NoJob THEN Gone ELSE @]
    BY <1>6 DEF AnswerObjects
  <2> QED BY <1>1, <1>5, <2>1, FlowEnds
<1>7. CASE ~(found # << >> /\ Len(found) < Len(asked))
  <2>1. wire' = [wire EXCEPT ![p].out = Tail(@), ![p].in = Append(@, x)] /\ ctx' = ctx
    BY <1>7 DEF AnswerObjects
  <2>2. x.t = "blocks" /\ x.blocks = found /\ x.height = Size(t)
    OBVIOUS
  <2> HIDE DEF x
  <2>3. InOk(x, known, t, h, q)
    <3> HIDE DEF found, t, h, q
    <3> QED BY <1>3, <1>4, <2>2 DEF InOk, BlocksOk
  <2> QED BY <1>1, <2>1, <2>3, FlowArrives
<1> QED BY <1>6, <1>7

LEMMA PeerFlow ==
  ASSUME SyncInv, FlowInv, NEW p \in Peers,
         \/ Greet(p) \/ LinkLost(p) \/ BlockRefused(p)
         \/ \E b \in Blocks, relay \in BOOLEAN : PeerMoves(p, b, relay)
  PROVE  FlowInv'
<1> DEFINE t == peer[p]
           h == p \notin net.moved
           x == [t |-> "sync", top |-> t, size |-> Size(t)]
<1>0. /\ Flow(known, t, h, ctx[p], wire[p], job[p]) /\ t \in Blocks /\ Size(t) \in Nat /\ h \in BOOLEAN
      /\ KnownInv /\ NetInv /\ ConnInv(p) /\ WireShape(wire[p]) /\ JobShape(job[p])
  <2>1. Size(t) \in Nat
    BY OfFlow, ChainFacts
  <2> QED BY <2>1, OfFlow
<1>1. /\ x.t = "sync" /\ \A K, u, v, q : InOk(x, K, u, v, q)
  <2>1. x.t = "sync" /\ x.top = t /\ x.size = Size(t)
    OBVIOUS
  <2> HIDE DEF x
  <2> QED BY <1>0, <2>1 DEF InOk
<1>2. CASE Connect(p)
  <2> DEFINE i == << x >>
             m == [up |-> TRUE, out |-> << >>, in |-> i]
  <2>1. /\ wire' = [wire EXCEPT ![p] = m] /\ ctx' = [ctx EXCEPT ![p] = Fresh] /\ job' = job /\ ctx[p] = Gone
        /\ UNCHANGED << known, top, peer, que, synced >> /\ net' = [net EXCEPT !.moved = @ \ {p}]
    BY <1>2 DEF Connect
  <2>2. job[p] = NoJob /\ job' = [job EXCEPT ![p] = NoJob]
    BY <1>0, <2>1 DEF ConnInv, JobShape, Gone, Fresh, SyncInv
  <2>3. m.up /\ Range(m.out) = {} /\ Range(m.in) = {x}
    <3> HIDE DEF x
    <3> QED BY DEF Range
  <2> HIDE DEF x, m
  <2>4. \A v \in BOOLEAN : WireOk(m, known, t, v, Fresh.requested)
    BY <1>1, <2>3 DEF WireOk
  <2>5. /\ CtxTypes(Fresh) /\ CtxOk(Fresh, known, t, JobBlocks(NoJob))
    <3>1. /\ Fresh.state = "before" /\ Fresh.needed = << >> /\ Fresh.fetched = << >> /\ Fresh.requested = {}
          /\ Fresh.lastResponse = 0 /\ Fresh.remoteSize = 0
      BY DEF Fresh
    <3>2. Range(<< >>) = {} /\ << >> \in Seq(Blocks)
      BY DEF Range
    <3> QED BY <1>0, <3>1, <3>2, ReadyEmpty DEF CtxTypes, CtxOk, States
  <2>6. JobTypes(NoJob) /\ NoJob.kind = "none"
    BY DEF JobTypes, NoJob
  <2>7. \A v \in BOOLEAN : Flow(known, t, v, Fresh, m, NoJob)
    BY <2>4, <2>5, <2>6 DEF Flow
  <2>8. /\ net' \in [trouble : Nat, moved : SUBSET Peers, blamed : {{}}]
        /\ \A q \in Peers \ {p} : q \in net'.moved <=> q \in net.moved
    BY <1>0, <2>1 DEF NetInv
  <2>9. KnownInv' /\ NetInv'
    BY <1>0, <2>1, <2>8 DEF KnownInv, Rooted, NetInv
  <2>10. Flow(known', peer'[p], p \notin net'.moved, Fresh, m, NoJob)
    BY <2>1, <2>7
  <2> QED BY <2>1, <2>2, <2>8, <2>9, <2>10, FlowOne
<1>3. CASE TimedSync(p)
  <2>1. /\ wire' = [wire EXCEPT ![p].in = Append(@, x)]
        /\ UNCHANGED << known, top, peer, ctx, job, que, synced, net >>
    BY <1>3 DEF TimedSync
  <2> HIDE DEF x
  <2>2. InOk(x, known, peer[p], p \notin net.moved, ctx[p].requested)
    BY <1>1
  <2> QED BY <2>1, <2>2, FlowArrives
<1>4. CASE LinkLost(p) \/ BlockRefused(p)
  <2>1. /\ wire' = [wire EXCEPT ![p] = NoWire] /\ UNCHANGED << known, top, peer, synced >>
        /\ net' = [net EXCEPT !.trouble = @ + 1]
        /\ \/ ctx' = [ctx EXCEPT ![p] = Gone] /\ job' = [job EXCEPT ![p] = NoJob]
           \/ ctx' = [ctx EXCEPT ![p] = IF job[p] = NoJob THEN Gone ELSE @] /\ job' = job
        /\ que' = que \/ que' = que \ {Head(job[p].blocks)}
    BY <1>4 DEF LinkLost, BlockRefused
  <2>2. net' \in [trouble : Nat, moved : SUBSET Peers, blamed : {{}}] /\ net'.moved = net.moved
    BY <1>0, <2>1 DEF NetInv
  <2>3. KnownInv' /\ NetInv' /\ known \subseteq known'
    BY <1>0, <2>1, <2>2 DEF KnownInv, Rooted, NetInv
  <2> QED BY <2>1, <2>2, <2>3, FlowEnds
<1>5. ASSUME NEW b \in Blocks, NEW relay \in BOOLEAN, PeerMoves(p, b, relay) PROVE FlowInv'
  <2> DEFINE c == ctx[p]
             j == job[p]
             w == wire[p]
             y == [t |-> "new", block |-> b]
             m == [w EXCEPT !.in = IF relay /\ w.up THEN Append(@, y) ELSE @]
  <2>1. /\ UNCHANGED << known, top, ctx, job, que, synced >> /\ peer' = [peer EXCEPT ![p] = b]
        /\ wire' = [wire EXCEPT ![p] = m] /\ ctx' = [ctx EXCEPT ![p] = c] /\ job' = [job EXCEPT ![p] = j]
        /\ net' = [net EXCEPT !.trouble = @ + 1, !.moved = @ \cup {p}]
    BY <1>5 DEF PeerMoves, SyncInv
  <2>2. m.up = w.up /\ m.out = w.out /\ m.in = IF relay /\ w.up THEN Append(w.in, y) ELSE w.in
    BY <1>0 DEF WireShape
  <2>3. Flow(known, b, FALSE, c, w, j)
    <3>1. Flow(known, t, h, c, w, j) /\ h \in BOOLEAN
      BY <1>0
    <3> HIDE DEF t, h, c, w, j
    <3> QED BY <3>1, FlowMoved
  <2>4. InOk(y, known, b, FALSE, c.requested)
    <3>1. y.t = "new" /\ y.block = b
      OBVIOUS
    <3> HIDE DEF y
    <3> QED BY <3>1 DEF InOk
  <2>5. WireOk(m, known, b, FALSE, c.requested)
    <3> HIDE DEF m, w, y
    <3>1. WireOk(w, known, b, FALSE, c.requested)
      BY <2>3 DEF Flow
    <3>2. CASE m.in = w.in
      BY <2>2, <3>1, <3>2 DEF WireOk
    <3>3. CASE m.in = Append(w.in, y)
      <4>1. WireShape(w)
        BY <1>0 DEF w
      <4> QED BY <2>2, <2>4, <3>1, <3>3, <4>1, WireArrives
    <3> QED BY <2>2, <3>2, <3>3
  <2> HIDE DEF m
  <2>6. Flow(known, b, FALSE, c, m, j)
    BY <2>3, <2>5 DEF Flow
  <2>7. /\ net' \in [trouble : Nat, moved : SUBSET Peers, blamed : {{}}] /\ p \in net'.moved
        /\ \A q \in Peers \ {p} : q \in net'.moved <=> q \in net.moved
    <3> DEFINE v == net.moved \cup {p}
               z == net.trouble + 1
    <3>1. z \in Nat /\ v \in SUBSET Peers /\ net' = [net EXCEPT !.trouble = z, !.moved = v]
      BY <1>0, <2>1 DEF NetInv
    <3>2. p \in v /\ \A q \in Peers \ {p} : q \in v <=> q \in net.moved
      OBVIOUS
    <3> HIDE DEF z, v
    <3>3. net' \in [trouble : Nat, moved : SUBSET Peers, blamed : {{}}] /\ net'.moved = v
      BY <1>0, <3>1 DEF NetInv
    <3> QED BY <3>2, <3>3
  <2>8. peer' \in [Peers -> Blocks] /\ peer'[p] = b /\ \A q \in Peers \ {p} : peer'[q] = peer[q]
    BY <1>0, <2>1 DEF NetInv
  <2>9. KnownInv' /\ NetInv' /\ known \subseteq known'
    BY <1>0, <2>1, <2>7, <2>8 DEF KnownInv, Rooted, NetInv
  <2>10. Flow(known', peer'[p], p \notin net'.moved, c, m, j)
    BY <2>1, <2>6, <2>7, <2>8
  <2>11. \A q \in Peers \ {p} : peer'[q] = peer[q] /\ (q \in net'.moved <=> q \in net.moved)
    BY <2>7, <2>8
  <2>12. wire' = [wire EXCEPT ![p] = m] /\ ctx' = [ctx EXCEPT ![p] = c] /\ job' = [job EXCEPT ![p] = j]
    BY <2>1
  <2> HIDE DEF c, j
  <2> QED BY <2>9, <2>10, <2>11, <2>12, FlowOne
<1> QED BY <1>2, <1>3, <1>4, <1>5 DEF Greet

-----------------------------------------------------------------------------
(* The handlers keep what the peers promise. *)

\* A connection that is up and has no job, with the message it takes.
LEMMA FlowUp ==
  ASSUME SyncInv, FlowInv, NEW p \in Peers, wire[p].up, job[p] = NoJob
  PROVE  /\ CtxShape(ctx[p]) /\ CtxTypes(ctx[p]) /\ WireShape(wire[p]) /\ Agrees(ctx[p], wire[p], NoJob)
         /\ peer[p] \in Blocks /\ KnownInv /\ NetInv
         /\ p \notin net.moved => CtxOk(ctx[p], known, peer[p], {})
<1>1. JobBlocks(NoJob) = {}
  BY DEF JobBlocks, NoJob
<1>2. /\ CtxShape(ctx[p]) /\ WireShape(wire[p]) /\ peer[p] \in Blocks /\ KnownInv /\ NetInv /\ ConnInv(p)
      /\ Flow(known, peer[p], p \notin net.moved, ctx[p], wire[p], job[p])
  BY OfFlow
<1> QED BY <1>1, <1>2 DEF Flow, ConnInv

LEMMA HandleSyncFlow ==
  ASSUME SyncInv, FlowInv, NEW p \in Peers, HandleSync(p)
  PROVE  FlowInv'
<1> DEFINE c == ctx[p]
           w == wire[p]
           t == peer[p]
           h == p \notin net.moved
           msg == Head(w.in)
           none == << >>
           n == [c EXCEPT !.state = "normal"]
           s == [c EXCEPT !.state = "synchronizing", !.remoteSize = msg.size, !.fetched = << >>, !.callbacks = @ + 1]
<1>1. /\ w.up /\ job[p] = NoJob /\ w.in # << >> /\ msg.t = "sync"
      /\ UNCHANGED << known, top, peer, que, synced, net >>
  BY DEF HandleSync, Receives
<1>2. /\ CtxShape(c) /\ CtxTypes(c) /\ t \in Blocks /\ NetInv /\ h \in BOOLEAN
      /\ h => CtxOk(c, known, t, {})
  BY <1>1, FlowUp
<1>3. msg.size \in Nat
  BY <1>1, OfFlow DEF InOk
<1>4. KnownInv' /\ NetInv' /\ known \subseteq known' /\ net'.moved = net.moved /\ peer' = peer
  <2>1. que' \subseteq Blocks /\ synced' \in BOOLEAN
    BY <1>1, <1>2 DEF NetInv
  <2> QED BY <1>1, <2>1, Steady
<1>5. ASSUME NEW d, Ends(p, d, none, TRUE), CtxTypes(d), d.requested = c.requested, h => CtxOk(d, known, t, {})
      PROVE  FlowInv'
  <2>1. Posts(none) /\ Range(none) = {}
    BY DEF Posts, Range
  <2>2. CtxTypes(d) /\ (h => CtxOk(d, known', t, {})) /\ ctx[p].requested = d.requested
    BY <1>1, <1>5
  <2> HIDE DEF none
  <2> QED BY <1>1, <1>4, <1>5, <2>1, <2>2, FlowHandlerEnds
<1>6. CASE Ends(p, c, none, TRUE)
  BY <1>2, <1>5, <1>6
<1>7. CASE Ends(p, n, none, TRUE)
  <2>1. /\ n.state = "normal" /\ n.needed = c.needed /\ n.requested = c.requested /\ n.fetched = c.fetched
        /\ n.lastResponse = c.lastResponse /\ n.remoteSize = c.remoteSize
    BY <1>2 DEF CtxShape
  <2> HIDE DEF n, c, t, h
  <2>2. CtxTypes(n) /\ (h => CtxOk(n, known, t, {}))
    BY <1>2, <2>1 DEF CtxTypes, CtxOk, States
  <2> QED BY <1>5, <1>7, <2>1, <2>2
<1>8. CASE Ends(p, s, none, TRUE)
  <2>1. /\ s.state = "synchronizing" /\ s.needed = c.needed /\ s.requested = c.requested /\ s.fetched = << >>
        /\ s.lastResponse = c.lastResponse /\ s.remoteSize = msg.size
    BY <1>2 DEF CtxShape
  <2> HIDE DEF s, c, t, h
  <2>2. Range(<< >>) = {} /\ << >> \in Seq(Blocks)
    BY DEF Range
  <2>3. CtxTypes(s) /\ (h => CtxOk(s, known, t, {}))
    BY <1>2, <1>3, <2>1, <2>2 DEF CtxTypes, CtxOk, States
  <2> QED BY <1>5, <1>8, <2>1, <2>3
<1>9. Ends(p, c, none, TRUE) \/ Ends(p, n, none, TRUE) \/ Ends(p, s, none, TRUE)
  BY DEF HandleSync
<1> QED BY <1>6, <1>7, <1>8, <1>9

LEMMA AskMain ==
  ASSUME KnownInv, NEW t, NEW h \in BOOLEAN, NEW q, NEW c
  PROVE  LET r == Asking(c, ShortHistory(Path[top]))
         IN  Posts(r[2]) /\ \A x \in Range(r[2]) : OutOk(x, known, t, h, q)
<1> DEFINE mine == Path[top]
<1>1. top \in Blocks /\ Genesis \in known /\ Chain(top) \subseteq known
  BY RootedChain DEF KnownInv, Rooted
<1>2. mine \in Seq(Blocks) /\ Range(mine) \subseteq known
  BY <1>1, PathDef DEF Chain
<1> HIDE DEF mine
<1>3. LET r == Asking(c, ShortHistory(mine)) IN Posts(r[2]) /\ \A x \in Range(r[2]) : OutOk(x, known, t, h, q)
  BY <1>1, <1>2, AskedIds
<1> QED BY <1>3 DEF mine

LEMMA OnCallbackFlow ==
  ASSUME SyncInv, FlowInv, NEW p \in Peers, OnCallback(p)
  PROVE  FlowInv'
<1> DEFINE b == ctx[p]
           t == peer[p]
           h == p \notin net.moved
           c == [b EXCEPT !.callbacks = @ - 1]
           r == Asking(c, ShortHistory(Path[top]))
           none == << >>
<1>1. /\ wire[p].up /\ job[p] = NoJob /\ UNCHANGED << known, top, peer, que, synced, net >>
      /\ Ends(p, r[1], r[2], FALSE) \/ Ends(p, c, none, FALSE)
  BY DEF OnCallback
<1>2. /\ CtxShape(b) /\ CtxTypes(b) /\ t \in Blocks /\ NetInv /\ KnownInv /\ h \in BOOLEAN
      /\ h => CtxOk(b, known, t, {})
  BY <1>1, FlowUp
<1>3. KnownInv' /\ NetInv' /\ known \subseteq known' /\ net'.moved = net.moved /\ peer' = peer
  <2>1. que' \subseteq Blocks /\ synced' \in BOOLEAN
    BY <1>1, <1>2 DEF NetInv
  <2> QED BY <1>1, <2>1, Steady
<1>4. /\ c.state = b.state /\ c.needed = b.needed /\ c.requested = b.requested /\ c.fetched = b.fetched
      /\ c.lastResponse = b.lastResponse /\ c.remoteSize = b.remoteSize
  BY <1>2 DEF CtxShape
<1>5. ASSUME NEW d, NEW posts, Ends(p, d, posts, FALSE), Posts(posts),
             \A x \in Range(posts) : OutOk(x, known, t, h, b.requested),
             d.state = b.state, d.needed = b.needed, d.requested = b.requested, d.fetched = b.fetched,
             d.lastResponse = b.lastResponse, d.remoteSize = b.remoteSize
      PROVE  FlowInv'
  <2>1. CtxTypes(d) /\ (h => CtxOk(d, known', t, {}))
    BY <1>1, <1>2, <1>5 DEF CtxTypes, CtxOk
  <2>2. \A x \in Range(posts) : OutOk(x, known', t, h, d.requested)
    BY <1>1, <1>5
  <2> QED BY <1>3, <1>5, <2>1, <2>2, FlowHandlerEnds
<1>6. CASE Ends(p, r[1], r[2], FALSE)
  <2> DEFINE e == [c EXCEPT !.expectChain = @ + 1]
  <2>1. r[1] = e
    BY DEF Asking
  <2>2. /\ e.state = b.state /\ e.needed = b.needed /\ e.requested = b.requested /\ e.fetched = b.fetched
        /\ e.lastResponse = b.lastResponse /\ e.remoteSize = b.remoteSize
    BY <1>2 DEF CtxShape
  <2>3. Posts(r[2]) /\ \A x \in Range(r[2]) : OutOk(x, known, t, h, b.requested)
    <3> DEFINE q == b.requested
    <3> HIDE DEF t, h, q, c
    <3>1. h \in BOOLEAN
      BY <1>2
    <3> QED BY <1>2, <3>1, AskMain DEF q
  <2> HIDE DEF r, e
  <2> QED BY <1>5, <1>6, <2>1, <2>2, <2>3
<1>7. CASE Ends(p, c, none, FALSE)
  <2>1. Posts(none) /\ Range(none) = {}
    BY DEF Posts, Range
  <2> HIDE DEF c, none
  <2> QED BY <1>4, <1>5, <1>7, <2>1
<1> QED BY <1>1, <1>6, <1>7

\* A handler drops a peer whose chain changed.
LEMMA DropFlow ==
  ASSUME SyncInv, FlowInv, NEW p \in Peers, Drop(p), p \in net.moved, UNCHANGED << known, top, peer, que, synced >>
  PROVE  FlowInv'
<1>1. net' = [net EXCEPT !.blamed = @]
  BY DEF Drop
<1>2. NetInv /\ KnownInv
  BY DEF FlowInv
<1>3. net' = net
  BY <1>1, <1>2 DEF NetInv
<1>4. KnownInv' /\ NetInv' /\ known \subseteq known' /\ net'.moved = net.moved /\ peer' = peer
  BY <1>2, <1>3 DEF KnownInv, Rooted, NetInv
<1>5. wire' = [wire EXCEPT ![p] = NoWire] /\ ctx' = [ctx EXCEPT ![p] = Gone] /\ job' = [job EXCEPT ![p] = NoJob]
  BY DEF Drop
<1> QED BY <1>4, <1>5, FlowEnds

\* An answer that arrives is expected, and no other is.
LEMMA AnswerExpected ==
  ASSUME SyncInv, NEW p \in Peers, Receives(p, "entry") \/ Receives(p, "blocks")
  PROVE  /\ ctx[p].state = "synchronizing"
         /\ Count(wire[p].out, "objects") = 0 /\ Count(Rest(wire[p], TRUE), "blocks") = 0
         /\ Receives(p, "entry") => ctx[p].expectChain = 1 /\ ctx[p].requested = {}
         /\ Receives(p, "blocks") => ctx[p].expectObjects = 1
<1> DEFINE b == ctx[p]
           m == wire[p]
           n == Rest(m, TRUE)
           type == Head(m.in).t
<1>1. m.up /\ job[p] = NoJob /\ m.in # << >> /\ (Receives(p, "entry") <=> type = "entry") /\ (Receives(p, "blocks") <=> type = "blocks")
  BY DEF Receives
<1>2. /\ WireShape(m) /\ CtxShape(b) /\ Agrees(b, m, NoJob)
      /\ Count(n, "entry") \in Nat /\ Count(n, "blocks") \in Nat
      /\ Count(m.out, "chain") \in Nat /\ Count(m.out, "objects") \in Nat
  BY <1>1, Up
<1> DEFINE i == m.in
           o == m.out
<1>3. IsSeq(i) /\ i # << >> /\ n = Tail(i) /\ type = Head(i).t
  BY <1>1, <1>2 DEF WireShape, Rest
<1>4. /\ Count(i, "entry") = IF type = "entry" THEN Count(n, "entry") + 1 ELSE Count(n, "entry")
      /\ Count(i, "blocks") = IF type = "blocks" THEN Count(n, "blocks") + 1 ELSE Count(n, "blocks")
  <2> HIDE DEF i, n, type
  <2> QED BY <1>3, CountTail
<1>5. b.expectChain = Count(o, "chain") + Count(i, "entry") /\ b.expectObjects = Count(o, "objects") + Count(i, "blocks")
  BY <1>2 DEF Agrees
<1> DEFINE oc == Count(o, "chain")
           ie == Count(i, "entry")
           oo == Count(o, "objects")
           ib == Count(i, "blocks")
           ne == Count(n, "entry")
           nb == Count(n, "blocks")
<1>6. /\ oc \in Nat /\ oo \in Nat /\ ne \in Nat /\ nb \in Nat
      /\ ie = IF type = "entry" THEN ne + 1 ELSE ne
      /\ ib = IF type = "blocks" THEN nb + 1 ELSE nb
      /\ b.expectChain = oc + ie /\ b.expectObjects = oo + ib
  BY <1>2, <1>4, <1>5
<1>7. /\ b.expectChain > 0 =>
           b.expectChain = 1 /\ b.state = "synchronizing" /\ b.requested = {} /\ oo = 0 /\ ib = 0
      /\ b.expectObjects > 0 =>
           b.expectObjects = 1 /\ b.state = "synchronizing" /\ (ib > 0 => ib = 1 /\ oo = 0)
  <2> HIDE DEF b, m
  <2> QED BY <1>2, OnlyOne
<1> HIDE DEF oc, ie, oo, ib, ne, nb, b, type
<1>8. CASE type = "entry"
  <2>1. b.expectChain > 0 /\ ib = nb
    BY <1>6, <1>8
  <2>2. b.expectChain = 1 /\ b.state = "synchronizing" /\ b.requested = {} /\ oo = 0 /\ nb = 0
    BY <1>7, <2>1
  <2> QED BY <1>1, <1>8, <2>2 DEF b, oo, nb
<1>9. CASE type = "blocks"
  <2>1. b.expectObjects > 0 /\ ib > 0 /\ ib = nb + 1
    BY <1>6, <1>9
  <2>2. b.expectObjects = 1 /\ b.state = "synchronizing" /\ ib = 1 /\ oo = 0
    BY <1>7, <2>1
  <2>3. nb = 0
    BY <1>6, <2>1, <2>2
  <2> QED BY <1>1, <1>9, <2>2, <2>3 DEF b, oo, nb
<1> QED BY <1>1, <1>8, <1>9

LEMMA HandleChainEntryFlow ==
  ASSUME SyncInv, FlowInv, NEW p \in Peers, NEW lim, HandleChainEntry(p, lim)
  PROVE  FlowInv'
<1> DEFINE b == ctx[p]
           m == wire[p]
           t == peer[p]
           h == p \notin net.moved
           msg == Head(m.in)
           ids == msg.ids
           c0 == [b EXCEPT !.expectChain = @ - 1]
           old == IF FetchedSize(c0) # msg.start THEN << >> ELSE c0.fetched
           late == Those(ids, Blocks \ {Genesis})
           miss == Those(ids, Blocks \ known)
           v1 == msg.total
           v2 == msg.start + Len(ids) - 1
           v3 == old \o late
           v4 == c0.needed \o miss
           c == [c0 EXCEPT !.remoteSize = v1, !.lastResponse = v2, !.fetched = v3, !.needed = v4]
           r == RequestMissing(c, FALSE, lim)
           bad == b.expectChain = 0 \/ ids = << >> \/ ~Have(ids[1]) \/ c.lastResponse > c.remoteSize
<1>1. /\ Receives(p, "entry") /\ UNCHANGED << known, top, peer, que, synced >>
      /\ \/ bad /\ Drop(p)
         \/ ~bad /\ Ends(p, r[1], r[2], TRUE) /\ net' = net
  BY DEF HandleChainEntry
<1>2. m.up /\ job[p] = NoJob /\ m.in # << >> /\ msg.t = "entry"
  BY <1>1 DEF Receives
<1>3. /\ CtxShape(b) /\ CtxTypes(b) /\ t \in Blocks /\ KnownInv /\ NetInv /\ h \in BOOLEAN
      /\ h => CtxOk(b, known, t, {})
  BY <1>2, FlowUp
<1>4. /\ ids \in Seq(Blocks) /\ msg.start \in Nat /\ msg.total \in Nat
      /\ h => EntryOk(msg, known, t)
  BY <1>2, OfFlow DEF InOk
<1>5. /\ b.state = "synchronizing" /\ b.expectChain = 1 /\ b.requested = {}
      /\ Count(m.out, "objects") = 0 /\ Count(Rest(m, TRUE), "blocks") = 0
  BY <1>1, AnswerExpected
<1> HIDE DEF old, late, miss
<1>6. /\ CtxShape(c0) /\ c0.needed = b.needed /\ c0.fetched = b.fetched
  BY <1>3, <1>5 DEF CtxShape
<1>7. /\ CtxShape(c) /\ c.state = b.state /\ c.requested = b.requested /\ c.needed = v4 /\ c.fetched = v3
      /\ c.lastResponse = v2 /\ c.remoteSize = v1
  <2>1. c0.state = b.state /\ c0.requested = b.requested
    BY <1>3 DEF CtxShape
  <2> HIDE DEF v1, v2, v3, v4, c0
  <2> QED BY <1>6, <2>1 DEF CtxShape
<1>8. ASSUME h PROVE ~bad
  <2>1. ids # << >> /\ ids[1] \in known /\ v2 <= v1
    BY <1>4, <1>8 DEF EntryOk
  <2> HIDE DEF c, ids
  <2>2. ~(v2 > v1)
    BY <1>4, <2>1
  <2> HIDE DEF v1, v2
  <2> QED BY <1>5, <1>7, <2>1, <2>2 DEF Have
<1>9. CASE bad /\ Drop(p)
  <2>1. p \in net.moved
    BY <1>8, <1>9
  <2> QED BY <1>1, <1>9, <2>1, DropFlow
<1>10. CASE ~bad /\ Ends(p, r[1], r[2], TRUE) /\ net' = net
  <2>1. /\ late \in Seq(Blocks) /\ Range(late) \subseteq Range(ids)
        /\ miss \in Seq(Blocks) /\ Range(miss) = Range(ids) \cap (Blocks \ known)
        /\ \A K : Ready(K, ids) /\ Range(ids) \ (Blocks \ known) \subseteq K => Ready(K, miss)
    <3> HIDE DEF ids
    <3>1. \A S : /\ Those(ids, S) \in Seq(Blocks) /\ Range(Those(ids, S)) = Range(ids) \cap S
                 /\ \A K : Ready(K, ids) /\ Range(ids) \ S \subseteq K => Ready(K, Those(ids, S))
      BY <1>4, ThoseFacts
    <3> QED BY <3>1 DEF late, miss
  <2>2. Range(ids) \subseteq Blocks /\ Range(ids) \subseteq known \cup Range(miss)
    <3> HIDE DEF ids
    <3> QED BY <1>4, <2>1, RangeFacts
  <2>3. b.needed \in Seq(Blocks) /\ b.fetched \in Seq(Blocks) /\ old \in Seq(Blocks) /\ Range(old) \subseteq Range(b.fetched)
    <3>1. << >> \in Seq(Blocks) /\ Range(<< >>) = {}
      BY DEF Range
    <3>2. old = << >> \/ old = b.fetched
      BY <1>6 DEF old
    <3> QED BY <1>3, <3>1, <3>2 DEF CtxTypes
  <2> DEFINE need == b.needed
  <2>4. /\ v3 \in Seq(Blocks) /\ Range(v3) = Range(old) \cup Range(late)
        /\ v4 \in Seq(Blocks) /\ Range(v4) = Range(need) \cup Range(miss)
        /\ \A K : Ready(K, need) /\ Ready(K, miss) => Ready(K, v4)
    <3>1. v4 = need \o miss
      BY <1>6
    <3> HIDE DEF v4, need
    <3>2. v3 \in Seq(Blocks) /\ Range(v3) = Range(old) \cup Range(late)
      BY <2>1, <2>3, ConcatFacts
    <3>3. /\ need \o miss \in Seq(Blocks) /\ Range(need \o miss) = Range(need) \cup Range(miss)
          /\ \A K : Ready(K, need) /\ Ready(K, miss) => Ready(K, need \o miss)
      BY <2>1, <2>3, ConcatFacts DEF need
    <3> QED BY <3>1, <3>2, <3>3
  <2>5. v1 \in Nat /\ v2 \in Nat
    <3> DEFINE l == Len(ids)
               st == msg.start
    <3>1. l \in Nat /\ l # 0 /\ st \in Nat
      <4>1. ids # << >>
        BY <1>10
      <4> HIDE DEF ids
      <4> QED BY <1>4, <4>1
    <3> HIDE DEF l, st
    <3>2. st + l - 1 \in Nat
      BY <3>1
    <3> QED BY <1>4, <3>2 DEF l, st
  <2> HIDE DEF v1, v2, v3, v4, c
  <2>6. CtxTypes(c)
    BY <1>3, <1>7, <2>4, <2>5 DEF CtxTypes
  <2>7. ASSUME h PROVE CtxOk(c, known, t, {})
    <3>1. /\ Range(need) \subseteq Chain(t) /\ Ready(known, need) /\ Range(b.fetched) \subseteq known \cup Range(need)
      <4>1. known \cup b.requested \cup {} = known
        BY <1>5
      <4> QED BY <1>3, <1>5, <2>7, <4>1 DEF CtxOk
    <3>2. v2 <= Size(t) /\ Range(ids) \subseteq Chain(t) /\ Ready(known, ids)
      BY <1>4, <2>7 DEF EntryOk, v1, v2
    <3>3. Ready(known, miss)
      <4>1. Range(ids) \ (Blocks \ known) \subseteq known
        BY <2>2
      <4> QED BY <2>1, <3>2, <4>1
    <3>4. Ready(known \cup c.requested \cup {}, v4)
      <4>1. known \cup c.requested \cup {} = known
        BY <1>5, <1>7
      <4> QED BY <2>4, <3>1, <3>3, <4>1
    <3>5. Range(v4) \subseteq Chain(t)
      BY <2>1, <2>4, <3>1, <3>2
    <3>6. Range(v3) \subseteq known \cup c.requested \cup {} \cup Range(v4)
      BY <2>1, <2>2, <2>3, <2>4, <3>1
    <3> QED BY <1>7, <3>2, <3>4, <3>5, <3>6 DEF CtxOk
  <2>8. /\ CtxTypes(r[1]) /\ Posts(r[2])
        /\ \A x \in Range(r[2]) : OutOk(x, known, t, h, r[1].requested)
        /\ h => CtxOk(r[1], known, t, {})
    <3>1. c.requested = {} /\ c.state = "synchronizing" /\ Rooted(known) /\ top \in known
      BY <1>3, <1>5, <1>7 DEF KnownInv
    <3> HIDE DEF h, t
    <3>2. CtxShape(c) /\ CtxTypes(c) /\ t \in Blocks /\ h \in BOOLEAN /\ (h => CtxOk(c, known, t, {}))
      BY <1>3, <1>7, <2>6, <2>7
    <3> QED BY <3>1, <3>2, RequestFlow
  <2> HIDE DEF r
  <2>9. KnownInv' /\ NetInv' /\ known \subseteq known' /\ net'.moved = net.moved /\ peer' = peer
    <3>1. que' \subseteq Blocks /\ synced' \in BOOLEAN
      BY <1>1, <1>3 DEF NetInv
    <3> QED BY <1>1, <1>10, <3>1, Steady
  <2>10. /\ \A x \in Range(r[2]) : OutOk(x, known', t, h, r[1].requested)
         /\ h => CtxOk(r[1], known', t, {})
    BY <1>1, <2>8
  <2> QED BY <1>2, <1>5, <1>10, <2>8, <2>9, <2>10, FlowHandlerEnds
<1> QED BY <1>1, <1>9, <1>10

LEMMA HandleObjectsFlow ==
  ASSUME SyncInv, FlowInv, NEW p \in Peers, HandleObjects(p)
  PROVE  FlowInv'
<1> DEFINE b == ctx[p]
           m == wire[p]
           t == peer[p]
           h == p \notin net.moved
           msg == Head(m.in)
           bs == msg.blocks
           v == msg.height
           c == [b EXCEPT !.expectObjects = @ - 1, !.remoteSize = v, !.requested = {}]
           d == [c EXCEPT !.state = "idle", !.needed = << >>]
           late == Len(bs) > 1 /\ Have(bs[2]) /\ bs[1] \in b.requested
           bad == \/ b.expectObjects = 0 \/ b.lastResponse > v \/ (~late /\ Range(bs) # b.requested)
           j == [kind |-> "add", blocks |-> bs, count |-> 0]
           none == << >>
<1>1. /\ Receives(p, "blocks") /\ UNCHANGED << known, top, peer, que, synced >>
      /\ \/ bad /\ Drop(p)
         \/ Ends(p, d, none, TRUE) /\ net' = net
         \/ /\ ctx' = [ctx EXCEPT ![p] = c] /\ wire' = [wire EXCEPT ![p].in = Tail(@)]
            /\ job' = [job EXCEPT ![p] = j] /\ net' = net
  BY DEF HandleObjects
<1>2. m.up /\ job[p] = NoJob /\ m.in # << >> /\ msg.t = "blocks"
  BY <1>1 DEF Receives
<1>3. /\ CtxShape(b) /\ CtxTypes(b) /\ WireShape(m) /\ t \in Blocks /\ KnownInv /\ NetInv /\ h \in BOOLEAN
      /\ h => CtxOk(b, known, t, {})
  BY <1>2, FlowUp
<1>4. /\ bs \in Seq(Blocks) /\ v \in Nat
      /\ h => Range(bs) = b.requested /\ Ready(known, bs) /\ v = Size(t)
  BY <1>2, OfFlow DEF InOk, BlocksOk
<1>5. /\ b.state = "synchronizing" /\ b.expectObjects = 1
      /\ Count(m.out, "objects") = 0 /\ Count(Rest(m, TRUE), "blocks") = 0
  BY <1>1, AnswerExpected
<1>6. /\ c.state = b.state /\ c.requested = {} /\ c.needed = b.needed /\ c.fetched = b.fetched
      /\ c.lastResponse = b.lastResponse /\ c.remoteSize = v
      /\ d.state = "idle" /\ d.requested = {} /\ d.needed = << >> /\ d.fetched = b.fetched
      /\ d.lastResponse = b.lastResponse /\ d.remoteSize = v
  <2> HIDE DEF v
  <2> QED BY <1>3 DEF CtxShape
<1>7. CASE bad /\ Drop(p)
  <2>1. ASSUME h PROVE FALSE
    <3>1. b.lastResponse <= v /\ Range(bs) = b.requested /\ b.lastResponse \in Nat
      BY <1>3, <1>4, <2>1 DEF CtxOk, CtxTypes
    <3> HIDE DEF b, v
    <3>2. ~(b.lastResponse > v)
      BY <1>4, <3>1
    <3> QED BY <1>5, <1>7, <3>1, <3>2
  <2> QED BY <1>1, <1>7, <2>1, DropFlow
<1>8. ASSUME net' = net
      PROVE  KnownInv' /\ NetInv' /\ known \subseteq known' /\ net'.moved = net.moved /\ peer' = peer
  <2>1. que' \subseteq Blocks /\ synced' \in BOOLEAN
    BY <1>1, <1>3 DEF NetInv
  <2> QED BY <1>1, <1>8, <2>1, Steady
<1> HIDE DEF c, d
<1>9. CASE Ends(p, d, none, TRUE) /\ net' = net
  <2>1. Range(<< >>) = {} /\ << >> \in Seq(Blocks) /\ Posts(none) /\ Range(none) = {}
    BY DEF Range, Posts
  <2>2. CtxTypes(d) /\ (h => CtxOk(d, known', t, {}))
    <3>1. CtxTypes(d)
      BY <1>3, <1>4, <1>6, <2>1 DEF CtxTypes, States
    <3>2. h => CtxOk(d, known', t, {})
      BY <1>3, <1>6, <2>1, ReadyEmpty DEF CtxOk
    <3> QED BY <3>1, <3>2
  <2> HIDE DEF none
  <2> QED BY <1>2, <1>5, <1>8, <1>9, <2>1, <2>2, FlowHandlerEnds
<1>10. CASE /\ ctx' = [ctx EXCEPT ![p] = c] /\ wire' = [wire EXCEPT ![p].in = Tail(@)]
            /\ job' = [job EXCEPT ![p] = j] /\ net' = net
  <2> DEFINE n == [m EXCEPT !.in = Tail(@)]
             a == After(m, none, TRUE)
  <2>1. wire' = [wire EXCEPT ![p] = n]
    BY <1>10 DEF SyncInv
  <2>2. n.in = a.in /\ n.out = a.out
    <3>1. m.out \o << >> = m.out
      BY <1>3, Posted DEF WireShape
    <3>2. n.in = Tail(m.in) /\ n.out = m.out
      BY <1>3 DEF WireShape
    <3>3. a.in = Tail(m.in) /\ a.out = m.out \o none
      BY DEF After
    <3> QED BY <3>1, <3>2, <3>3
  <2> HIDE DEF n
  <2>3. WireOk(n, known, t, h, {})
    <3>1. Posts(none) /\ Range(none) = {}
      BY DEF Posts, Range
    <3>2. WireOk(m, known, t, h, b.requested)
      BY OfFlow DEF Flow
    <3> HIDE DEF m, t, h, none, a, b
    <3>3. WireOk(After(m, none, TRUE), known, t, h, {})
      BY <1>2, <1>3, <1>5, <3>1, <3>2, WireTaken
    <3> QED BY <2>2, <3>3 DEF WireOk, a
  <2>4. CtxTypes(c)
    BY <1>3, <1>4, <1>6 DEF CtxTypes
  <2>5. JobTypes(j) /\ j.kind = "add" /\ j.blocks = bs /\ JobBlocks(j) = Range(bs)
    <3> HIDE DEF bs
    <3> QED BY <1>4 DEF JobTypes, JobBlocks
  <2> HIDE DEF j
  <2>6. ASSUME h PROVE CtxOk(c, known, t, JobBlocks(j))
    <3>1. known \cup b.requested \cup {} = known \cup c.requested \cup Range(bs)
      BY <1>4, <1>6, <2>6
    <3>2. CtxOk(b, known, t, {})
      BY <1>3, <2>6
    <3> QED BY <1>6, <2>5, <3>1, <3>2 DEF CtxOk
  <2>7. Flow(known, t, h, c, n, j)
    BY <1>4, <1>6, <2>3, <2>4, <2>5, <2>6 DEF Flow
  <2>8. Flow(known', peer'[p], p \notin net'.moved, c, n, j)
    BY <1>1, <1>10, <2>7
  <2>9. \A q \in Peers \ {p} : peer'[q] = peer[q] /\ (q \in net'.moved <=> q \in net.moved)
    BY <1>1, <1>10
  <2>10. ctx' = [ctx EXCEPT ![p] = c] /\ job' = [job EXCEPT ![p] = j]
    BY <1>10
  <2>11. KnownInv' /\ NetInv' /\ known \subseteq known'
    BY <1>8, <1>10
  <2> HIDE DEF b, m, t, h
  <2> QED BY <2>1, <2>8, <2>9, <2>10, <2>11, FlowOne
<1> QED BY <1>1, <1>7, <1>9, <1>10

\* The core takes a block whose parent is known.
LEMMA KnownGrows ==
  ASSUME KnownInv, NEW b \in Blocks, ~Orphan(b), AddBlock(b)
  PROVE  KnownInv' /\ known \subseteq known' /\ b \in known'
<1>1. b \in known \/ Parent[b] \in known
  BY DEF Orphan, Have
<1>2. known' = known \cup {b} /\ top' \in {b, top}
  BY DEF AddBlock
<1> QED BY <1>1, <1>2 DEF KnownInv, Rooted

LEMMA RangeTail ==
  ASSUME NEW s \in Seq(Blocks), s # << >>
  PROVE  /\ Range(s) = {Head(s)} \cup Range(Tail(s)) /\ Head(s) \in Blocks /\ Tail(s) \in Seq(Blocks)
<1> DEFINE r == Tail(s)
<1>1. /\ Head(s) = s[1] /\ r \in Seq(Blocks) /\ Len(r) = Len(s) - 1 /\ Len(s) \in Nat \ {0} /\ Head(s) \in Blocks
      /\ \A i \in 1 .. Len(r) : r[i] = s[i + 1]
  OBVIOUS
<1>2. DOMAIN s = 1 .. Len(s) /\ DOMAIN r = 1 .. Len(r)
  BY <1>1
<1>3. ASSUME NEW x \in Range(s) PROVE x = Head(s) \/ x \in Range(r)
  <2>1. PICK i \in 1 .. Len(s) : s[i] = x
    BY <1>2, <1>3 DEF Range
  <2>2. CASE i = 1
    BY <1>1, <2>1, <2>2
  <2>3. CASE i # 1
    <3> DEFINE k == i - 1
    <3>1. k \in 1 .. Len(r) /\ k + 1 = i
      BY <1>1, <2>1, <2>3
    <3> HIDE DEF k
    <3>2. r[k] = x
      BY <1>1, <2>1, <3>1
    <3> HIDE DEF r
    <3> QED BY <1>2, <3>1, <3>2 DEF Range
  <2> QED BY <2>2, <2>3
<1>4. Head(s) \in Range(s) /\ Range(r) \subseteq Range(s)
  BY RangeFacts
<1> HIDE DEF r
<1>5. Range(s) = {Head(s)} \cup Range(r)
  BY <1>3, <1>4
<1> QED BY <1>1, <1>5 DEF r

\* The next block of an answer: of a peer whose chain did not change it has a parent.
LEMMA AddReceivedFlow ==
  ASSUME SyncInv, FlowInv, NEW p \in Peers, AddReceived(p)
  PROVE  FlowInv'
<1> DEFINE c == ctx[p]
           m == wire[p]
           t == peer[p]
           h == p \notin net.moved
           j == job[p]
           b == Head(j.blocks)
           rest == Tail(j.blocks)
           d == [c EXCEPT !.state = "idle", !.needed = << >>, !.requested = {}]
           k == [j EXCEPT !.blocks = Tail(@), !.count = @ + 1]
           none == << >>
<1>1. /\ j.kind = "add" /\ j.blocks # << >> /\ UNCHANGED << peer, que, synced >>
      /\ \/ Ends(p, d, none, FALSE) /\ UNCHANGED << known, top, net >>
         \/ /\ job' = [job EXCEPT ![p] = k] /\ UNCHANGED << ctx, wire, net >>
            /\ \/ b \in known /\ UNCHANGED << known, top >>
               \/ ~Orphan(b) /\ AddBlock(b)
         \/ Orphan(b) /\ Drop(p) /\ UNCHANGED << known, top >>
  <2>1. [job EXCEPT ![p].blocks = Tail(@), ![p].count = @ + 1] = [job EXCEPT ![p] = k]
    BY OfFlow DEF SyncInv, JobShape
  <2> HIDE DEF d, k, none
  <2> QED BY <2>1 DEF AddReceived, Have, d, none
<1>2. /\ Flow(known, t, h, c, m, j) /\ KnownInv /\ NetInv /\ CtxShape(c) /\ WireShape(m) /\ JobShape(j)
      /\ t \in Blocks /\ h \in BOOLEAN /\ (m.up => Agrees(c, m, j))
  BY OfFlow DEF ConnInv
<1>3. /\ Range(j.blocks) = {b} \cup Range(rest) /\ b \in Blocks /\ rest \in Seq(Blocks) /\ JobBlocks(j) = Range(j.blocks)
      /\ h => Ready(known, j.blocks)
  <2>1. j.blocks \in Seq(Blocks) /\ (h => Ready(known, j.blocks))
    BY <1>1, <1>2 DEF Flow, JobTypes
  <2> HIDE DEF h
  <2> QED BY <1>1, <2>1, RangeTail DEF JobBlocks
<1>4. CASE Ends(p, d, none, FALSE) /\ UNCHANGED << known, top, net >>
  <2>1. KnownInv' /\ NetInv' /\ known \subseteq known' /\ net'.moved = net.moved /\ peer' = peer
    <3>1. que' \subseteq Blocks /\ synced' \in BOOLEAN
      BY <1>1, <1>2 DEF NetInv
    <3> QED BY <1>1, <1>4, <3>1, Steady
  <2>2. /\ d.state = "idle" /\ d.requested = {} /\ d.needed = << >> /\ d.fetched = c.fetched
        /\ d.lastResponse = c.lastResponse /\ d.remoteSize = c.remoteSize
    BY <1>2 DEF CtxShape
  <2>3. Range(<< >>) = {} /\ << >> \in Seq(Blocks) /\ Posts(none) /\ Range(none) = {}
    BY DEF Range, Posts
  <2> HIDE DEF d, none, h
  <2>4. CtxTypes(d) /\ (m.up /\ h => CtxOk(d, known', t, {}))
    <3>1. CtxTypes(d)
      BY <1>2, <2>2, <2>3 DEF Flow, CtxTypes, States
    <3>2. m.up /\ h => CtxOk(c, known, t, JobBlocks(j))
      BY <1>2 DEF Flow
    <3> QED BY <2>2, <2>3, <3>1, <3>2, ReadyEmpty DEF CtxOk
  <2>5. m.up => c.requested = d.requested
    BY <1>1, <1>2, <2>2, OnlyOne
  <2> QED BY <1>4, <2>1, <2>3, <2>4, <2>5, FlowHandlerEnds DEF h
<1>5. CASE /\ job' = [job EXCEPT ![p] = k] /\ UNCHANGED << ctx, wire, net >>
           /\ \/ b \in known /\ UNCHANGED << known, top >>
              \/ ~Orphan(b) /\ AddBlock(b)
  <2>1. KnownInv' /\ known \subseteq known' /\ b \in known'
    <3>1. CASE b \in known /\ UNCHANGED << known, top >>
      BY <1>2, <3>1 DEF KnownInv, Rooted
    <3>2. CASE ~Orphan(b) /\ AddBlock(b)
      <4> HIDE DEF b
      <4> QED BY <1>2, <1>3, <3>2, KnownGrows
    <3> QED BY <1>5, <3>1, <3>2
  <2>2. NetInv' /\ net' = net /\ peer' = peer
    BY <1>1, <1>2, <1>5 DEF NetInv
  <2>3. k.kind = "add" /\ k.blocks = rest
    BY <1>1, <1>2 DEF JobShape
  <2> HIDE DEF k, rest, h, c, m, b, j, t
  <2>4. JobTypes(k) /\ JobBlocks(k) = Range(rest)
    BY <1>3, <2>3 DEF JobTypes, JobBlocks
  <2>5. Flow(known', t, h, c, m, j)
    BY <1>2, <2>1, FlowMore
  <2>6. m.up /\ h => CtxOk(c, known', t, JobBlocks(k))
    <3>1. known' \cup c.requested \cup JobBlocks(j) = known' \cup c.requested \cup JobBlocks(k)
      BY <1>3, <2>1, <2>4
    <3>2. m.up /\ h => CtxOk(c, known', t, JobBlocks(j))
      BY <2>5 DEF Flow
    <3> QED BY <3>1, <3>2 DEF CtxOk
  <2>7. h => Ready(known', k.blocks)
    <3>1. h => Ready(known', j.blocks)
      BY <1>1, <2>5 DEF Flow
    <3>2. j.blocks \in Seq(Blocks) /\ j.blocks # << >>
      BY <1>1, <1>2 DEF Flow, JobTypes
    <3> QED BY <2>1, <2>3, <3>1, <3>2, ReadyHead DEF b, rest
  <2>8. Flow(known', t, h, c, m, k)
    BY <2>4, <2>5, <2>6, <2>7 DEF Flow
  <2>9. Flow(known', peer'[p], p \notin net'.moved, c, m, k)
    BY <2>2, <2>8 DEF t, h
  <2>10. wire' = [wire EXCEPT ![p] = m] /\ ctx' = [ctx EXCEPT ![p] = c] /\ job' = [job EXCEPT ![p] = k]
    BY <1>5 DEF SyncInv, m, c
  <2> QED BY <2>1, <2>2, <2>9, <2>10, FlowOne
<1>6. CASE Orphan(b) /\ Drop(p) /\ UNCHANGED << known, top >>
  <2>1. ASSUME h PROVE FALSE
    <3>1. j.blocks \in Seq(Blocks) /\ Ready(known, j.blocks)
      BY <1>2, <1>3, <2>1 DEF Flow, JobTypes
    <3> HIDE DEF j
    <3>2. b \in known \/ Parent[b] \in known
      BY <1>1, <3>1, ReadyHead
    <3> QED BY <1>6, <3>2 DEF Orphan, Have
  <2> QED BY <1>1, <1>6, <2>1, DropFlow
<1> QED BY <1>1, <1>4, <1>5, <1>6

LEMMA ObjectsAddedFlow ==
  ASSUME SyncInv, FlowInv, NEW p \in Peers, NEW lim, ObjectsAdded(p, lim)
  PROVE  FlowInv'
<1> DEFINE c == ctx[p]
           m == wire[p]
           t == peer[p]
           h == p \notin net.moved
           j == job[p]
           r == RequestMissing(c, TRUE, lim)
<1>1. /\ j.kind = "add" /\ j.blocks = << >> /\ Ends(p, r[1], r[2], FALSE)
      /\ UNCHANGED << known, top, peer, que, synced, net >>
  BY DEF ObjectsAdded
<1>2. /\ Flow(known, t, h, c, m, j) /\ KnownInv /\ NetInv /\ CtxShape(c) /\ WireShape(m)
      /\ t \in Blocks /\ h \in BOOLEAN /\ (m.up => Agrees(c, m, j))
  BY OfFlow DEF ConnInv
<1>3. KnownInv' /\ NetInv' /\ known \subseteq known' /\ net'.moved = net.moved /\ peer' = peer
  <2>1. que' \subseteq Blocks /\ synced' \in BOOLEAN
    BY <1>1, <1>2 DEF NetInv
  <2> QED BY <1>1, <2>1, Steady
<1> HIDE DEF c, m, t, h, j
<1>4. JobBlocks(j) = {}
  BY <1>1 DEF JobBlocks, Range
<1>5. ASSUME m.up
      PROVE  /\ CtxTypes(r[1]) /\ Posts(r[2])
             /\ \A x \in Range(r[2]) : OutOk(x, known, t, h, r[1].requested)
             /\ Count(m.out, "objects") = 0 /\ Count(Rest(m, FALSE), "blocks") = 0
             /\ h => CtxOk(r[1], known, t, {})
  <2>1. Rest(m, FALSE) = m.in
    BY DEF Rest
  <2>2. c.state = "synchronizing" /\ c.requested = {} /\ Count(m.out, "objects") = 0 /\ Count(m.in, "blocks") = 0
    BY <1>1, <1>2, <1>5, OnlyOne
  <2>3. CtxTypes(c) /\ (h => CtxOk(c, known, t, {}))
    BY <1>2, <1>4, <1>5 DEF Flow
  <2>4. Rooted(known) /\ top \in known
    BY <1>2 DEF KnownInv
  <2> QED BY <1>2, <2>1, <2>2, <2>3, <2>4, RequestFlow
<1> HIDE DEF r
<1>6. /\ m.up => \A x \in Range(r[2]) : OutOk(x, known', t, h, r[1].requested)
      /\ m.up /\ h => CtxOk(r[1], known', t, {})
  BY <1>1, <1>5
<1> QED BY <1>1, <1>3, <1>5, <1>6, FlowHandlerEnds DEF m, t, h

LEMMA HandleNewBlockFlow ==
  ASSUME SyncInv, FlowInv, NEW p \in Peers, HandleNewBlock(p)
  PROVE  FlowInv'
<1> DEFINE c == ctx[p]
           m == wire[p]
           t == peer[p]
           h == p \notin net.moved
           b == Head(m.in).block
           n == [m EXCEPT !.in = Tail(@)]
           j == [kind |-> "new", blocks |-> << b >>, count |-> 0]
<1>1. /\ m.up /\ job[p] = NoJob /\ m.in # << >> /\ Head(m.in).t = "new"
      /\ UNCHANGED << known, top, peer, ctx, synced, net >>
      /\ que' = que \/ que' = que \cup {b}
      /\ wire' = [wire EXCEPT ![p] = n]
      /\ job' = [job EXCEPT ![p] = NoJob] \/ job' = [job EXCEPT ![p] = j]
  <2>1. [job EXCEPT ![p] = @] = [job EXCEPT ![p] = NoJob] /\ [wire EXCEPT ![p].in = Tail(@)] = [wire EXCEPT ![p] = n]
    BY DEF HandleNewBlock, Receives, SyncInv
  <2> HIDE DEF n, j
  <2> QED BY <2>1 DEF HandleNewBlock, Receives, j
<1>2. /\ Flow(known, t, h, c, m, NoJob) /\ KnownInv /\ NetInv /\ WireShape(m) /\ b \in Blocks
  BY <1>1, OfFlow DEF InOk
<1>3. n.up = m.up /\ n.out = m.out /\ n.in = Tail(m.in)
  BY <1>2 DEF WireShape
<1>4. JobTypes(j) /\ j.kind = "new" /\ JobBlocks(j) = {}
  <2>1. << b >> \in Seq(Blocks) /\ << b >> # << >>
    BY <1>2
  <2> HIDE DEF b
  <2> QED BY <2>1 DEF JobTypes, JobBlocks
<1>5. JobTypes(NoJob) /\ NoJob.kind = "none" /\ JobBlocks(NoJob) = {}
  BY DEF JobTypes, NoJob, JobBlocks
<1>6. KnownInv' /\ NetInv' /\ known \subseteq known' /\ net'.moved = net.moved /\ peer' = peer
  <2>1. que' \subseteq Blocks /\ synced' \in BOOLEAN
    BY <1>1, <1>2 DEF NetInv
  <2> QED BY <1>1, <2>1, Steady
<1> HIDE DEF n, j, c, m, t, h, b
<1>7. WireOk(n, known, t, h, c.requested)
  <2>1. IsSeq(m.in)
    BY <1>2 DEF WireShape
  <2>2. Range(Tail(m.in)) \subseteq Range(m.in)
    BY <1>1, <2>1, RangeOf
  <2> QED BY <1>2, <1>3, <2>2 DEF Flow, WireOk
<1>8. ASSUME NEW k, k = j \/ k = NoJob PROVE Flow(known', peer'[p], p \notin net'.moved, c, n, k)
  <2>1. JobTypes(k) /\ k.kind # "add" /\ JobBlocks(k) = JobBlocks(NoJob)
    BY <1>4, <1>5, <1>8
  <2>2. Flow(known, t, h, c, n, k)
    BY <1>2, <1>3, <1>7, <2>1 DEF Flow
  <2> QED BY <1>1, <2>2 DEF t, h
<1>9. /\ ctx' = [ctx EXCEPT ![p] = c]
      /\ \A q \in Peers \ {p} : peer'[q] = peer[q] /\ (q \in net'.moved <=> q \in net.moved)
  BY <1>1 DEF SyncInv, c
<1>10. CASE job' = [job EXCEPT ![p] = NoJob]
  BY <1>1, <1>6, <1>8, <1>9, <1>10, FlowOne
<1>11. CASE job' = [job EXCEPT ![p] = j]
  BY <1>1, <1>6, <1>8, <1>9, <1>11, FlowOne
<1> QED BY <1>1, <1>10, <1>11

LEMMA AddNotifiedFlow ==
  ASSUME SyncInv, FlowInv, NEW p \in Peers, AddNotified(p)
  PROVE  FlowInv'
<1> DEFINE c == ctx[p]
           m == wire[p]
           t == peer[p]
           h == p \notin net.moved
           j == job[p]
           b == Head(j.blocks)
           d == [c EXCEPT !.state = "synchronizing", !.fetched = << >>]
           r == Asking(d, ShortHistory(Path[top]))
           none == << >>
<1>1. /\ j.kind = "new" /\ que' = que \ {b} /\ UNCHANGED << peer, synced, net >>
      /\ \/ Ends(p, c, none, FALSE) /\ UNCHANGED << known, top >>
         \/ Ends(p, c, none, FALSE) /\ ~Orphan(b) /\ AddBlock(b)
         \/ Ends(p, r[1], r[2], FALSE) /\ UNCHANGED << known, top >>
  BY DEF AddNotified
<1>2. /\ Flow(known, t, h, c, m, j) /\ KnownInv /\ NetInv /\ CtxShape(c) /\ WireShape(m)
      /\ t \in Blocks /\ h \in BOOLEAN
  BY OfFlow DEF ConnInv
<1>3. b \in Blocks /\ JobBlocks(j) = {}
  <2>1. j.blocks \in Seq(Blocks) /\ j.blocks # << >>
    BY <1>1, <1>2 DEF Flow, JobTypes
  <2> HIDE DEF j
  <2> QED BY <1>1, <2>1, RangeTail DEF JobBlocks
<1>4. CtxTypes(c) /\ (m.up /\ h => CtxOk(c, known, t, {}))
  BY <1>2, <1>3 DEF Flow
<1>5. KnownInv' /\ NetInv' /\ known \subseteq known' /\ net'.moved = net.moved /\ peer' = peer
  <2>1. NetInv'
    BY <1>1, <1>2 DEF NetInv
  <2>2. CASE UNCHANGED << known, top >>
    BY <1>1, <1>2, <2>1, <2>2 DEF KnownInv, Rooted
  <2>3. CASE ~Orphan(b) /\ AddBlock(b)
    <3> HIDE DEF b
    <3>1. KnownInv' /\ known \subseteq known'
      BY <1>2, <1>3, <2>3, KnownGrows
    <3> QED BY <1>1, <2>1, <3>1
  <2> QED BY <1>1, <2>2, <2>3
<1>6. CASE Ends(p, c, none, FALSE)
  <2>1. m.up /\ h => CtxOk(c, known', t, {})
    <3>1. Flow(known', t, h, c, m, j)
      <4> HIDE DEF t, h, c, m, j
      <4> QED BY <1>2, <1>5, FlowMore
    <3> QED BY <1>3, <3>1 DEF Flow
  <2>2. Posts(none) /\ Range(none) = {}
    BY DEF Posts, Range
  <2> HIDE DEF none
  <2> QED BY <1>4, <1>5, <1>6, <2>1, <2>2, FlowHandlerEnds
<1>7. CASE Ends(p, r[1], r[2], FALSE) /\ UNCHANGED << known, top >>
  <2> DEFINE e == [d EXCEPT !.expectChain = @ + 1]
  <2>1. r[1] = e
    BY DEF Asking
  <2>2. /\ e.state = "synchronizing" /\ e.needed = c.needed /\ e.requested = c.requested /\ e.fetched = << >>
        /\ e.lastResponse = c.lastResponse /\ e.remoteSize = c.remoteSize
    BY <1>2 DEF CtxShape
  <2>3. Posts(r[2]) /\ \A x \in Range(r[2]) : OutOk(x, known, t, h, c.requested)
    <3> DEFINE q == c.requested
    <3> HIDE DEF t, h, q, d
    <3> QED BY <1>2, AskMain DEF q
  <2> HIDE DEF r, e, c, t, h
  <2>4. Range(<< >>) = {} /\ << >> \in Seq(Blocks)
    BY DEF Range
  <2>5. CtxTypes(e) /\ (m.up /\ h => CtxOk(e, known, t, {}))
    BY <1>4, <2>2, <2>4 DEF CtxTypes, CtxOk, States
  <2>6. /\ \A x \in Range(r[2]) : OutOk(x, known', t, h, e.requested)
        /\ m.up /\ h => CtxOk(e, known', t, {})
    BY <1>7, <2>2, <2>3, <2>5
  <2>7. ctx[p].requested = e.requested
    BY <2>2 DEF c
  <2> QED BY <1>5, <1>7, <2>1, <2>3, <2>5, <2>6, <2>7, FlowHandlerEnds DEF t, h
<1> QED BY <1>1, <1>6, <1>7

-----------------------------------------------------------------------------
(* The theorems. *)

LEMMA SyncInit == Init => SyncInv
<1> SUFFICES ASSUME Init PROVE SyncInv
  OBVIOUS
<1>1. ASSUME NEW p \in Peers PROVE wire[p] = NoWire /\ ctx[p] = Gone /\ job[p] = NoJob
  BY DEF Init
<1>2. ASSUME NEW p \in Peers PROVE ConnInv(p)
  BY <1>1, Closed DEF ConnInv
<1> QED BY <1>2 DEF SyncInv, Init

LEMMA SyncStep ==
  ASSUME SyncInv, [Next]_vars
  PROVE  SyncInv'
<1>1. CASE UNCHANGED vars \/ OnIdle
  <2>1. UNCHANGED << wire, ctx, job >>
    BY <1>1 DEF vars, OnIdle
  <2> QED BY <2>1 DEF SyncInv, ConnInv
<1>2. ASSUME NEW p \in Peers, NodeStep(p) PROVE SyncInv'
  BY <1>2, HandleSyncStep, OnCallbackStep, HandleObjectsStep, AddReceivedStep, HandleNewBlockStep,
     AddNotifiedStep, HandleChainEntryStep, ObjectsAddedStep DEF NodeStep
<1> QED BY <1>1, <1>2, AnswerStep, PeerStep DEF Next

LEMMA FlowInit == Init => FlowInv
<1> SUFFICES ASSUME Init PROVE FlowInv
  OBVIOUS
<1> DEFINE q == Path[LocalStart]
           n == Len(q)
<1>1. /\ known = Range(q) \cup {Genesis} /\ top = LocalStart /\ peer \in [Peers -> Blocks] /\ que = {}
      /\ synced = FALSE /\ net = [trouble |-> 0, moved |-> {}, blamed |-> {}] /\ LocalStart \in Blocks
  BY TreeAssumption DEF Init
<1>2. NetInv
  BY <1>1 DEF NetInv
<1>3. KnownInv
  <2>1. q \in Seq(Blocks) /\ known \subseteq Blocks /\ Genesis \in known /\ LocalStart \in known
    BY <1>1, ChainFacts, TreeAssumption DEF Chain
  <2>2. DOMAIN q = 1 .. n /\ n \in Nat
    BY <2>1
  <2>3. ASSUME NEW b \in known \ {Genesis} PROVE Parent[b] \in known
    <3>1. PICK i \in 1 .. n : q[i] = b
      BY <1>1, <2>2, <2>3 DEF Range
    <3>2. Parent[b] = IF i = 1 THEN Genesis ELSE q[i - 1]
      BY <1>1, <3>1, PathSteps DEF StepOfPath
    <3>3. CASE i = 1
      BY <2>1, <3>2, <3>3
    <3>4. CASE i # 1
      <4> DEFINE k == i - 1
      <4>1. k \in DOMAIN q
        BY <2>2, <3>1, <3>4
      <4>2. Parent[b] = q[k]
        BY <3>2, <3>4
      <4> HIDE DEF q, k
      <4> QED BY <1>1, <4>1, <4>2 DEF Range
    <3> QED BY <3>3, <3>4
  <2> QED BY <1>1, <2>1, <2>3 DEF KnownInv, Rooted
<1>4. ASSUME NEW p \in Peers PROVE Flow(known, peer[p], p \notin net.moved, ctx[p], wire[p], job[p])
  <2> DEFINE h == p \notin net.moved
  <2>1. wire[p] = NoWire /\ ctx[p] = Gone /\ job[p] = NoJob /\ peer[p] \in Blocks /\ h \in BOOLEAN
    BY <1>1 DEF Init
  <2> HIDE DEF h
  <2>2. Flow(known, peer[p], h, Gone, NoWire, NoJob)
    BY <2>1, FlowClosed
  <2> QED BY <2>1, <2>2 DEF h
<1> QED BY <1>2, <1>3, <1>4 DEF FlowInv

LEMMA FlowStep ==
  ASSUME SyncInv, FlowInv, [Next]_vars
  PROVE  FlowInv'
<1>1. CASE UNCHANGED vars \/ OnIdle
  <2>1. UNCHANGED << known, top, peer, ctx, wire, job, que, net >> /\ (synced' = synced \/ synced' \in BOOLEAN)
    <3>1. CASE UNCHANGED vars
      BY <3>1 DEF vars
    <3>2. CASE OnIdle
      <4> DEFINE count(s) == Cardinality({ p \in Peers : ctx[p].state \in s })
                 a == count({"normal"})
                 b == count({"before", "synchronizing", "idle", "normal"}) \div 2
      <4>1. synced' = (a > b) /\ UNCHANGED << known, top, peer, ctx, wire, job, que, net >>
        BY <3>2 DEF OnIdle
      <4> HIDE DEF a, b
      <4>2. (a > b) \in BOOLEAN
        OBVIOUS
      <4> QED BY <4>1, <4>2
    <3> QED BY <1>1, <3>1, <3>2
  <2>2. KnownInv' /\ NetInv'
    BY <2>1 DEF FlowInv, KnownInv, Rooted, NetInv
  <2> QED BY <2>1, <2>2 DEF FlowInv
<1>2. ASSUME NEW p \in Peers, NodeStep(p) PROVE FlowInv'
  BY <1>2, HandleSyncFlow, OnCallbackFlow, HandleObjectsFlow, AddReceivedFlow, HandleNewBlockFlow,
     AddNotifiedFlow, HandleChainEntryFlow, ObjectsAddedFlow DEF NodeStep
<1>3. ASSUME NEW p \in Peers, Answer(p) PROVE FlowInv'
  BY <1>3, AnswerChainFlow, AnswerObjectsFlow DEF Answer
<1> QED BY <1>1, <1>2, <1>3, PeerFlow DEF Next

\* What a context expects (m_expected_NOTIFY_RESPONSE_CHAIN_ENTRY_count and
\* m_expected_NOTIFY_RESPONSE_GET_OBJECTS_count) is what is on its wire, whatever other
\* connections do in between: no handler takes an answer for one that was not asked for.
THEOREM ExpectationsAreExact == Spec => []ExpectationsExact
<1>1. SyncInv => ExpectationsExact
  BY DEF SyncInv, ConnInv, Agrees, ExpectationsExact, InFlight
<1>2. SyncInv /\ [Next]_vars => SyncInv'
  BY SyncStep
<1> QED BY SyncInit, <1>1, <1>2, PTL DEF Spec

\* A connection waits for one thing at most, and one that synchronises waits for
\* something unless request_missing_objects gave up on it.
THEOREM OneThingAtATime == Spec => []OneConversation
<1>1. SyncInv => OneConversation
  <2> SUFFICES ASSUME SyncInv, NEW p \in Peers, wire[p].up
               PROVE  /\ Waits(p) <= IF ctx[p].state = "synchronizing" THEN 1 ELSE 0
                      /\ ctx[p].state = "synchronizing" => Waits(p) = 1 \/ Stuck(ctx[p])
    BY DEF OneConversation
  <2>1. Waits(p) = Pending(ctx[p], wire[p], job[p])
    BY DEF Waits, Pending, InFlight
  <2>2. Agrees(ctx[p], wire[p], job[p])
    BY DEF SyncInv, ConnInv
  <2> QED BY <2>1, <2>2 DEF Agrees
<1>2. SyncInv /\ [Next]_vars => SyncInv'
  BY SyncStep
<1> QED BY SyncInit, <1>1, <1>2, PTL DEF Spec

\* No handler drops a peer whose chain did not change since the handshake: what such a
\* peer answers is what was asked of it (m_requested_objects), starts at a block the node
\* has and goes on with blocks whose parents come first, whatever other connections,
\* other peers and the core do between the question, the answer and the last block of it.
THEOREM NoHonestPeerDropped == Spec => []NoHonestDrop
<1>1. FlowInv => NoHonestDrop
  BY DEF FlowInv, NetInv, NoHonestDrop
<1>2. SyncInv /\ FlowInv /\ [Next]_vars => SyncInv' /\ FlowInv'
  BY SyncStep, FlowStep
<1>3. Init => SyncInv /\ FlowInv
  BY SyncInit, FlowInit
<1> QED BY <1>1, <1>2, <1>3, PTL DEF Spec

\* The fields of currency_connection_context and the blocks of the node keep their
\* types: no counter of expected answers, callbacks or heights goes below zero, and
\* the top block is one the node has.
THEOREM SyncTypes == Spec => []TypeOK
<1>1. SyncInv /\ FlowInv => TypeOK
  <2> SUFFICES ASSUME SyncInv, FlowInv PROVE TypeOK
    OBVIOUS
  <2>1. ASSUME NEW p \in Peers
        PROVE  /\ CtxTypes(ctx[p]) /\ JobTypes(job[p])
               /\ job[p].kind \in {"none", "add", "new"}
               /\ { ctx[p].expectChain, ctx[p].expectObjects, ctx[p].callbacks } \subseteq Nat
    BY OfFlow DEF Flow, JobShape, CtxShape
  <2>2. known \subseteq Blocks /\ top \in known /\ peer \in [Peers -> Blocks] /\ que \subseteq Blocks /\ synced \in BOOLEAN
    BY DEF FlowInv, KnownInv, Rooted, NetInv
  <2> QED BY <2>1, <2>2 DEF TypeOK, CtxTypes, JobTypes
<1>2. SyncInv /\ FlowInv /\ [Next]_vars => SyncInv' /\ FlowInv'
  BY SyncStep, FlowStep
<1>3. Init => SyncInv /\ FlowInv
  BY SyncInit, FlowInit
<1> QED BY <1>1, <1>2, <1>3, PTL DEF Spec
=============================================================================
