---------------------------- MODULE BenchProofs ----------------------------
(***************************************************************************)
(* Proofs about Bench, for every command line, ring limit, fault set and    *)
(* number of warm-ups: success means that every operation was read once,    *)
(* the ring has room, commands in flight have slots of their own, memory is *)
(* freed only when nothing is in flight, and the end releases what is held.  *)
(***************************************************************************)
EXTENDS Bench, FiniteSetTheorems, SequenceTheorems, TLAPS

----------------------------------------------------------------------------
(* The inductive invariant *)

Commands == [op : Nat, lba : Nat, prp1 : Nat, prp2 : Nat]

KernelState == [ops : Nat, pipe : Nat, submitted : Nat, completed : Nat, error : {0, 2, 3}]

Ops == 0 .. cfg.ops - 1

\* Nothing is in the queues or at the controller.
Quiet == sq = <<>> /\ inflight = {} /\ cq = <<>>

\* From the end of the set-up to the end of the last kernel.
Active == bpc \in {"ready", "kernel", "between"}

\* The pages of slot s, in the order of the transfer.
SlotPages(s) == [p \in 0 .. cfg.pages - 1 |-> DataPage(s, p)]

\* The successful completions nobody has taken, and the operations that ran.
Oks(q)  == {j \in 1 .. Len(q) : q[j]}
HasRun  == {i \in Ops : reads[i] = 1}
AllRead == Refused \/ \A i \in Ops : reads[i] = 1

TypeInv ==
    /\ cfg \in Configs /\ cap \in RingCaps
    /\ bpc \in {"setup", "ready", "kernel", "between", "cleanup", "exited", "aborted"}
    /\ bheld \subseteq Things
    /\ k \in KernelState /\ k.submitted <= k.ops /\ k.completed <= k.submitted
    /\ sq \in Seq(Commands) /\ inflight \subseteq Commands /\ IsFiniteSet(inflight)
    /\ cq \in Seq(BOOLEAN)
    /\ Len(sq) <= Ring - 1 /\ Len(cq) <= Ring - 1
    /\ reads \in [Ops -> Nat] /\ warm \in Nat

\* The arrays describe the slots, and every LBA lies in the namespace.
ArraysInv ==
    /\ \A i \in DOMAIN lba : lba[i] \in 0 .. cfg.max - 1
    /\ Active =>
        /\ DOMAIN lba = Ops
        /\ \A s \in Slots : /\ prp1[s] \in Nat /\ prp2[s] \in Nat
                            /\ Pages(mem, prp1[s], prp2[s], cfg.pages) = SlotPages(s)
        /\ "data" \in bheld

\* What the kernel was launched with; it runs ahead by at most its depth.
LaunchInv ==
    /\ k.pipe <= cfg.depth /\ k.ops <= cfg.ops /\ (k.pipe = 0 => k.ops = 0)
    /\ k.submitted <= k.completed + k.pipe
    /\ Measured => Refused \/ k.ops = cfg.ops

\* Commands wait, and are fetched, in the order of their operations; the slot is
\* the operation's; with completions in order, those before it have completed.
OrderInv ==
    /\ \A i \in 1 .. Len(sq) : sq[i].op < k.submitted
    /\ \A i, j \in 1 .. Len(sq) : i < j => sq[i].op < sq[j].op
    /\ \A c \in inflight : c.op < k.submitted
    /\ \A c \in inflight : \A i \in 1 .. Len(sq) : c.op < sq[i].op
    /\ \A c, d \in inflight : c.op = d.op => c = d
    /\ inorder => \A c \in Outstanding : c.op >= k.completed + Len(cq)

SlotInv == \A c \in Outstanding :
    Pages(mem, c.prp1, c.prp2, cfg.pages) = SlotPages(SlotOf(c.op))

\* No operation is in two places; an overrun of the ring loses some.
CountInv == Len(sq) + Cardinality(inflight) + Len(cq) + k.completed <= k.submitted

\* Between launches all is quiet, unless the kernel gave up.
QuietInv ==
    /\ bpc \in {"setup", "ready"} => Quiet
    /\ bpc = "between" /\ k.error = 0 => Quiet
    /\ bpc # "kernel" /\ ~Quiet => gaveUp

\* The operations that ran are those whose completion was taken, or waits.
ReadInv ==
    /\ ~Measured => \A i \in Ops : reads[i] = 0
    /\ Measured => /\ \A i \in Ops : reads[i] <= 1
                   /\ \A c \in Outstanding : reads[c.op] = 0
                   /\ \A i \in Ops : i >= k.submitted => reads[i] = 0
    /\ Measured /\ bpc = "kernel" => Cardinality(HasRun) = k.completed + Cardinality(Oks(cq))
    /\ Measured /\ bpc = "between" /\ k.error = 0 => AllRead
    /\ bpc \in {"cleanup", "exited"} /\ ret = 0 => AllRead /\ Quiet

IInv == /\ TypeInv /\ ArraysInv /\ LaunchInv /\ OrderInv /\ SlotInv
        /\ CountInv /\ QuietInv /\ RingHasRoom /\ ReadInv

----------------------------------------------------------------------------
(* Arithmetic *)

\* A number is its quotient times the divisor and the remainder.
LEMMA DivMod ==
    ASSUME NEW i \in Nat, NEW n \in Nat \ {0}
    PROVE  /\ i \div n \in Nat /\ i % n \in 0 .. n - 1
           /\ i = n * (i \div n) + (i % n)
OBVIOUS

\* Multiples of n are at least n apart.
LEMMA MulLess ==
    ASSUME NEW n \in Nat \ {0}, NEW a \in Nat, NEW b \in Nat, a < b
    PROVE  n * a + n <= n * b
<1>1. a + 1 <= b
  OBVIOUS
<1>2. n * (a + 1) <= n * b
  BY <1>1
<1>q. QED
  BY <1>2

\* A place in a row of rows of n belongs to one row only.
LEMMA RowUnique ==
    ASSUME NEW n \in Nat \ {0}, NEW a \in Nat, NEW b \in Nat,
           NEW p \in 0 .. n - 1, NEW q \in 0 .. n - 1, n * a + p = n * b + q
    PROVE  a = b
<1>1. n * a \in Nat /\ n * b \in Nat
  OBVIOUS
<1>2. a < b => n * a + n <= n * b
  BY MulLess
<1>3. b < a => n * b + n <= n * a
  BY MulLess
<1>q. QED
  BY <1>1, <1>2, <1>3

\* Numbers less than n apart differ modulo n: a window of at most the depth
\* names every slot once.
LEMMA ModApart ==
    ASSUME NEW n \in Nat \ {0}, NEW i \in Nat, NEW j \in Nat, i < j, j - i < n
    PROVE  i % n # j % n
<1>1. PICK a \in Nat, r \in 0 .. n - 1 : a = i \div n /\ r = i % n /\ i = n * a + r
  BY DivMod
<1>2. PICK b \in Nat, t \in 0 .. n - 1 : b = j \div n /\ t = j % n /\ j = n * b + t
  BY DivMod
<1>3. n * a \in Nat /\ n * b \in Nat
  OBVIOUS
<1>4. a < b => n * a + n <= n * b
  BY MulLess
<1>5. b < a => n * b + n <= n * a
  BY MulLess
<1>6. ASSUME r = t PROVE FALSE
  <2>1. a # b
    BY <1>1, <1>2, <1>3, <1>6
  <2>q. QED
    BY <1>1, <1>2, <1>3, <1>4, <1>5, <1>6, <2>1
<1>q. QED
  BY <1>1, <1>2, <1>6

----------------------------------------------------------------------------
(* Queues *)

\* What fetching the first element of a queue leaves.
LEMMA TailOf ==
    ASSUME NEW S, NEW q \in Seq(S), q # <<>>
    PROVE  /\ Len(q) \in Nat \ {0} /\ Head(q) = q[1] /\ q[1] \in S
           /\ Tail(q) \in Seq(S) /\ Len(Tail(q)) = Len(q) - 1
           /\ \A i \in 1 .. Len(q) - 1 : Tail(q)[i] = q[i + 1]
           /\ 1 \in 1 .. Len(q)
  BY HeadTailProperties, LenProperties, EmptySeq

\* What a queue holds after a submission.
LEMMA AppendOf ==
    ASSUME NEW S, NEW q \in Seq(S), NEW e \in S
    PROVE  /\ Append(q, e) \in Seq(S) /\ Len(Append(q, e)) = Len(q) + 1 /\ Len(q) \in Nat
           /\ \A i \in 1 .. Len(q) : Append(q, e)[i] = q[i]
           /\ Append(q, e)[Len(q) + 1] = e
  BY AppendProperties, LenProperties

\* The empty queue.
LEMMA EmptyOf ==
    ASSUME NEW S
    PROVE  <<>> \in Seq(S) /\ Len(<<>>) = 0
  BY EmptySeq

\* The successful completions are finitely many,
LEMMA OksFinite ==
    ASSUME NEW q \in Seq(BOOLEAN)
    PROVE  IsFiniteSet(Oks(q)) /\ Cardinality(Oks(q)) \in Nat
<1>1. Len(q) \in Nat
  BY LenProperties
<1>2. IsFiniteSet(1 .. Len(q))
  BY <1>1, FS_Interval
<1>3. IsFiniteSet(Oks(q))
  BY <1>2, FS_Subset DEF Oks
<1>q. QED
  BY <1>3, FS_CardinalityType

\* one more when one is posted,
LEMMA OksAppend ==
    ASSUME NEW q \in Seq(BOOLEAN), NEW ok \in BOOLEAN
    PROVE  /\ ok = TRUE => Cardinality(Oks(Append(q, ok))) = Cardinality(Oks(q)) + 1
           /\ ok = FALSE => Cardinality(Oks(Append(q, ok))) = Cardinality(Oks(q))
<1>1. /\ Append(q, ok) \in Seq(BOOLEAN) /\ Len(Append(q, ok)) = Len(q) + 1 /\ Len(q) \in Nat
      /\ \A i \in 1 .. Len(q) : Append(q, ok)[i] = q[i]
      /\ Append(q, ok)[Len(q) + 1] = ok
  BY AppendOf
<1>2. IsFiniteSet(Oks(q)) /\ Cardinality(Oks(q)) \in Nat
  BY OksFinite
<1>3. CASE ok = TRUE
  <2>1. Oks(Append(q, ok)) = Oks(q) \cup {Len(q) + 1}
    BY <1>1, <1>3 DEF Oks
  <2>2. Len(q) + 1 \notin Oks(q)
    BY <1>1 DEF Oks
  <2>q. QED
    BY <1>2, <1>3, <2>1, <2>2, FS_AddElement
<1>4. CASE ok = FALSE
  <2>1. Oks(Append(q, ok)) = Oks(q)
    BY <1>1, <1>4 DEF Oks
  <2>q. QED
    BY <1>2, <1>4, <2>1
<1>q. QED
  BY <1>3, <1>4

\* and one fewer when one is taken.
LEMMA OksTail ==
    ASSUME NEW q \in Seq(BOOLEAN), q # <<>>
    PROVE  /\ Head(q) = TRUE => Cardinality(Oks(q)) = Cardinality(Oks(Tail(q))) + 1
           /\ Head(q) = FALSE => Cardinality(Oks(q)) = Cardinality(Oks(Tail(q)))
<1>1. /\ Len(q) \in Nat \ {0} /\ Head(q) = q[1] /\ q[1] \in BOOLEAN
      /\ Tail(q) \in Seq(BOOLEAN) /\ Len(Tail(q)) = Len(q) - 1
      /\ \A i \in 1 .. Len(q) - 1 : Tail(q)[i] = q[i + 1]
  BY TailOf
<1> DEFINE A == Oks(q) \ {1}
           B == Oks(Tail(q))
           f == [j \in B |-> j + 1]
<1>2. IsFiniteSet(Oks(q)) /\ IsFiniteSet(B) /\ Cardinality(Oks(q)) \in Nat /\ Cardinality(B) \in Nat
  BY <1>1, OksFinite
<1>3. IsFiniteSet(A)
  BY <1>2, FS_Subset
<1>4. f \in Bijection(B, A)
  <2>1. B \subseteq Nat
    BY <1>1 DEF Oks
  <2>2. \A j \in B : j + 1 \in A
    BY <1>1 DEF Oks
  <2>3. \A a \in A : a - 1 \in B /\ f[a - 1] = a
    <3>1. TAKE a \in A
    <3>2. a \in 2 .. Len(q) /\ q[a]
      BY <1>1 DEF Oks
    <3>3. a - 1 \in 1 .. Len(q) - 1 /\ (a - 1) + 1 = a
      BY <1>1, <3>2
    <3>4. Tail(q)[a - 1] = q[a]
      BY <1>1, <3>3
    <3>5. a - 1 \in B
      BY <1>1, <3>2, <3>3, <3>4 DEF Oks
    <3>q. QED
      BY <3>3, <3>5
  <2>4. f \in [B -> A]
    BY <2>2
  <2>5. \A x, y \in B : f[x] = f[y] => x = y
    BY <2>1
  <2>6. \A a \in A : \E x \in B : f[x] = a
    BY <2>3
  <2>q. QED
    BY <2>4, <2>5, <2>6 DEF Bijection, Injection, Surjection, IsInjective
<1>5. Cardinality(A) = Cardinality(B)
  <2>1. ExistsBijection(B, A)
    BY <1>4 DEF ExistsBijection
  <2>q. QED
    BY <1>2, <1>3, <2>1, FS_Bijection
<1>6. ASSUME q[1] = TRUE PROVE Cardinality(Oks(q)) = Cardinality(B) + 1
  <2>1. 1 \in Oks(q)
    BY <1>1, <1>6 DEF Oks
  <2>2. Cardinality(A) = Cardinality(Oks(q)) - 1
    BY <1>2, <2>1, FS_RemoveElement
  <2>q. QED
    BY <1>2, <1>5, <2>2
<1>7. ASSUME q[1] = FALSE PROVE Cardinality(Oks(q)) = Cardinality(B)
  <2>1. A = Oks(q)
    BY <1>7 DEF Oks
  <2>q. QED
    BY <1>5, <2>1
<1>q. QED
  BY <1>1, <1>6, <1>7

----------------------------------------------------------------------------
(* The command line and the ring *)

\* The command line has its types.
LEMMA CfgTyped ==
    ASSUME NEW c \in Configs
    PROVE  /\ c.depth \in Nat \ {0} /\ c.ops \in Nat \ {0} /\ c.pages \in Nat \ {0}
           /\ c.start \in Nat /\ c.max \in Nat \ {0}
           /\ c.pattern \in {"seq", "rand"}
  BY ConfigAssumption

\* The queue has at least one entry.
LEMMA RingTyped ==
    ASSUME cfg \in Configs, cap \in RingCaps
    PROVE  Ring \in Nat \ {0}
<1>1. cfg.depth + Headroom \in Nat
  BY CfgTyped, QueueAssumption
<1>2. (cfg.depth + Headroom) % WordMod \in Nat
  BY <1>1, DivMod, QueueAssumption
<1>3. RingSize(cfg.depth) \in Nat \ {0}
  BY <1>2, QueueAssumption DEF RingSize
<1>q. QED
  BY <1>3, QueueAssumption DEF Ring

----------------------------------------------------------------------------
(* The pages of a slot *)

\* The controller finds page i + 1 of a command whose list fits one page in
\* entry i of the list.
LEMMA ShortList ==
    ASSUME NEW mm, NEW l, NEW i \in Nat, NEW m \in Nat, m <= PerPage
    PROVE  ListEntry(mm, l, i, m) = mm[l][i]
  BY PerPageAssumption DEF ListEntry

\* The pages of the data buffer are numbers.
LEMMA DataPageTyped ==
    ASSUME cfg \in Configs, NEW s \in Nat, NEW p \in Nat
    PROVE  DataPage(s, p) \in Nat
<1>1. cfg.pages \in Nat \ {0}
  BY CfgTyped
<1>2. s * cfg.pages \in Nat
  BY <1>1
<1>q. QED
  BY <1>2 DEF DataPage

\* A page of the buffer belongs to one slot.
LEMMA SlotsApart ==
    ASSUME cfg \in Configs, NEW s \in Nat, NEW t \in Nat,
           NEW p \in 0 .. cfg.pages - 1, NEW q \in 0 .. cfg.pages - 1,
           DataPage(s, p) = DataPage(t, q)
    PROVE  s = t
<1>1. PICK n \in Nat \ {0} : n = cfg.pages
  BY CfgTyped
<1>2. p \in 0 .. n - 1 /\ q \in 0 .. n - 1
  BY <1>1
<1>3. n * s \in Nat /\ n * t \in Nat /\ s * n = n * s /\ t * n = n * t
  OBVIOUS
<1>4. 2 * (s * n + p) + 1 = 2 * (t * n + q) + 1
  BY <1>1 DEF DataPage
<1>5. n * s + p = n * t + q
  BY <1>2, <1>3, <1>4
<1>q. QED
  BY <1>2, <1>5, RowUnique

\* The set-up leaves arrays and lists that describe the slots.
LEMMA SlotsBuilt ==
    ASSUME cfg \in Configs, SetupOk, NEW s \in Slots
    PROVE  /\ prp1'[s] \in Nat /\ prp2'[s] \in Nat
           /\ Pages(mem', prp1'[s], prp2'[s], cfg.pages) = SlotPages(s)
<1>1. cfg.pages \in Nat \ {0} /\ cfg.pages <= PerPage + 1 /\ s \in Nat /\ cfg.depth \in Nat \ {0}
  BY CfgTyped, MdtsAssumption DEF Slots
<1>2. prp1'[s] = DataPage(s, 0) /\ prp2'[s] = Prp2For(cfg.pages, DataPage(s, 1), ListPage(s))
  BY DEF SetupOk
<1>3. DataPage(s, 0) \in Nat /\ DataPage(s, 1) \in Nat /\ ListPage(s) \in Nat
  BY <1>1, DataPageTyped DEF ListPage
<1>4. prp1'[s] \in Nat /\ prp2'[s] \in Nat
  BY <1>2, <1>3 DEF Prp2For
<1>5. ASSUME NEW i \in 1 .. cfg.pages - 1, cfg.pages > 2
      PROVE  mem'[ListPage(s)][i - 1] = DataPage(s, i)
  <2> DEFINE Put(e) == {q \in 1 .. cfg.pages - 1 : cfg.pages > 2 /\ ListSlot(q) = e}
             Entry(t, e) == IF Put(e) = {} THEN 0 ELSE DataPage(t, CHOOSE q \in Put(e) : TRUE)
  <2>1. mem' = [f \in {ListPage(t) : t \in Slots} |-> [e \in Entries |-> Entry(f - 100, e)]]
    BY DEF SetupOk
  <2>2. i - 1 \in Entries
    BY <1>1, <1>5, PerPageAssumption DEF Entries
  <2>3. Put(i - 1) = {i}
    BY <1>1, <1>5 DEF ListSlot
  <2>4. ListPage(s) - 100 = s
    BY <1>1 DEF ListPage
  <2>5. Entry(s, i - 1) = DataPage(s, i)
    <3>1. (CHOOSE q \in {i} : TRUE) = i
      OBVIOUS
    <3>q. QED
      BY <2>3, <3>1
  <2> HIDE DEF Entry
  <2>6. mem'[ListPage(s)] = [e \in Entries |-> Entry(ListPage(s) - 100, e)]
    BY <2>1
  <2>q. QED
    BY <2>2, <2>4, <2>5, <2>6
<1>6. ASSUME NEW i \in 0 .. cfg.pages - 1
      PROVE  (IF i = 0 THEN prp1'[s] ELSE IF cfg.pages = 2 THEN prp2'[s]
              ELSE ListEntry(mem', prp2'[s], i - 1, cfg.pages - 1)) = DataPage(s, i)
  <2>1. CASE i = 0
    BY <1>2, <2>1
  <2>2. CASE i # 0 /\ cfg.pages = 2
    <3>1. i = 1
      BY <1>1, <1>6, <2>2
    <3>q. QED
      BY <1>2, <2>2, <3>1 DEF Prp2For
  <2>3. CASE i # 0 /\ cfg.pages # 2
    <3>1. i \in 1 .. cfg.pages - 1 /\ cfg.pages > 2
      BY <1>1, <1>6, <2>3
    <3>2. prp2'[s] = ListPage(s)
      BY <1>1, <1>2, <3>1 DEF Prp2For
    <3>3. i - 1 \in Nat /\ cfg.pages - 1 \in Nat /\ cfg.pages - 1 <= PerPage
      BY <1>1, <3>1, PerPageAssumption
    <3>4. ListEntry(mem', ListPage(s), i - 1, cfg.pages - 1) = mem'[ListPage(s)][i - 1]
      BY ONLY <3>3, ShortList, PerPageAssumption
    <3>q. QED
      BY <1>5, <2>3, <3>1, <3>2, <3>4
  <2>q. QED
    BY <2>1, <2>2, <2>3
<1>7. Pages(mem', prp1'[s], prp2'[s], cfg.pages) = SlotPages(s)
  BY <1>6 DEF Pages, SlotPages
<1>q. QED
  BY <1>4, <1>7

\* Every LBA the set-up writes lies in the namespace.
LEMMA LbasTyped ==
    ASSUME cfg \in Configs, NEW l \in Lbas
    PROVE  DOMAIN l = Ops /\ \A i \in DOMAIN l : l[i] \in 0 .. cfg.max - 1
<1>1. cfg.pages \in Nat /\ cfg.max \in Nat \ {0} /\ cfg.start \in Nat /\ BlocksPerPage \in Nat \ {0}
  BY CfgTyped, CountAssumption
<1>2. BlocksPerOp \in Nat
  BY <1>1 DEF BlocksPerOp
<1>3. CASE cfg.pattern = "seq"
  <2>1. l = [i \in Ops |-> (cfg.start + i * BlocksPerOp) % cfg.max]
    BY <1>3 DEF Lbas, Ops
  <2>2. ASSUME NEW i \in Ops PROVE (cfg.start + i * BlocksPerOp) % cfg.max \in 0 .. cfg.max - 1
    <3>1. i \in Nat
      BY DEF Ops
    <3>2. i * BlocksPerOp \in Nat
      BY <1>2, <3>1
    <3>3. cfg.start + i * BlocksPerOp \in Nat
      BY <1>1, <3>2
    <3>q. QED
      BY <1>1, <3>3, DivMod
  <2>q. QED
    BY <2>1, <2>2
<1>4. CASE cfg.pattern # "seq"
  <2>1. l \in [Ops -> 0 .. LbaRange(cfg.max, BlocksPerOp) - 1]
    BY <1>4 DEF Lbas, Ops
  <2>2. LbaRange(cfg.max, BlocksPerOp) \in Nat /\ LbaRange(cfg.max, BlocksPerOp) <= cfg.max
    BY <1>1, <1>2 DEF LbaRange
  <2>q. QED
    BY <1>1, <2>1, <2>2
<1>q. QED
  BY <1>3, <1>4

----------------------------------------------------------------------------
(* The initial states, and what an action leaves alone *)

\* Counters and lengths are numbers in every state of the invariant.
LEMMA Numbers ==
    ASSUME TypeInv
    PROVE  /\ k.ops \in Nat /\ k.pipe \in Nat /\ k.submitted \in Nat /\ k.completed \in Nat
           /\ Len(sq) \in Nat /\ Len(cq) \in Nat /\ Cardinality(inflight) \in Nat
           /\ Ring \in Nat \ {0} /\ cfg.depth \in Nat \ {0} /\ cfg.ops \in Nat \ {0}
<1>1. k.ops \in Nat /\ k.pipe \in Nat /\ k.submitted \in Nat /\ k.completed \in Nat
  BY DEF TypeInv, KernelState
<1>2. Len(sq) \in Nat /\ Len(cq) \in Nat
  BY LenProperties DEF TypeInv
<1>3. Cardinality(inflight) \in Nat
  BY FS_CardinalityType DEF TypeInv
<1>4. Ring \in Nat \ {0}
  BY RingTyped DEF TypeInv
<1>5. cfg.depth \in Nat \ {0} /\ cfg.ops \in Nat \ {0}
  BY CfgTyped DEF TypeInv
<1>q. QED
  BY <1>1, <1>2, <1>3, <1>4, <1>5

\* With nothing about, nothing is out of order.
LEMMA QuietFacts ==
    ASSUME Quiet
    PROVE  /\ Outstanding = {} /\ Len(sq) = 0 /\ Len(cq) = 0 /\ Cardinality(inflight) = 0
           /\ IsFiniteSet(inflight) /\ sq \in Seq(Commands) /\ cq \in Seq(BOOLEAN) /\ Oks(cq) = {}
<1>1. sq = <<>> /\ inflight = {} /\ cq = <<>>
  BY DEF Quiet
<1>2. Len(sq) = 0 /\ Len(cq) = 0 /\ sq \in Seq(Commands) /\ cq \in Seq(BOOLEAN)
  BY <1>1, EmptyOf
<1>3. IsFiniteSet(inflight) /\ Cardinality(inflight) = 0
  BY <1>1, FS_EmptySet
<1>4. DOMAIN sq = {}
  BY <1>1
<1>5. Outstanding = {}
  BY <1>1, <1>4 DEF Outstanding
<1>6. Oks(cq) = {}
  BY <1>2 DEF Oks
<1>q. QED
  BY <1>2, <1>3, <1>5, <1>6

\* So order, slots and counts are right in a quiet state.
LEMMA QuietOrder ==
    ASSUME Quiet, k.completed \in Nat, k.submitted \in Nat, k.completed <= k.submitted
    PROVE  OrderInv /\ SlotInv /\ CountInv
<1>1. /\ Outstanding = {} /\ Len(sq) = 0 /\ Len(cq) = 0 /\ Cardinality(inflight) = 0 /\ inflight = {}
  BY QuietFacts DEF Quiet
<1>2. OrderInv
  BY <1>1 DEF OrderInv
<1>3. SlotInv
  BY <1>1 DEF SlotInv
<1>4. CountInv
  BY <1>1 DEF CountInv
<1>q. QED
  BY <1>2, <1>3, <1>4

\* The program starts in the invariant.
LEMMA Start == Init => IInv
<1> SUFFICES ASSUME Init PROVE IInv
  OBVIOUS
<1>1. Quiet
  BY DEF Init, Quiet
<1>2. k \in KernelState /\ k.submitted = 0 /\ k.completed = 0 /\ k.ops = 0 /\ k.pipe = 0
  BY DEF Init, KernelState
<1>3. cfg \in Configs /\ cap \in RingCaps
  BY DEF Init
<1>4. Ring \in Nat \ {0}
  BY <1>3, RingTyped
<1>5. cfg.depth \in Nat \ {0} /\ cfg.ops \in Nat \ {0}
  BY <1>3, CfgTyped
<1>6. TypeInv
  <2>1. reads \in [Ops -> Nat]
    BY DEF Init, Ops
  <2>2. inflight \subseteq Commands
    BY DEF Init
  <2>3. bpc = "setup" /\ bheld = {} /\ warm = 0
    BY DEF Init
  <2>q. QED
    BY <1>1, <1>2, <1>3, <1>4, <2>1, <2>2, <2>3, QuietFacts DEF TypeInv
<1>7. ArraysInv
  <2>1. DOMAIN lba = {} /\ ~Active
    BY DEF Init, Active
  <2>q. QED
    BY <2>1 DEF ArraysInv
<1>8. LaunchInv
  <2>1. ~Measured
    BY CountAssumption DEF Init, Measured
  <2>q. QED
    BY <1>2, <1>5, <2>1 DEF LaunchInv
<1>9. OrderInv /\ SlotInv /\ CountInv
  BY <1>1, <1>2, QuietOrder
<1>10. QuietInv
  BY <1>1 DEF Init, QuietInv
<1>11. RingHasRoom
  BY DEF Init, RingHasRoom
<1>12. ReadInv
  <2>1. ~Measured /\ bpc = "setup"
    BY CountAssumption DEF Init, Measured
  <2>2. \A i \in Ops : reads[i] = 0
    BY DEF Init, Ops
  <2>q. QED
    BY <2>1, <2>2 DEF ReadInv
<1>q. QED
  BY <1>6, <1>7, <1>8, <1>9, <1>10, <1>11, <1>12 DEF IInv

\* Steps of the host between launches leave queues, controller and kernel alone.
LEMMA HostFrame ==
    ASSUME IInv, UNCHANGED <<cfg, cap, mem, warm, devVars, k, overrun>>
    PROVE  /\ LaunchInv' /\ OrderInv' /\ SlotInv' /\ CountInv' /\ RingHasRoom'
           /\ Outstanding' = Outstanding /\ (Quiet' <=> Quiet) /\ (Measured' <=> Measured)
           /\ Ops' = Ops /\ Slots' = Slots /\ Ring' = Ring /\ (AllRead' <=> AllRead)
<1>1. /\ cfg' = cfg /\ cap' = cap /\ mem' = mem /\ warm' = warm /\ k' = k /\ overrun' = overrun
      /\ sq' = sq /\ inflight' = inflight /\ cq' = cq /\ reads' = reads /\ inorder' = inorder
  BY DEF devVars
<1>2. /\ Outstanding' = Outstanding /\ (Measured' <=> Measured) /\ Ops' = Ops
      /\ Slots' = Slots /\ Ring' = Ring /\ (Quiet' <=> Quiet) /\ (AllRead' <=> AllRead)
  BY <1>1 DEF Outstanding, Measured, Ops, Slots, Ring, RingSize, Quiet, AllRead, Refused
<1>3. LaunchInv'
  BY <1>1, <1>2 DEF IInv, LaunchInv, Refused
<1>4. OrderInv'
  BY <1>1, <1>2 DEF IInv, OrderInv
<1>5. SlotInv'
  BY <1>1, <1>2 DEF IInv, SlotInv, SlotPages, SlotOf, DataPage
<1>6. CountInv'
  BY <1>1 DEF IInv, CountInv
<1>7. RingHasRoom'
  BY <1>1, <1>2 DEF IInv, RingHasRoom
<1>q. QED
  BY <1>2, <1>3, <1>4, <1>5, <1>6, <1>7

\* Types of such a step.
LEMMA HostTypes ==
    ASSUME IInv, UNCHANGED <<cfg, cap, warm, devVars, k>>,
           bpc' \in {"setup", "ready", "kernel", "between", "cleanup", "exited", "aborted"},
           bheld' \subseteq Things
    PROVE  TypeInv'
<1>1. /\ cfg' = cfg /\ cap' = cap /\ k' = k
      /\ sq' = sq /\ inflight' = inflight /\ cq' = cq /\ reads' = reads /\ warm' = warm
  BY DEF devVars
<1>2. Ring' = Ring /\ Ops' = Ops
  BY <1>1 DEF Ring, RingSize, Ops
<1>q. QED
  BY <1>1, <1>2 DEF IInv, TypeInv, Things, SetupSteps

----------------------------------------------------------------------------
(* The host *)

\* What the set-up holds are its steps.
LEMMA AcquiredSteps ==
    ASSUME NEW n \in 0 .. Len(SetupSteps)
    PROVE  Acquired(n) \subseteq Things
<1>1. Len(SetupSteps) = 10 /\ DOMAIN SetupSteps = 1 .. 10
  BY DEF SetupSteps
<1>2. 1 .. n \subseteq 1 .. 10
  BY <1>1
<1>q. QED
  BY <1>1, <1>2 DEF Acquired, Things

\* A complete set-up holds the data buffer.
LEMMA DataAcquired == "data" \in Acquired(Len(SetupSteps)) \ {"pagemap"}
<1>1. Len(SetupSteps) = 10 /\ SetupSteps[6] = "data" /\ 6 \in 1 .. 10
  BY DEF SetupSteps
<1>q. QED
  BY <1>1 DEF Acquired

\* The complete set-up touches no queue.
LEMMA SetupOkStep ==
    ASSUME IInv, SetupOk
    PROVE  IInv'
<1>1. /\ bpc = "setup" /\ bpc' = "ready" /\ bheld' = Acquired(Len(SetupSteps)) \ {"pagemap"}
      /\ lba' \in Lbas
      /\ cfg' = cfg /\ cap' = cap /\ warm' = warm /\ k' = k /\ overrun' = overrun /\ gaveUp' = gaveUp
      /\ sq' = sq /\ inflight' = inflight /\ cq' = cq /\ reads' = reads /\ inorder' = inorder
  BY DEF SetupOk, devVars
<1>2. Quiet /\ Quiet'
  BY <1>1 DEF IInv, QuietInv, Quiet
<1>3. cfg \in Configs /\ (Measured' <=> Measured) /\ Ops' = Ops /\ Ring' = Ring /\ Slots' = Slots
  BY <1>1 DEF IInv, TypeInv, Measured, Ops, Ring, RingSize, Slots
<1>4. TypeInv'
  <2>1. bheld' \subseteq Things
    <3>1. Len(SetupSteps) \in 0 .. Len(SetupSteps)
      BY DEF SetupSteps
    <3>q. QED
      BY <1>1, <3>1, AcquiredSteps
  <2>2. UNCHANGED <<cfg, cap, warm, devVars, k>>
    BY <1>1 DEF devVars
  <2>q. QED
    BY <1>1, <2>1, <2>2, HostTypes
<1>5. ArraysInv'
  <2>1. DOMAIN lba' = Ops /\ \A i \in DOMAIN lba' : lba'[i] \in 0 .. cfg.max - 1
    BY <1>1, <1>3, LbasTyped
  <2>2. \A s \in Slots : /\ prp1'[s] \in Nat /\ prp2'[s] \in Nat
                         /\ Pages(mem', prp1'[s], prp2'[s], cfg.pages) = SlotPages(s)
    BY <1>3, SlotsBuilt
  <2>3. \A s : SlotPages(s)' = SlotPages(s)
    BY <1>1 DEF SlotPages, DataPage
  <2>4. "data" \in bheld'
    BY <1>1, DataAcquired
  <2>q. QED
    BY <1>1, <1>3, <2>1, <2>2, <2>3, <2>4 DEF ArraysInv
<1>6. LaunchInv'
  BY <1>1, <1>3 DEF IInv, LaunchInv, Refused
<1>7. OrderInv' /\ SlotInv' /\ CountInv'
  <2>1. k'.completed \in Nat /\ k'.submitted \in Nat /\ k'.completed <= k'.submitted
    BY <1>1 DEF IInv, TypeInv, KernelState
  <2>2. /\ Outstanding' = {} /\ Len(sq') = 0 /\ Len(cq') = 0 /\ Cardinality(inflight') = 0
        /\ inflight' = {}
    BY <1>1, <1>2, QuietFacts DEF Quiet, Outstanding
  <2>3. OrderInv'
    BY <2>1, <2>2 DEF OrderInv
  <2>4. SlotInv'
    BY <2>2 DEF SlotInv
  <2>5. CountInv'
    BY <2>1, <2>2 DEF CountInv
  <2>q. QED
    BY <2>3, <2>4, <2>5
<1>8. QuietInv'
  BY <1>1, <1>2 DEF QuietInv
<1>9. RingHasRoom'
  BY <1>1, <1>3 DEF IInv, RingHasRoom
<1>10. ReadInv'
  <2>1. Outstanding' = {}
    BY <1>1, <1>2, QuietFacts DEF Outstanding
  <2>q. QED
    BY <1>1, <1>3, <2>1 DEF IInv, ReadInv
<1>q. QED
  BY <1>4, <1>5, <1>6, <1>7, <1>8, <1>9, <1>10 DEF IInv

\* Nor does a set-up that fails.
LEMMA SetupFailsStep ==
    ASSUME IInv, NEW n \in 1 .. Len(SetupSteps), NEW left \in CtrlLeaves, SetupFails(n, left)
    PROVE  IInv'
<1>1. /\ bpc = "setup" /\ bpc' = "cleanup" /\ ret' = 1 /\ bheld' = Acquired(n - 1) \cup left
      /\ lba' = lba /\ reads' = reads /\ gaveUp' = gaveUp
      /\ UNCHANGED <<cfg, cap, mem, warm, devVars, k, overrun>>
  BY DEF SetupFails, devVars
<1>2. n - 1 \in 0 .. Len(SetupSteps)
  BY DEF SetupSteps
<1>3. UNCHANGED <<cfg, cap, warm, devVars, k>> /\ cfg' = cfg
  BY <1>1
<1>4. TypeInv'
  <2>1. Acquired(n - 1) \subseteq Things /\ left \subseteq Things
    BY <1>2, AcquiredSteps DEF CtrlLeaves, Things
  <2>2. bheld' \subseteq Things
    BY <1>1, <2>1
  <2>q. QED
    BY <1>1, <1>3, <2>2, HostTypes
<1>5. /\ LaunchInv' /\ OrderInv' /\ SlotInv' /\ CountInv' /\ RingHasRoom'
      /\ Outstanding' = Outstanding /\ (Quiet' <=> Quiet) /\ (Measured' <=> Measured)
      /\ Ops' = Ops
  BY <1>1, HostFrame
<1>6. ArraysInv'
  BY <1>1, <1>3 DEF IInv, ArraysInv, Active
<1>7. QuietInv'
  BY <1>1, <1>5 DEF IInv, QuietInv
<1>8. ReadInv'
  BY <1>1, <1>5 DEF IInv, ReadInv
<1>q. QED
  BY <1>4, <1>5, <1>6, <1>7, <1>8 DEF IInv

\* A launch finds the queues quiet and starts to count from 0.
LEMMA LaunchStep ==
    ASSUME IInv, LaunchWarmup \/ LaunchBench \/ LaunchRefused
    PROVE  IInv'
<1>1. /\ bpc = "ready" /\ bpc' \in {"kernel", "between"} /\ warm' = warm + 1 /\ k'.error = 0
      /\ k' \in KernelState /\ k'.submitted = 0 /\ k'.completed = 0
      /\ cfg' = cfg /\ cap' = cap /\ bheld' = bheld /\ mem' = mem /\ prp1' = prp1 /\ prp2' = prp2
      /\ lba' = lba /\ overrun' = overrun /\ gaveUp' = gaveUp
      /\ sq' = sq /\ inflight' = inflight /\ cq' = cq /\ reads' = reads /\ inorder' = inorder
      /\ k'.pipe \in 0 .. cfg.depth /\ k'.ops <= cfg.ops /\ (k'.pipe = 0 => k'.ops = 0)
      /\ (Measured' => k'.ops \in {0, cfg.ops}) /\ (bpc' = "between" => k'.ops = 0)
      /\ ~Measured
  <2>1. cfg.depth \in Nat \ {0} /\ cfg.ops \in Nat \ {0}
    BY Numbers DEF IInv
  <2>2. CASE LaunchWarmup
    <3>1. k' = [ops |-> 1, pipe |-> 1, submitted |-> 0, completed |-> 0, error |-> 0]
      BY <2>2 DEF LaunchWarmup, Launch
    <3>2. ~Measured /\ ~Measured'
      BY <2>2, CountAssumption DEF LaunchWarmup, Measured, IInv, TypeInv
    <3>q. QED
      BY <2>1, <2>2, <3>1, <3>2 DEF LaunchWarmup, KernelState, devVars
  <2>3. CASE LaunchBench
    <3>1. k' = [ops |-> cfg.ops, pipe |-> cfg.depth, submitted |-> 0, completed |-> 0, error |-> 0]
      BY <2>3 DEF LaunchBench, Launch, MeasuredOps
    <3>2. ~Measured
      BY <2>3, CountAssumption DEF LaunchBench, Measured, IInv, TypeInv
    <3>q. QED
      BY <2>1, <2>3, <3>1, <3>2 DEF LaunchBench, KernelState, devVars
  <2>4. CASE LaunchRefused
    <3>1. k' = [ops |-> 0, pipe |-> 0, submitted |-> 0, completed |-> 0, error |-> 0]
      BY <2>4 DEF LaunchRefused, Launch
    <3>2. ~Measured
      BY <2>4, CountAssumption DEF LaunchRefused, Measured, IInv, TypeInv
    <3>q. QED
      BY <2>1, <2>4, <3>1, <3>2 DEF LaunchRefused, KernelState, devVars
  <2>q. QED
    BY <2>2, <2>3, <2>4
<1>2. Quiet
  BY <1>1 DEF IInv, QuietInv
<1>3. /\ Ops' = Ops /\ Ring' = Ring /\ Slots' = Slots /\ Outstanding' = Outstanding
      /\ \A s : SlotPages(s)' = SlotPages(s)
  BY <1>1 DEF Ops, Ring, RingSize, Slots, Outstanding, SlotPages, DataPage
<1>4. /\ Outstanding = {} /\ Len(sq) = 0 /\ Len(cq) = 0 /\ Cardinality(inflight) = 0
      /\ inflight = {} /\ Oks(cq) = {}
  BY <1>2, QuietFacts DEF Quiet
<1>5. TypeInv'
  <2>1. k'.submitted <= k'.ops /\ k'.completed <= k'.submitted
    BY <1>1 DEF KernelState
  <2>q. QED
    BY <1>1, <1>3, <2>1 DEF IInv, TypeInv
<1>6. ArraysInv'
  BY <1>1, <1>3 DEF IInv, ArraysInv, Active
<1>7. LaunchInv'
  <2>1. cfg.depth \in Nat /\ cfg.ops \in Nat
    BY Numbers DEF IInv
  <2>q. QED
    BY <1>1, <2>1 DEF LaunchInv, KernelState, Refused
<1>8. OrderInv' /\ SlotInv' /\ CountInv'
  <2>1. OrderInv'
    BY <1>1, <1>3, <1>4 DEF OrderInv
  <2>2. SlotInv'
    BY <1>3, <1>4 DEF SlotInv
  <2>3. CountInv'
    BY <1>1, <1>4 DEF CountInv
  <2>q. QED
    BY <2>1, <2>2, <2>3
<1>9. QuietInv'
  BY <1>1, <1>2 DEF QuietInv, Quiet
<1>10. RingHasRoom'
  BY <1>1, <1>3 DEF IInv, RingHasRoom
<1>11. ReadInv'
  <2>1. \A i \in Ops : reads[i] = 0
    BY <1>1 DEF IInv, ReadInv
  <2>2. HasRun' = {} /\ Oks(cq') = {}
    BY <1>1, <1>3, <1>4, <2>1 DEF HasRun, Oks
  <2>3. Cardinality(HasRun') = 0 /\ Cardinality(Oks(cq')) = 0
    BY <2>2, FS_EmptySet
  <2>4. Cardinality(HasRun') = k'.completed + Cardinality(Oks(cq'))
    BY <1>1, <2>3
  <2>q. QED
    BY <1>1, <1>3, <1>4, <2>1, <2>4 DEF ReadInv, Oks, AllRead, Refused
<1>q. QED
  BY <1>5, <1>6, <1>7, <1>8, <1>9, <1>10, <1>11 DEF IInv

\* After a kernel: only a clean one leads to another launch or to success.
LEMMA SynchronizedStep ==
    ASSUME IInv, Synchronized
    PROVE  IInv'
<1>1. /\ bpc = "between" /\ ret' = (IF k.error # 0 THEN 1 ELSE ret)
      /\ lba' = lba /\ prp1' = prp1 /\ prp2' = prp2 /\ gaveUp' = gaveUp /\ bheld' = bheld
      /\ UNCHANGED <<cfg, cap, mem, warm, devVars, k, overrun>>
  BY DEF Synchronized, devVars
<1>2. /\ cfg' = cfg /\ mem' = mem /\ k' = k /\ reads' = reads /\ cq' = cq
      /\ UNCHANGED <<cfg, cap, warm, devVars, k>>
  BY <1>1 DEF devVars
<1>3. /\ LaunchInv' /\ OrderInv' /\ SlotInv' /\ CountInv' /\ RingHasRoom'
      /\ Outstanding' = Outstanding /\ (Quiet' <=> Quiet) /\ (Measured' <=> Measured)
      /\ Ops' = Ops /\ Slots' = Slots /\ (AllRead' <=> AllRead)
  BY <1>1, HostFrame
<1>4. \/ bpc' = "ready" /\ ~Measured /\ k.error = 0
      \/ bpc' = "cleanup" /\ (Measured \/ k.error # 0)
  BY DEF Synchronized, WarmupOk
<1>5. bheld' \subseteq Things
  BY <1>1 DEF IInv, TypeInv
<1>6. TypeInv'
  BY <1>2, <1>4, <1>5, HostTypes
<1>7. ArraysInv'
  <2>1. \A s : SlotPages(s)' = SlotPages(s)
    BY <1>2 DEF SlotPages, DataPage
  <2>2. Active
    BY <1>1 DEF Active
  <2>q. QED
    BY <1>1, <1>2, <1>3, <2>1, <2>2 DEF IInv, ArraysInv
<1>8. QuietInv'
  BY <1>1, <1>2, <1>3, <1>4 DEF IInv, QuietInv
<1>9. ReadInv'
  <2>1. k.error = 0 => Quiet /\ (Measured => AllRead)
    BY <1>1 DEF IInv, QuietInv, ReadInv
  <2>2. bpc' \in {"cleanup", "exited"} /\ ret' = 0 => AllRead' /\ Quiet'
    BY <1>1, <1>3, <1>4, <2>1
  <2>q. QED
    BY <1>1, <1>2, <1>3, <1>4, <2>2 DEF IInv, ReadInv
<1>q. QED
  BY <1>3, <1>6, <1>7, <1>8, <1>9 DEF IInv

\* The end of the program, by itself, by a failed CUDA call or with its kernel.
LEMMA EndStep ==
    ASSUME IInv, Exit \/ CudaExit \/ KernelDies
    PROVE  IInv'
<1>1. /\ \/ bpc = "cleanup" /\ bpc' = "exited" /\ ret' = ret
         \/ bpc' = "aborted"
      /\ lba' = lba /\ (IF bpc = "kernel" THEN ~Quiet => gaveUp' ELSE gaveUp' = gaveUp)
      /\ UNCHANGED <<cfg, cap, mem, warm, devVars, k, overrun>>
  BY DEF Exit, CudaExit, KernelDies, Quiet, devVars
<1>2. cfg' = cfg /\ reads' = reads /\ UNCHANGED <<cfg, cap, warm, devVars, k>>
  BY <1>1 DEF devVars
<1>3. /\ LaunchInv' /\ OrderInv' /\ SlotInv' /\ CountInv' /\ RingHasRoom'
      /\ Outstanding' = Outstanding /\ (Quiet' <=> Quiet) /\ (Measured' <=> Measured)
      /\ Ops' = Ops /\ (AllRead' <=> AllRead)
  BY <1>1, HostFrame
<1>4. bheld' \subseteq Things
  <2>1. bheld \subseteq Things
    BY DEF IInv, TypeInv
  <2>2. {"ctrl", "ioq"} \subseteq Things
    <3>1. SetupSteps[4] = "ctrl" /\ SetupSteps[5] = "ioq" /\ DOMAIN SetupSteps = 1 .. 10
      BY DEF SetupSteps
    <3>q. QED
      BY <3>1 DEF Things
  <2>3. bheld' \subseteq bheld \/ bheld' \subseteq {"ctrl", "ioq"}
    BY DEF Exit, CudaExit, KernelDies
  <2>q. QED
    BY <2>1, <2>2, <2>3
<1>5. TypeInv'
  BY <1>1, <1>2, <1>4, HostTypes
<1>6. ArraysInv'
  BY <1>1, <1>2 DEF IInv, ArraysInv, Active
<1>7. QuietInv'
  BY <1>1, <1>3 DEF IInv, QuietInv
<1>8. ReadInv'
  BY <1>1, <1>2, <1>3 DEF IInv, ReadInv
<1>q. QED
  BY <1>3, <1>5, <1>6, <1>7, <1>8 DEF IInv

\* Releasing the queue pair empties it; releasing anything else does not touch it.
LEMMA CleanupStep ==
    ASSUME IInv, Cleanup
    PROVE  IInv'
<1>1. /\ bpc = "cleanup" /\ bpc' = "cleanup" /\ ret' = ret /\ lba' = lba /\ gaveUp' = gaveUp
      /\ bheld' \subseteq bheld
      /\ cfg' = cfg /\ cap' = cap /\ mem' = mem /\ warm' = warm /\ k' = k /\ overrun' = overrun
      /\ reads' = reads /\ inorder' = inorder
  BY DEF Cleanup
<1>2. Ops' = Ops /\ (Measured' <=> Measured) /\ Ring' = Ring /\ (AllRead' <=> AllRead)
  BY <1>1 DEF Ops, Measured, Ring, RingSize, AllRead, Refused
<1>3. bheld' \subseteq Things
  BY <1>1 DEF IInv, TypeInv
<1>4. ArraysInv'
  BY <1>1 DEF IInv, ArraysInv, Active
<1>5. CASE UNCHANGED <<sq, inflight, cq>>
  <2>1. UNCHANGED <<cfg, cap, mem, warm, devVars, k, overrun>> /\ UNCHANGED <<cfg, cap, warm, devVars, k>>
    BY <1>1, <1>5 DEF devVars
  <2>2. /\ LaunchInv' /\ OrderInv' /\ SlotInv' /\ CountInv' /\ RingHasRoom'
        /\ Outstanding' = Outstanding /\ (Quiet' <=> Quiet)
    BY <2>1, HostFrame
  <2>3. TypeInv'
    BY <1>1, <1>3, <2>1, HostTypes
  <2>4. QuietInv'
    BY <1>1, <2>2 DEF IInv, QuietInv
  <2>5. ReadInv'
    BY <1>1, <1>2, <2>2 DEF IInv, ReadInv
  <2>q. QED
    BY <1>4, <2>2, <2>3, <2>4, <2>5 DEF IInv
<1>6. CASE sq' = <<>> /\ inflight' = {} /\ cq' = <<>>
  <2>1. Quiet'
    BY <1>6 DEF Quiet
  <2>2. /\ Outstanding' = {} /\ Len(sq') = 0 /\ Len(cq') = 0 /\ Cardinality(inflight') = 0
        /\ IsFiniteSet(inflight') /\ sq' \in Seq(Commands) /\ cq' \in Seq(BOOLEAN)
    <3>1. Len(sq') = 0 /\ Len(cq') = 0 /\ sq' \in Seq(Commands) /\ cq' \in Seq(BOOLEAN)
      BY <1>6, EmptyOf
    <3>2. IsFiniteSet(inflight') /\ Cardinality(inflight') = 0
      BY <1>6, FS_EmptySet
    <3>3. DOMAIN sq' = {}
      BY <1>6
    <3>4. Outstanding' = {}
      BY <1>6, <3>3 DEF Outstanding
    <3>q. QED
      BY <3>1, <3>2, <3>4
  <2>3. Ring \in Nat \ {0} /\ k.completed \in Nat /\ k.submitted \in Nat /\ k.completed <= k.submitted
    BY Numbers DEF IInv, TypeInv
  <2>4. TypeInv'
    BY <1>1, <1>2, <1>3, <1>6, <2>2, <2>3 DEF IInv, TypeInv
  <2>5. LaunchInv'
    BY <1>1, <1>2 DEF IInv, LaunchInv, Refused
  <2>6. OrderInv'
    BY <1>6, <2>2 DEF OrderInv
  <2>7. SlotInv'
    BY <2>2 DEF SlotInv
  <2>8. CountInv'
    BY <1>1, <2>2, <2>3 DEF CountInv
  <2>9. QuietInv'
    BY <1>1, <2>1 DEF QuietInv
  <2>10. RingHasRoom'
    BY <1>1, <1>2 DEF IInv, RingHasRoom
  <2>11. ReadInv'
    BY <1>1, <1>2, <2>1, <2>2 DEF IInv, ReadInv
  <2>q. QED
    BY <1>4, <2>4, <2>5, <2>6, <2>7, <2>8, <2>9, <2>10, <2>11 DEF IInv
<1>q. QED
  BY <1>5, <1>6 DEF Cleanup

----------------------------------------------------------------------------
(* The kernel *)

\* A counter of the kernel changes alone.
LEMMA KernelFields ==
    ASSUME NEW r \in KernelState, NEW n \in Nat, NEW e \in {0, 2, 3}
    PROVE  /\ [r EXCEPT !.submitted = n] = [ops |-> r.ops, pipe |-> r.pipe, submitted |-> n,
                                            completed |-> r.completed, error |-> r.error]
           /\ [r EXCEPT !.completed = n] = [ops |-> r.ops, pipe |-> r.pipe, submitted |-> r.submitted,
                                            completed |-> n, error |-> r.error]
           /\ [r EXCEPT !.error = e] = [ops |-> r.ops, pipe |-> r.pipe, submitted |-> r.submitted,
                                        completed |-> r.completed, error |-> e]
           /\ [r EXCEPT !.submitted = n] \in KernelState
           /\ [r EXCEPT !.completed = n] \in KernelState
           /\ [r EXCEPT !.error = e] \in KernelState
  BY DEF KernelState

\* The elements of a queue after a submission.
LEMMA AppendElements ==
    ASSUME NEW S, NEW q \in Seq(S), NEW e \in S
    PROVE  {Append(q, e)[i] : i \in DOMAIN Append(q, e)} = {q[i] : i \in DOMAIN q} \cup {e}
<1>1. /\ Append(q, e) \in Seq(S) /\ Len(Append(q, e)) = Len(q) + 1 /\ Len(q) \in Nat
      /\ \A i \in 1 .. Len(q) : Append(q, e)[i] = q[i]
      /\ Append(q, e)[Len(q) + 1] = e
  BY AppendOf
<1>2. DOMAIN q = 1 .. Len(q) /\ DOMAIN Append(q, e) = 1 .. Len(q) + 1
  BY <1>1, LenProperties
<1>q. QED
  BY <1>1, <1>2

\* A fetch takes the first element away and no other.
LEMMA TailElements ==
    ASSUME NEW S, NEW q \in Seq(S), q # <<>>
    PROVE  {q[i] : i \in DOMAIN q} = {Tail(q)[i] : i \in DOMAIN Tail(q)} \cup {Head(q)}
<1>1. /\ Len(q) \in Nat \ {0} /\ Head(q) = q[1] /\ Tail(q) \in Seq(S) /\ Len(Tail(q)) = Len(q) - 1
      /\ \A i \in 1 .. Len(q) - 1 : Tail(q)[i] = q[i + 1]
  BY TailOf
<1>2. DOMAIN q = 1 .. Len(q) /\ DOMAIN Tail(q) = 1 .. Len(q) - 1
  BY <1>1, LenProperties
<1>3. ASSUME NEW i \in DOMAIN q, i # 1
      PROVE  i - 1 \in DOMAIN Tail(q) /\ Tail(q)[i - 1] = q[i]
  <2>1. i - 1 \in 1 .. Len(q) - 1 /\ (i - 1) + 1 = i
    BY <1>1, <1>2, <1>3
  <2>q. QED
    BY <1>1, <1>2, <2>1
<1>4. ASSUME NEW i \in DOMAIN Tail(q)
      PROVE  i + 1 \in DOMAIN q /\ Tail(q)[i] = q[i + 1]
  BY <1>1, <1>2, <1>4
<1>5. 1 \in DOMAIN q
  BY <1>1, <1>2
<1>q. QED
  BY <1>1, <1>3, <1>4, <1>5

\* An outstanding command belongs to an operation that was submitted.
LEMMA OutstandingOps ==
    ASSUME TypeInv, OrderInv, NEW c \in Outstanding
    PROVE  c \in Commands /\ c.op \in Nat /\ c.op < k.submitted
<1>1. DOMAIN sq = 1 .. Len(sq)
  BY LenProperties DEF TypeInv
<1>2. \A i \in DOMAIN sq : sq[i] \in Commands
  BY <1>1, ElementOfSeq DEF TypeInv
<1>3. c \in Commands /\ c.op < k.submitted
  BY <1>1, <1>2 DEF Outstanding, OrderInv, TypeInv
<1>q. QED
  BY <1>3 DEF Commands

\* The command of the next operation is well formed and names its slot.
LEMMA NextCommand ==
    ASSUME IInv, bpc = "kernel", k.submitted < k.ops
    PROVE  /\ SlotOf(k.submitted) \in Slots
           /\ [op |-> k.submitted, lba |-> lba[k.submitted], prp1 |-> prp1[SlotOf(k.submitted)],
               prp2 |-> prp2[SlotOf(k.submitted)]] \in Commands
           /\ Pages(mem, prp1[SlotOf(k.submitted)], prp2[SlotOf(k.submitted)], cfg.pages)
                = SlotPages(SlotOf(k.submitted))
<1>1. /\ k.ops \in Nat /\ k.pipe \in Nat /\ k.submitted \in Nat /\ cfg.depth \in Nat \ {0}
      /\ cfg.ops \in Nat \ {0} /\ cfg \in Configs
  BY Numbers DEF IInv, TypeInv
<1>2. k.pipe <= cfg.depth /\ k.ops <= cfg.ops /\ k.pipe # 0
  BY <1>1 DEF IInv, LaunchInv
<1>3. SlotOf(k.submitted) \in Slots
  <2>1. k.submitted % k.pipe \in 0 .. k.pipe - 1
    BY <1>1, <1>2, DivMod
  <2>q. QED
    BY <1>1, <1>2, <2>1 DEF SlotOf, Slots
<1>4. Active /\ k.submitted \in Ops
  BY <1>1, <1>2 DEF Active, Ops
<1>5. lba[k.submitted] \in Nat
  <2>1. lba[k.submitted] \in 0 .. cfg.max - 1
    BY <1>4 DEF IInv, ArraysInv
  <2>2. cfg.max \in Nat
    BY <1>1, CfgTyped
  <2>q. QED
    BY <2>1, <2>2
<1>6. /\ prp1[SlotOf(k.submitted)] \in Nat /\ prp2[SlotOf(k.submitted)] \in Nat
      /\ Pages(mem, prp1[SlotOf(k.submitted)], prp2[SlotOf(k.submitted)], cfg.pages)
           = SlotPages(SlotOf(k.submitted))
  BY <1>3, <1>4 DEF IInv, ArraysInv
<1>q. QED
  BY <1>1, <1>3, <1>5, <1>6 DEF Commands

\* A submission joins the ring behind all others, or overruns it.
LEMMA KSubmitStep ==
    ASSUME IInv, KSubmit
    PROVE  IInv'
<1> DEFINE i == k.submitted
           c == [op |-> i, lba |-> lba[i], prp1 |-> prp1[SlotOf(i)], prp2 |-> prp2[SlotOf(i)]]
<1>1. /\ bpc = "kernel" /\ i < k.ops /\ i - k.completed < k.pipe
      /\ k' = [k EXCEPT !.submitted = i + 1]
      /\ sq' = (IF Len(sq) = Ring - 1 THEN <<>> ELSE Append(sq, c))
      /\ overrun' = (overrun \/ Len(sq) = Ring - 1)
      /\ UNCHANGED <<inflight, cq, reads, inorder, gaveUp>>
      /\ UNCHANGED <<cfg, cap, bpc, bheld, mem, prp1, prp2, lba, warm, ret>>
  BY DEF KSubmit, CanFill, hostVars
<1>2. /\ k.ops \in Nat /\ k.pipe \in Nat /\ i \in Nat /\ k.completed \in Nat
      /\ Len(sq) \in Nat /\ Len(cq) \in Nat /\ Cardinality(inflight) \in Nat
      /\ Ring \in Nat \ {0} /\ cfg.depth \in Nat \ {0}
  BY Numbers DEF IInv
<1>3. /\ k' \in KernelState /\ k'.submitted = i + 1 /\ k'.completed = k.completed
      /\ k'.ops = k.ops /\ k'.pipe = k.pipe /\ k'.error = k.error
      /\ k'.submitted <= k'.ops /\ k'.completed <= k'.submitted
  <2>1. k \in KernelState /\ k.completed <= i /\ i + 1 \in Nat
    BY <1>2 DEF IInv, TypeInv
  <2>2. /\ k' \in KernelState
        /\ k' = [ops |-> k.ops, pipe |-> k.pipe, submitted |-> i + 1, completed |-> k.completed,
                error |-> k.error]
    BY <1>1, <2>1, KernelFields
  <2>q. QED
    BY <1>1, <1>2, <2>1, <2>2
<1>4. /\ c \in Commands /\ c.op = i
      /\ Pages(mem, c.prp1, c.prp2, cfg.pages) = SlotPages(SlotOf(i))
  BY <1>1, NextCommand
<1> HIDE DEF c
<1>5. /\ Ops' = Ops /\ Ring' = Ring /\ Slots' = Slots /\ (Measured' <=> Measured)
      /\ (\A s : SlotPages(s)' = SlotPages(s)) /\ (Active' <=> Active)
      /\ (\A n : SlotOf(n)' = SlotOf(n)) /\ HasRun' = HasRun /\ Oks(cq') = Oks(cq)
  BY <1>1, <1>3 DEF Ops, Ring, RingSize, Slots, Measured, SlotPages, DataPage, Active, SlotOf,
                    HasRun, Oks
<1>6. sq \in Seq(Commands) /\ IsFiniteSet(inflight) /\ inflight \subseteq Commands
  BY DEF IInv, TypeInv
<1>7. ArraysInv'
  BY <1>1, <1>5 DEF IInv, ArraysInv
<1>8. LaunchInv'
  <2>1. k'.submitted <= k'.completed + k'.pipe
    BY <1>1, <1>2, <1>3
  <2>q. QED
    BY <1>1, <1>3, <1>5, <2>1 DEF IInv, LaunchInv, Refused
<1>9. QuietInv'
  BY <1>1 DEF QuietInv
<1>10. RingHasRoom'
  <2>1. ASSUME Len(sq) = Ring - 1 PROVE cfg.depth >= Ring
    <3>1. Len(sq) <= i - k.completed
      BY <1>2 DEF IInv, CountInv
    <3>2. k.pipe <= cfg.depth
      BY DEF IInv, LaunchInv
    <3>q. QED
      BY <1>1, <1>2, <2>1, <3>1, <3>2
  <2>q. QED
    BY <1>1, <1>5, <2>1 DEF IInv, RingHasRoom
<1>11. CASE Len(sq) = Ring - 1
  <2>1. sq' = <<>> /\ Len(sq') = 0 /\ sq' \in Seq(Commands) /\ DOMAIN sq' = {}
    BY <1>1, <1>11, EmptyOf
  <2>2. Outstanding' = inflight /\ inflight \subseteq Outstanding /\ inflight' = inflight
    BY <1>1, <2>1 DEF Outstanding
  <2>3. TypeInv'
    BY <1>1, <1>2, <1>3, <1>5, <2>1 DEF IInv, TypeInv
  <2>4. OrderInv'
    <3>1. \A d \in inflight : d.op \in Nat
      BY <1>6 DEF Commands
    <3>q. QED
      BY <1>1, <1>2, <1>3, <2>1, <2>2, <3>1 DEF IInv, OrderInv
  <2>5. SlotInv'
    BY <1>1, <1>5, <2>2 DEF IInv, SlotInv
  <2>6. CountInv'
    BY <1>1, <1>2, <1>3, <2>1 DEF IInv, CountInv
  <2>7. \A n \in Ops : n >= i + 1 => n >= i
    BY <1>2 DEF Ops
  <2>8. ReadInv'
    BY <1>1, <1>2, <1>3, <1>5, <2>2, <2>7 DEF IInv, ReadInv
  <2>q. QED
    BY <1>7, <1>8, <1>9, <1>10, <2>3, <2>4, <2>5, <2>6, <2>8 DEF IInv
<1>12. CASE Len(sq) # Ring - 1
  <2>1. /\ sq' = Append(sq, c) /\ sq' \in Seq(Commands) /\ Len(sq') = Len(sq) + 1
        /\ \A n \in 1 .. Len(sq) : sq'[n] = sq[n]
        /\ sq'[Len(sq) + 1] = c
    BY <1>1, <1>4, <1>6, <1>12, AppendOf
  <2>2. Outstanding' = Outstanding \cup {c} /\ inflight' = inflight /\ inflight \subseteq Outstanding
    BY <1>1, <1>4, <1>6, <2>1, AppendElements DEF Outstanding
  <2>3. TypeInv'
    BY <1>1, <1>2, <1>3, <1>5, <1>12, <2>1 DEF IInv, TypeInv
  <2>4. OrderInv'
    <3>1. \A d \in Outstanding : d.op \in Nat /\ d.op < i
      BY OutstandingOps DEF IInv
    <3>2. DOMAIN sq = 1 .. Len(sq)
      BY <1>6, LenProperties
    <3>3. \A n \in 1 .. Len(sq) : sq[n].op \in Nat /\ sq[n].op < i
      BY <3>1, <3>2 DEF Outstanding
    <3>4. \A n \in 1 .. Len(sq') : sq'[n].op < k'.submitted
      BY <1>2, <1>3, <1>4, <2>1, <3>3
    <3>5. \A n, m \in 1 .. Len(sq') : n < m => sq'[n].op < sq'[m].op
      <4>1. TAKE n, m \in 1 .. Len(sq')
      <4>2. HAVE n < m
      <4>3. n \in 1 .. Len(sq)
        BY <1>2, <2>1, <4>2
      <4>4. CASE m \in 1 .. Len(sq)
        BY <2>1, <4>2, <4>3, <4>4 DEF IInv, OrderInv
      <4>5. CASE m = Len(sq) + 1
        BY <1>4, <2>1, <3>3, <4>3, <4>5
      <4>q. QED
        BY <1>2, <2>1, <4>4, <4>5
    <3>6. \A d \in inflight' : d.op < k'.submitted
      BY <1>2, <1>3, <2>2, <3>1
    <3>7. \A d \in inflight' : \A n \in 1 .. Len(sq') : d.op < sq'[n].op
      <4>1. TAKE d \in inflight'
      <4>2. TAKE n \in 1 .. Len(sq')
      <4>3. CASE n \in 1 .. Len(sq)
        BY <2>1, <2>2, <4>3 DEF IInv, OrderInv
      <4>4. CASE n = Len(sq) + 1
        BY <1>4, <2>1, <2>2, <3>1, <4>4
      <4>q. QED
        BY <1>2, <2>1, <4>3, <4>4
    <3>8. \A d, e \in inflight' : d.op = e.op => d = e
      BY <2>2 DEF IInv, OrderInv
    <3>9. inorder' => \A d \in Outstanding' : d.op >= k'.completed + Len(cq')
      <4>1. i >= k.completed + Len(cq)
        BY <1>2 DEF IInv, CountInv
      <4>q. QED
        BY <1>1, <1>3, <1>4, <2>2, <4>1 DEF IInv, OrderInv
    <3>q. QED
      BY <3>4, <3>5, <3>6, <3>7, <3>8, <3>9 DEF OrderInv
  <2>5. SlotInv'
    BY <1>1, <1>4, <1>5, <2>2 DEF IInv, SlotInv
  <2>6. CountInv'
    BY <1>1, <1>2, <1>3, <2>1 DEF IInv, CountInv
  <2>7. \A n \in Ops : n >= i + 1 => n >= i
    BY <1>2 DEF Ops
  <2>8. ReadInv'
    <3>1. i \in Ops
      BY <1>1, <1>2, Numbers DEF IInv, LaunchInv, Ops
    <3>2. Measured => reads[i] = 0
      BY <1>2, <3>1 DEF IInv, ReadInv
    <3>q. QED
      BY <1>1, <1>2, <1>3, <1>4, <1>5, <2>2, <2>7, <3>2 DEF IInv, ReadInv
  <2>q. QED
    BY <1>7, <1>8, <1>9, <1>10, <2>3, <2>4, <2>5, <2>6, <2>8 DEF IInv
<1>q. QED
  BY <1>11, <1>12

\* Steps of the kernel that submit nothing leave memory, ring and operations.
LEMMA PollFrame ==
    ASSUME IInv, UNCHANGED <<cfg, cap, bheld, mem, prp1, prp2, lba, warm, overrun, sq, inflight, reads>>,
           bpc = "kernel", bpc' \in {"kernel", "between"},
           k'.ops = k.ops, k'.pipe = k.pipe, k'.submitted = k.submitted, k' \in KernelState,
           k'.completed <= k'.submitted, k.completed <= k'.completed, cq' \in Seq(BOOLEAN), Len(cq') <= Len(cq)
    PROVE  /\ TypeInv' /\ ArraysInv' /\ LaunchInv' /\ SlotInv' /\ RingHasRoom'
           /\ Ops' = Ops /\ Outstanding' = Outstanding /\ (Measured' <=> Measured)
           /\ HasRun' = HasRun /\ (AllRead' <=> AllRead)
<1>1. /\ cfg' = cfg /\ cap' = cap /\ bheld' = bheld /\ mem' = mem /\ prp1' = prp1 /\ prp2' = prp2
      /\ lba' = lba /\ warm' = warm /\ overrun' = overrun /\ sq' = sq /\ inflight' = inflight
      /\ reads' = reads
  OBVIOUS
<1>2. /\ Ops' = Ops /\ Ring' = Ring /\ Slots' = Slots /\ (Measured' <=> Measured)
      /\ (\A s : SlotPages(s)' = SlotPages(s)) /\ Active
      /\ (\A n : SlotOf(n)' = SlotOf(n)) /\ Outstanding' = Outstanding
      /\ HasRun' = HasRun /\ (AllRead' <=> AllRead)
  BY <1>1 DEF Ops, Ring, RingSize, Slots, Measured, SlotPages, DataPage, Active, SlotOf,
              Outstanding, HasRun, AllRead, Refused
<1>3. TypeInv'
  <2>1. Len(cq') \in Nat /\ Len(cq) \in Nat /\ Ring \in Nat
    BY LenProperties, Numbers DEF IInv
  <2>2. Len(cq') <= Ring - 1
    BY <2>1 DEF IInv, TypeInv
  <2>q. QED
    BY <1>1, <1>2, <2>2 DEF IInv, TypeInv
<1>4. ArraysInv'
  BY <1>1, <1>2 DEF IInv, ArraysInv
<1>5. LaunchInv'
  <2>1. k.completed \in Nat /\ k'.completed \in Nat /\ k.submitted \in Nat /\ k.pipe \in Nat
    BY Numbers DEF IInv, KernelState
  <2>2. k'.submitted <= k'.completed + k'.pipe
    BY <2>1 DEF IInv, LaunchInv
  <2>q. QED
    BY <1>1, <1>2, <2>2 DEF IInv, LaunchInv, Refused
<1>6. SlotInv'
  BY <1>1, <1>2 DEF IInv, SlotInv
<1>7. RingHasRoom'
  BY <1>1, <1>2 DEF IInv, RingHasRoom
<1>q. QED
  BY <1>2, <1>3, <1>4, <1>5, <1>6, <1>7

\* A completion taken from the queue is counted, or ends the kernel.
LEMMA KPollStep ==
    ASSUME IInv, KPoll
    PROVE  IInv'
<1>1. /\ bpc = "kernel" /\ cq # <<>> /\ cq' = Tail(cq) /\ ret' = ret
      /\ UNCHANGED <<cfg, cap, bheld, mem, prp1, prp2, lba, warm, overrun, sq, inflight, reads>>
      /\ sq' = sq /\ inflight' = inflight /\ reads' = reads /\ inorder' = inorder
  BY DEF KPoll, KernelReturns, hostVars
<1>2. /\ k.ops \in Nat /\ k.pipe \in Nat /\ k.submitted \in Nat /\ k.completed \in Nat
      /\ Len(sq) \in Nat /\ Len(cq) \in Nat /\ Cardinality(inflight) \in Nat
  BY Numbers DEF IInv
<1>3. /\ cq' \in Seq(BOOLEAN) /\ Len(cq') = Len(cq) - 1 /\ Len(cq) # 0 /\ Head(cq) \in BOOLEAN
      /\ cq \in Seq(BOOLEAN) /\ k \in KernelState
  BY <1>1, TailOf DEF IInv, TypeInv
<1>4. Cardinality(Oks(cq)) \in Nat /\ Cardinality(Oks(cq')) \in Nat
  BY <1>3, OksFinite
<1>5. CASE Head(cq) = TRUE /\ k' = [k EXCEPT !.completed = k.completed + 1] /\ bpc' = "kernel"
  <2>1. /\ k' \in KernelState
        /\ k' = [ops |-> k.ops, pipe |-> k.pipe, submitted |-> k.submitted,
                completed |-> k.completed + 1, error |-> k.error]
    <3>1. k.completed + 1 \in Nat
      BY <1>2
    <3>q. QED
      BY <1>3, <1>5, <3>1, KernelFields
  <2>2. /\ k'.ops = k.ops /\ k'.pipe = k.pipe /\ k'.submitted = k.submitted
        /\ k'.completed = k.completed + 1 /\ k'.error = k.error
    BY <2>1
  <2>3. k'.completed <= k'.submitted /\ k.completed <= k'.completed
    BY <1>2, <1>3, <2>2 DEF IInv, CountInv
  <2>4. Len(cq') <= Len(cq)
    BY <1>2, <1>3
  <2>5. /\ TypeInv' /\ ArraysInv' /\ LaunchInv' /\ SlotInv' /\ RingHasRoom'
        /\ Ops' = Ops /\ Outstanding' = Outstanding /\ (Measured' <=> Measured) /\ HasRun' = HasRun
    BY <1>1, <1>3, <1>5, <2>1, <2>2, <2>3, <2>4, PollFrame
  <2>6. k'.completed + Len(cq') = k.completed + Len(cq)
    BY <1>2, <1>3, <2>2
  <2>7. OrderInv'
    BY <1>1, <2>2, <2>5, <2>6 DEF IInv, OrderInv
  <2>8. CountInv'
    BY <1>1, <1>2, <1>3, <2>2 DEF IInv, CountInv
  <2>9. QuietInv'
    BY <1>5 DEF QuietInv
  <2>10. ReadInv'
    <3>1. Cardinality(Oks(cq)) = Cardinality(Oks(cq')) + 1
      BY <1>1, <1>3, <1>5, OksTail
    <3>2. ASSUME Measured PROVE Cardinality(HasRun') = k'.completed + Cardinality(Oks(cq'))
      <4>1. Cardinality(HasRun) = k.completed + Cardinality(Oks(cq))
        BY <1>1, <3>2 DEF IInv, ReadInv
      <4>2. Cardinality(HasRun) = (k.completed + 1) + Cardinality(Oks(cq'))
        BY <1>2, <1>4, <3>1, <4>1
      <4>q. QED
        BY <2>2, <2>5, <4>2
    <3>3. Oks(cq)' = Oks(cq')
      BY DEF Oks
    <3>q. QED
      BY <1>1, <1>5, <2>2, <2>5, <3>2, <3>3 DEF IInv, ReadInv
  <2>q. QED
    BY <2>5, <2>7, <2>8, <2>9, <2>10 DEF IInv
<1>6. CASE /\ Head(cq) = FALSE /\ k' = [k EXCEPT !.error = 3] /\ bpc' = "between"
           /\ gaveUp' = (sq # <<>> \/ inflight # {} \/ Len(cq) > 1)
  <2>1. /\ k' \in KernelState
        /\ k' = [ops |-> k.ops, pipe |-> k.pipe, submitted |-> k.submitted,
                completed |-> k.completed, error |-> 3]
    BY <1>3, <1>6, KernelFields
  <2>2. /\ k'.ops = k.ops /\ k'.pipe = k.pipe /\ k'.submitted = k.submitted
        /\ k'.completed = k.completed /\ k'.error = 3
    BY <2>1
  <2>3. k'.completed <= k'.submitted /\ k.completed <= k'.completed
    BY <1>2, <2>2 DEF IInv, TypeInv
  <2>4. Len(cq') <= Len(cq)
    BY <1>2, <1>3
  <2>5. /\ TypeInv' /\ ArraysInv' /\ LaunchInv' /\ SlotInv' /\ RingHasRoom'
        /\ Ops' = Ops /\ Outstanding' = Outstanding /\ (Measured' <=> Measured)
    BY <1>1, <1>3, <1>6, <2>1, <2>2, <2>3, <2>4, PollFrame
  <2>6. OrderInv'
    <3>1. \A c \in Outstanding : c.op \in Nat
      BY OutstandingOps DEF IInv
    <3>2. \A c \in Outstanding : c.op >= k.completed + Len(cq) => c.op >= k'.completed + Len(cq')
      BY <1>2, <1>3, <2>2, <3>1
    <3>q. QED
      BY <1>1, <2>2, <2>5, <3>2 DEF IInv, OrderInv
  <2>7. CountInv'
    BY <1>1, <1>2, <1>3, <2>2 DEF IInv, CountInv
  <2>8. QuietInv'
    <3>1. ASSUME ~gaveUp' PROVE Quiet'
      <4>1. sq' = <<>> /\ inflight' = {} /\ ~(Len(cq) > 1)
        BY <1>1, <1>6, <3>1
      <4>2. Len(cq') = 0
        BY <1>2, <1>3, <4>1
      <4>3. cq' = <<>>
        BY <1>3, <4>2, EmptySeq
      <4>q. QED
        BY <4>1, <4>3 DEF Quiet
    <3>2. bpc' = "between" /\ k'.error = 3
      BY <1>6, <2>2
    <3>q. QED
      BY <3>1, <3>2 DEF QuietInv
  <2>9. ReadInv'
    <3>1. bpc' = "between"
      BY <1>6
    <3>q. QED
      BY <1>1, <2>2, <2>5, <3>1 DEF IInv, ReadInv
  <2>q. QED
    BY <2>5, <2>6, <2>7, <2>8, <2>9 DEF IInv
<1>7. \/ Head(cq) /\ k' = [k EXCEPT !.completed = k.completed + 1] /\ bpc' = "kernel"
      \/ /\ ~Head(cq) /\ k' = [k EXCEPT !.error = 3] /\ bpc' = "between"
         /\ gaveUp' = (sq # <<>> \/ inflight # {} \/ Len(cq) > 1)
  BY <1>1 DEF KPoll, KernelReturns, hostVars
<1>q. QED
  BY <1>3, <1>5, <1>6, <1>7

\* The kernel gives up.
LEMMA KTimeoutStep ==
    ASSUME IInv, KTimeout
    PROVE  IInv'
<1>1. /\ bpc = "kernel" /\ bpc' = "between" /\ k' = [k EXCEPT !.error = 2] /\ gaveUp' = TRUE
      /\ UNCHANGED <<cfg, cap, bheld, mem, prp1, prp2, lba, warm, overrun, sq, inflight, reads>>
      /\ sq' = sq /\ inflight' = inflight /\ cq' = cq /\ reads' = reads /\ inorder' = inorder
  BY DEF KTimeout, AfterTimeout, devVars
<1>2. k \in KernelState /\ k.completed <= k.submitted /\ cq \in Seq(BOOLEAN) /\ Len(cq) <= Len(cq)
  BY Numbers DEF IInv, TypeInv
<1>3. /\ k' \in KernelState
      /\ k' = [ops |-> k.ops, pipe |-> k.pipe, submitted |-> k.submitted,
              completed |-> k.completed, error |-> 2]
  BY <1>1, <1>2, KernelFields
<1>4. /\ k'.ops = k.ops /\ k'.pipe = k.pipe /\ k'.submitted = k.submitted
      /\ k'.completed = k.completed /\ k'.error = 2 /\ k'.completed <= k'.submitted
      /\ k.completed <= k'.completed
  BY <1>2, <1>3, Numbers DEF IInv
<1>5. /\ TypeInv' /\ ArraysInv' /\ LaunchInv' /\ SlotInv' /\ RingHasRoom'
      /\ Ops' = Ops /\ Outstanding' = Outstanding /\ (Measured' <=> Measured)
  BY <1>1, <1>2, <1>3, <1>4, PollFrame
<1>6. OrderInv'
  BY <1>1, <1>4, <1>5 DEF IInv, OrderInv
<1>7. CountInv'
  BY <1>1, <1>4 DEF IInv, CountInv
<1>8. QuietInv'
  BY <1>1, <1>4 DEF QuietInv
<1>9. ReadInv'
  BY <1>1, <1>4, <1>5 DEF IInv, ReadInv
<1>q. QED
  BY <1>5, <1>6, <1>7, <1>8, <1>9 DEF IInv

\* When all operations completed, nothing is about, and in the measured launch
\* each of them ran: as many did as there are.
LEMMA KReturnStep ==
    ASSUME IInv, KReturn
    PROVE  IInv'
<1>1. /\ bpc = "kernel" /\ bpc' = "between" /\ k' = [k EXCEPT !.error = 0] /\ gaveUp' = gaveUp
      /\ k.completed = k.ops
      /\ UNCHANGED <<cfg, cap, bheld, mem, prp1, prp2, lba, warm, overrun, sq, inflight, reads>>
      /\ sq' = sq /\ inflight' = inflight /\ cq' = cq /\ reads' = reads /\ inorder' = inorder
  BY DEF KReturn, KernelDone, KernelReturns, devVars
<1>2. k \in KernelState /\ k.completed <= k.submitted /\ cq \in Seq(BOOLEAN) /\ Len(cq) <= Len(cq)
  BY Numbers DEF IInv, TypeInv
<1>3. /\ k' \in KernelState
      /\ k' = [ops |-> k.ops, pipe |-> k.pipe, submitted |-> k.submitted,
              completed |-> k.completed, error |-> 0]
  BY <1>1, <1>2, KernelFields
<1>4. /\ k'.ops = k.ops /\ k'.pipe = k.pipe /\ k'.submitted = k.submitted
      /\ k'.completed = k.completed /\ k'.error = 0 /\ k'.completed <= k'.submitted
      /\ k.completed <= k'.completed
  BY <1>2, <1>3, Numbers DEF IInv
<1>5. /\ TypeInv' /\ ArraysInv' /\ LaunchInv' /\ SlotInv' /\ RingHasRoom'
      /\ Ops' = Ops /\ Outstanding' = Outstanding /\ (Measured' <=> Measured)
      /\ (AllRead' <=> AllRead)
  BY <1>1, <1>2, <1>3, <1>4, PollFrame
<1>6. OrderInv'
  BY <1>1, <1>4, <1>5 DEF IInv, OrderInv
<1>7. CountInv'
  BY <1>1, <1>4 DEF IInv, CountInv
<1>8. Quiet
  <2>1. /\ k.completed \in Nat /\ k.submitted \in Nat /\ k.submitted <= k.completed
        /\ Len(sq) \in Nat /\ Len(cq) \in Nat /\ Cardinality(inflight) \in Nat
    BY <1>1, Numbers DEF IInv, TypeInv
  <2>2. Len(sq) = 0 /\ Len(cq) = 0 /\ Cardinality(inflight) = 0
    BY <2>1 DEF IInv, CountInv
  <2>3. sq = <<>> /\ cq = <<>>
    BY <2>2, EmptySeq DEF IInv, TypeInv
  <2>4. inflight = {}
    BY <2>2, FS_EmptySet DEF IInv, TypeInv
  <2>q. QED
    BY <2>3, <2>4 DEF Quiet
<1>9. Quiet'
  BY <1>1, <1>8 DEF Quiet
<1>10. QuietInv'
  BY <1>1, <1>9 DEF QuietInv
<1>11. ASSUME Measured PROVE AllRead
  <2> SUFFICES ASSUME ~Refused PROVE \A i \in Ops : reads[i] = 1
    BY DEF AllRead
  <2>1. Cardinality(HasRun) = k.completed + Cardinality(Oks(cq)) /\ k.ops = cfg.ops
    BY <1>1, <1>11 DEF IInv, ReadInv, LaunchInv
  <2>2. Cardinality(Oks(cq)) = 0
    BY <1>8, QuietFacts, FS_EmptySet
  <2>3. cfg.ops \in Nat /\ k.completed \in Nat
    BY Numbers DEF IInv
  <2>4. Cardinality(HasRun) = cfg.ops
    BY <1>1, <2>1, <2>2, <2>3
  <2>5. IsFiniteSet(Ops) /\ Cardinality(Ops) = cfg.ops
    <3>1. 0 \in Int /\ cfg.ops - 1 \in Int
      BY <2>3
    <3>2. IsFiniteSet(Ops)
      BY <3>1, FS_Interval DEF Ops
    <3>3. Cardinality(Ops) = IF 0 > cfg.ops - 1 THEN 0 ELSE (cfg.ops - 1) - 0 + 1
      BY <3>1, FS_Interval DEF Ops
    <3>q. QED
      BY <2>3, <3>2, <3>3
  <2>6. HasRun \subseteq Ops
    BY DEF HasRun
  <2>7. HasRun = Ops
    BY <2>4, <2>5, <2>6, FS_Subset
  <2>q. QED
    BY <2>7 DEF HasRun
<1>12. ReadInv'
  BY <1>1, <1>4, <1>5, <1>11 DEF IInv, ReadInv
<1>q. QED
  BY <1>5, <1>6, <1>7, <1>10, <1>12 DEF IInv

----------------------------------------------------------------------------
(* The controller *)

\* Steps of the controller leave the host, the kernel and the memory alone.
LEMMA DeviceFrame ==
    ASSUME IInv, UNCHANGED <<hostVars, k, overrun, gaveUp>>
    PROVE  /\ ArraysInv' /\ LaunchInv' /\ RingHasRoom'
           /\ cfg' = cfg /\ mem' = mem /\ k' = k /\ bpc' = bpc /\ ret' = ret /\ gaveUp' = gaveUp
           /\ cap' = cap /\ bheld' = bheld /\ warm' = warm
           /\ Ops' = Ops /\ Ring' = Ring /\ (Measured' <=> Measured)
           /\ (\A s : SlotPages(s)' = SlotPages(s)) /\ (\A n : SlotOf(n)' = SlotOf(n))
<1>1. /\ cfg' = cfg /\ cap' = cap /\ bpc' = bpc /\ bheld' = bheld /\ mem' = mem /\ prp1' = prp1
      /\ prp2' = prp2 /\ lba' = lba /\ warm' = warm /\ ret' = ret
      /\ k' = k /\ overrun' = overrun /\ gaveUp' = gaveUp
  BY DEF hostVars
<1>2. /\ Ops' = Ops /\ Ring' = Ring /\ Slots' = Slots /\ (Measured' <=> Measured)
      /\ (\A s : SlotPages(s)' = SlotPages(s)) /\ (Active' <=> Active)
      /\ (\A n : SlotOf(n)' = SlotOf(n))
  BY <1>1 DEF Ops, Ring, RingSize, Slots, Measured, SlotPages, DataPage, Active, SlotOf
<1>3. ArraysInv'
  BY <1>1, <1>2 DEF IInv, ArraysInv
<1>4. LaunchInv'
  BY <1>1, <1>2 DEF IInv, LaunchInv, Refused
<1>5. RingHasRoom'
  BY <1>1, <1>2 DEF IInv, RingHasRoom
<1>q. QED
  BY <1>1, <1>2, <1>3, <1>4, <1>5

\* A fetch takes the oldest waiting command to the controller.
LEMMA DevFetchStep ==
    ASSUME IInv, DevFetch
    PROVE  IInv'
<1>1. /\ sq # <<>> /\ sq' = Tail(sq) /\ inflight' = inflight \cup {Head(sq)}
      /\ UNCHANGED <<hostVars, k, overrun, gaveUp>>
      /\ cq' = cq /\ reads' = reads /\ inorder' = inorder
  BY DEF DevFetch
<1>2. /\ ArraysInv' /\ LaunchInv' /\ RingHasRoom'
      /\ cfg' = cfg /\ mem' = mem /\ k' = k /\ bpc' = bpc /\ ret' = ret /\ gaveUp' = gaveUp
      /\ cap' = cap /\ bheld' = bheld /\ warm' = warm
      /\ Ops' = Ops /\ Ring' = Ring /\ (Measured' <=> Measured)
      /\ (\A s : SlotPages(s)' = SlotPages(s)) /\ (\A n : SlotOf(n)' = SlotOf(n))
  BY <1>1, DeviceFrame
<1>3. /\ k.submitted \in Nat /\ k.completed \in Nat /\ Ring \in Nat \ {0}
      /\ Len(sq) \in Nat /\ Len(cq) \in Nat /\ Cardinality(inflight) \in Nat
  BY Numbers DEF IInv
<1>4. sq \in Seq(Commands) /\ IsFiniteSet(inflight) /\ inflight \subseteq Commands
  BY DEF IInv, TypeInv
<1>5. /\ Len(sq) # 0 /\ Head(sq) = sq[1] /\ sq[1] \in Commands /\ sq' \in Seq(Commands)
      /\ Len(sq') = Len(sq) - 1 /\ 1 \in 1 .. Len(sq)
      /\ \A i \in 1 .. Len(sq) - 1 : sq'[i] = sq[i + 1]
  BY <1>1, <1>4, TailOf
<1>6. Outstanding' = Outstanding
  BY <1>1, <1>4, TailElements DEF Outstanding
<1>7. \A c \in Outstanding : c.op \in Nat /\ c.op < k.submitted
  BY OutstandingOps DEF IInv
<1>8. sq[1] \notin inflight
  <2>1. ASSUME sq[1] \in inflight PROVE FALSE
    <3>1. sq[1].op < sq[1].op
      BY <1>5, <2>1 DEF IInv, OrderInv
    <3>2. sq[1].op \in Nat
      BY <1>5 DEF Commands
    <3>q. QED
      BY <3>1, <3>2
  <2>q. QED
    BY <2>1
<1>9. IsFiniteSet(inflight') /\ Cardinality(inflight') = Cardinality(inflight) + 1
  BY <1>1, <1>4, <1>5, <1>8, FS_AddElement
<1>10. TypeInv'
  <2>1. Len(sq') <= Ring - 1
    BY <1>3, <1>5 DEF IInv, TypeInv
  <2>2. inflight' \subseteq Commands
    BY <1>1, <1>4, <1>5
  <2>q. QED
    BY <1>1, <1>2, <1>5, <1>9, <2>1, <2>2 DEF IInv, TypeInv
<1>11. OrderInv'
  <2>1. ASSUME NEW i \in 1 .. Len(sq')
        PROVE  i + 1 \in 1 .. Len(sq) /\ sq'[i] = sq[i + 1] /\ 1 < i + 1
    BY <1>3, <1>5
  <2>2. \A i \in 1 .. Len(sq') : sq'[i].op < k'.submitted
    BY <1>2, <2>1 DEF IInv, OrderInv
  <2>3. \A i, j \in 1 .. Len(sq') : i < j => sq'[i].op < sq'[j].op
    <3>1. TAKE i, j \in 1 .. Len(sq')
    <3>2. HAVE i < j
    <3>3. i + 1 < j + 1
      BY <1>3, <1>5, <3>2
    <3>4. sq[i + 1].op < sq[j + 1].op
      BY <2>1, <3>3 DEF IInv, OrderInv
    <3>q. QED
      BY <2>1, <3>4
  <2>4. \A c \in inflight' : c.op < k'.submitted
    BY <1>1, <1>2, <1>5 DEF IInv, OrderInv
  <2>5. \A c \in inflight' : \A i \in 1 .. Len(sq') : c.op < sq'[i].op
    <3>1. TAKE c \in inflight'
    <3>2. TAKE i \in 1 .. Len(sq')
    <3>3. CASE c \in inflight
      BY <2>1, <3>3 DEF IInv, OrderInv
    <3>4. CASE c = sq[1]
      BY <1>5, <2>1, <3>4 DEF IInv, OrderInv
    <3>q. QED
      BY <1>1, <1>5, <3>3, <3>4
  <2>6. \A c, d \in inflight' : c.op = d.op => c = d
    <3>1. \A c \in inflight : c.op < sq[1].op /\ c.op \in Nat
      BY <1>4, <1>5 DEF IInv, OrderInv, Commands
    <3>2. sq[1].op \in Nat
      BY <1>5 DEF Commands
    <3>3. \A c \in inflight : c.op # sq[1].op
      BY <3>1, <3>2
    <3>q. QED
      BY <1>1, <1>5, <3>3 DEF IInv, OrderInv
  <2>7. inorder' => \A c \in Outstanding' : c.op >= k'.completed + Len(cq')
    BY <1>1, <1>2, <1>6 DEF IInv, OrderInv
  <2>q. QED
    BY <2>2, <2>3, <2>4, <2>5, <2>6, <2>7 DEF OrderInv
<1>12. SlotInv'
  BY <1>2, <1>6 DEF IInv, SlotInv
<1>13. CountInv'
  BY <1>1, <1>2, <1>3, <1>5, <1>9 DEF IInv, CountInv
<1>14. ~Quiet
  BY <1>1 DEF Quiet
<1>15. QuietInv'
  BY <1>2, <1>14 DEF IInv, QuietInv
<1>16. ReadInv'
  <2>1. HasRun' = HasRun /\ Oks(cq') = Oks(cq) /\ (AllRead' <=> AllRead)
    BY <1>1, <1>2 DEF HasRun, Oks, AllRead, Refused
  <2>q. QED
    BY <1>1, <1>2, <1>6, <1>14, <2>1 DEF IInv, ReadInv
<1>q. QED
  BY <1>2, <1>10, <1>11, <1>12, <1>13, <1>15, <1>16 DEF IInv

\* A command is executed: it leaves the controller, and if it was good its
\* operation has run for the first time.
LEMMA DevCompleteStep ==
    ASSUME IInv, NEW c \in inflight, NEW ok \in BOOLEAN, DevComplete(c, ok)
    PROVE  IInv'
<1>1. /\ Len(cq) < Ring - 1 /\ inflight' = inflight \ {c} /\ cq' = Append(cq, ok)
      /\ UNCHANGED <<hostVars, k, overrun, gaveUp>> /\ sq' = sq
  BY DEF DevComplete
<1>2. /\ reads' = (IF Measured /\ ok THEN [reads EXCEPT ![c.op] = @ + 1] ELSE reads)
      /\ inorder' = (inorder /\ \A d \in inflight : d.op >= c.op)
  BY DEF DevComplete
<1>3. /\ ArraysInv' /\ LaunchInv' /\ RingHasRoom'
      /\ cfg' = cfg /\ mem' = mem /\ k' = k /\ bpc' = bpc /\ ret' = ret /\ gaveUp' = gaveUp
      /\ cap' = cap /\ bheld' = bheld /\ warm' = warm
      /\ Ops' = Ops /\ Ring' = Ring /\ (Measured' <=> Measured)
      /\ (\A s : SlotPages(s)' = SlotPages(s)) /\ (\A n : SlotOf(n)' = SlotOf(n))
  BY <1>1, DeviceFrame
<1>4. /\ k.submitted \in Nat /\ k.completed \in Nat /\ k.ops \in Nat /\ Ring \in Nat \ {0}
      /\ Len(sq) \in Nat /\ Len(cq) \in Nat /\ Cardinality(inflight) \in Nat /\ cfg.ops \in Nat
  BY Numbers DEF IInv
<1>5. /\ sq \in Seq(Commands) /\ IsFiniteSet(inflight) /\ inflight \subseteq Commands
      /\ cq \in Seq(BOOLEAN) /\ reads \in [Ops -> Nat]
  BY DEF IInv, TypeInv
<1>6. cq' \in Seq(BOOLEAN) /\ Len(cq') = Len(cq) + 1
  BY <1>1, <1>5, AppendOf
<1>7. IsFiniteSet(inflight') /\ Cardinality(inflight') = Cardinality(inflight) - 1
  BY <1>1, <1>5, FS_RemoveElement
<1>8. \A d \in Outstanding : d.op \in Nat /\ d.op < k.submitted
  BY OutstandingOps DEF IInv
<1>9. c \in Outstanding /\ c.op \in Nat /\ c.op < k.submitted
  BY <1>8 DEF Outstanding
<1>10. \A d \in Outstanding' : d \in Outstanding /\ d.op # c.op
  <2>1. TAKE d \in Outstanding'
  <2>2. d \in Outstanding
    BY <1>1 DEF Outstanding
  <2>3. CASE d \in inflight'
    BY <1>1, <2>2, <2>3 DEF IInv, OrderInv
  <2>4. CASE \E i \in DOMAIN sq : d = sq[i]
    <3>1. PICK i \in 1 .. Len(sq) : d = sq[i]
      BY <1>5, <2>4, LenProperties
    <3>2. c.op < d.op
      BY <3>1 DEF IInv, OrderInv
    <3>q. QED
      BY <1>8, <1>9, <2>2, <3>2
  <2>q. QED
    BY <1>1, <2>2, <2>3, <2>4 DEF Outstanding
<1>11. ASSUME Measured PROVE c.op \in Ops /\ reads[c.op] = 0
  <2>1. k.ops <= cfg.ops /\ k.submitted <= k.ops
    BY <1>11 DEF IInv, LaunchInv, TypeInv
  <2>2. c.op \in Ops
    BY <1>4, <1>9, <2>1 DEF Ops
  <2>3. reads[c.op] = 0
    BY <1>9, <1>11 DEF IInv, ReadInv
  <2>q. QED
    BY <2>2, <2>3
<1>12. \/ Measured /\ ok = TRUE /\ reads' = [reads EXCEPT ![c.op] = 1]
       \/ ~(Measured /\ ok = TRUE) /\ reads' = reads
  <2>1. CASE Measured /\ ok = TRUE
    <3>1. reads' = [reads EXCEPT ![c.op] = reads[c.op] + 1]
      BY <1>2, <2>1
    <3>2. reads[c.op] + 1 = 1
      BY <1>11, <2>1
    <3>q. QED
      BY <2>1, <3>1, <3>2
  <2>2. CASE ~(Measured /\ ok = TRUE)
    BY <1>2, <2>2
  <2>q. QED
    BY <2>1, <2>2
<1>13. TypeInv'
  <2>1. Len(cq') <= Ring - 1
    BY <1>1, <1>4, <1>6
  <2>2. inflight' \subseteq Commands
    BY <1>1, <1>5
  <2>3. reads' \in [Ops -> Nat]
    BY <1>5, <1>11, <1>12
  <2>q. QED
    BY <1>1, <1>3, <1>6, <1>7, <2>1, <2>2, <2>3 DEF IInv, TypeInv
<1>14. OrderInv'
  <2>1. inorder' => \A d \in Outstanding' : d.op >= k'.completed + Len(cq')
    <3>1. SUFFICES ASSUME inorder', NEW d \in Outstanding'
                   PROVE  d.op >= k.completed + (Len(cq) + 1)
      BY <1>3, <1>6
    <3>2. inorder /\ \A e \in inflight : e.op >= c.op
      BY <1>2, <3>1
    <3>3. c.op >= k.completed + Len(cq)
      BY <1>9, <3>2 DEF IInv, OrderInv
    <3>4. d \in Outstanding /\ d.op # c.op /\ d.op \in Nat
      BY <1>8, <1>10
    <3>5. d.op >= c.op
      <4>1. CASE d \in inflight
        BY <3>2, <4>1
      <4>2. CASE \E i \in DOMAIN sq : d = sq[i]
        <5>1. PICK i \in 1 .. Len(sq) : d = sq[i]
          BY <1>5, <4>2, LenProperties
        <5>2. c.op < d.op
          BY <5>1 DEF IInv, OrderInv
        <5>q. QED
          BY <1>9, <3>4, <5>2
      <4>q. QED
        BY <3>4, <4>1, <4>2 DEF Outstanding
    <3>q. QED
      BY <1>4, <1>9, <3>3, <3>4, <3>5
  <2>2. inflight' \subseteq inflight
    BY <1>1
  <2>q. QED
    BY <1>1, <1>3, <2>1, <2>2 DEF IInv, OrderInv
<1>15. SlotInv'
  BY <1>3, <1>10 DEF IInv, SlotInv
<1>16. CountInv'
  <2>1. Len(sq) + Cardinality(inflight) + Len(cq) + k.completed <= k.submitted
    BY DEF IInv, CountInv
  <2>2. Len(sq) + (Cardinality(inflight) - 1) + (Len(cq) + 1) + k.completed <= k.submitted
    BY <1>4, <2>1
  <2>3. Len(sq') = Len(sq) /\ k'.completed = k.completed /\ k'.submitted = k.submitted
    BY <1>1
  <2>q. QED
    BY <1>6, <1>7, <2>2, <2>3 DEF CountInv
<1>17. ~Quiet
  BY DEF Quiet
<1>18. QuietInv'
  BY <1>3, <1>17 DEF IInv, QuietInv
<1>19. ReadInv'
  <2>1. ~(bpc' \in {"cleanup", "exited"} /\ ret' = 0) /\ ~(bpc' = "between" /\ k'.error = 0)
    BY <1>3, <1>17 DEF IInv, ReadInv, QuietInv
  <2>2. Cardinality(Oks(cq)) \in Nat
    BY <1>5, OksFinite
  <2>3. CASE Measured /\ ok = TRUE
    <3>1. reads' = [reads EXCEPT ![c.op] = 1] /\ c.op \in Ops /\ reads[c.op] = 0
      BY <1>11, <1>12, <2>3
    <3>2. \A i \in Ops : reads'[i] = IF i = c.op THEN 1 ELSE reads[i]
      BY <1>5, <3>1
    <3>3. HasRun' = HasRun \cup {c.op} /\ c.op \notin HasRun
      BY <1>3, <3>1, <3>2 DEF HasRun
    <3>4. IsFiniteSet(HasRun)
      <4>1. 0 \in Int /\ cfg.ops - 1 \in Int
        BY <1>4
      <4>2. IsFiniteSet(Ops)
        BY <4>1, FS_Interval DEF Ops
      <4>3. HasRun \subseteq Ops
        BY DEF HasRun
      <4>q. QED
        BY <4>2, <4>3, FS_Subset
    <3>5. Cardinality(HasRun') = Cardinality(HasRun) + 1
      BY <3>3, <3>4, FS_AddElement
    <3>6. Cardinality(Oks(cq')) = Cardinality(Oks(cq)) + 1
      BY <1>1, <1>5, <2>3, OksAppend
    <3>7. ASSUME bpc = "kernel" PROVE Cardinality(HasRun') = k'.completed + Cardinality(Oks(cq'))
      <4>1. Cardinality(HasRun) = k.completed + Cardinality(Oks(cq))
        BY <2>3, <3>7 DEF IInv, ReadInv
      <4>2. Cardinality(HasRun) + 1 = k.completed + (Cardinality(Oks(cq)) + 1)
        BY <1>4, <2>2, <4>1
      <4>q. QED
        BY <1>3, <3>5, <3>6, <4>2
    <3>8. \A i \in Ops : reads'[i] <= 1
      BY <2>3, <3>2 DEF IInv, ReadInv
    <3>9. \A d \in Outstanding' : reads'[d.op] = 0
      <4>1. TAKE d \in Outstanding'
      <4>2. d \in Outstanding /\ d.op # c.op /\ reads[d.op] = 0
        BY <1>10, <2>3 DEF IInv, ReadInv
      <4>3. d.op \in Ops
        <5>1. k.ops <= cfg.ops /\ k.submitted <= k.ops
          BY <2>3 DEF IInv, LaunchInv, TypeInv
        <5>q. QED
          BY <1>4, <1>8, <4>2, <5>1 DEF Ops
      <4>q. QED
        BY <3>2, <4>2, <4>3
    <3>10. \A i \in Ops : i >= k'.submitted => reads'[i] = 0
      <4>1. \A i \in Ops : i >= k.submitted => i # c.op
        BY <1>4, <1>9 DEF Ops
      <4>q. QED
        BY <1>3, <2>3, <3>2, <4>1 DEF IInv, ReadInv
    <3>11. Measured' /\ Oks(cq)' = Oks(cq')
      BY <1>3, <2>3 DEF Oks
    <3>q. QED
      BY <1>3, <2>1, <3>7, <3>8, <3>9, <3>10, <3>11 DEF ReadInv
  <2>4. CASE ~(Measured /\ ok = TRUE)
    <3>1. reads' = reads
      BY <1>12, <2>4
    <3>2. HasRun' = HasRun
      BY <1>3, <3>1 DEF HasRun
    <3>3. ASSUME Measured, bpc = "kernel"
          PROVE  Cardinality(HasRun') = k'.completed + Cardinality(Oks(cq'))
      <4>1. Cardinality(Oks(cq')) = Cardinality(Oks(cq))
        BY <1>1, <1>5, <2>4, <3>3, OksAppend
      <4>2. Cardinality(HasRun) = k.completed + Cardinality(Oks(cq))
        BY <3>3 DEF IInv, ReadInv
      <4>q. QED
        BY <1>3, <3>2, <4>1, <4>2
    <3>4. Oks(cq)' = Oks(cq')
      BY DEF Oks
    <3>q. QED
      BY <1>3, <1>10, <2>1, <3>1, <3>3, <3>4 DEF IInv, ReadInv
  <2>q. QED
    BY <2>3, <2>4
<1>q. QED
  BY <1>3, <1>13, <1>14, <1>15, <1>16, <1>18, <1>19 DEF IInv

----------------------------------------------------------------------------
(* What the program holds *)

Resources == {"arr1", "arr2", "pool", "data", "ioq", "ctrl", "reg", "map", "fd"}

ListOf(q) == {q[i] : i \in DOMAIN q}

\* What the clean-up leaves out: nothing, the two arrays, or what a failed
\* gpunvme_ctrl_init left.
Forgotten == {{}, {"arr1", "arr2"}, {"rings"}, {"rings", "enabled"}}

\* Everything else that is held is still on the list.
Leaves(left) == /\ left \subseteq bheld /\ bheld \subseteq left \cup ListOf(btodo)
                /\ left \cap ListOf(btodo) = {}
                /\ left # {} => ret = 1

ReleaseInv ==
    /\ Active => bheld \subseteq Resources
    /\ bpc = "cleanup" => /\ btodo \in Seq(Resources)
                          /\ \E left \in Forgotten : Leaves(left)
    /\ bpc = "exited" => Released

\* The two lists of the clean-up.
LEMMA Lists ==
    /\ CleanupHw \in Seq(Resources) /\ ListOf(CleanupHw) = Resources \ {"arr1", "arr2"}
    /\ FullCleanup \in Seq(Resources) /\ ListOf(FullCleanup) = Resources
<1>1. CleanupHw \in Seq(Resources) /\ DOMAIN CleanupHw = 1 .. 7
  BY DEF CleanupHw, Resources
<1>2. FullCleanup \in Seq(Resources) /\ DOMAIN FullCleanup = 1 .. 9
  BY DEF FullCleanup, Resources
<1>3. ListOf(CleanupHw) = Resources \ {"arr1", "arr2"}
  BY <1>1 DEF ListOf, CleanupHw, Resources
<1>4. ListOf(FullCleanup) = Resources
  BY <1>2 DEF ListOf, FullCleanup, Resources
<1>q. QED
  BY <1>1, <1>2, <1>3, <1>4

\* What the ladder holds, complete or when one of its steps fails: the two arrays
\* from the pool on, neither before.
LEMMA HeldBySetup ==
    /\ Acquired(Len(SetupSteps)) \ {"pagemap"} \subseteq Resources
    /\ \A n \in 1 .. Len(SetupSteps) :
         /\ Acquired(n - 1) \subseteq Resources
         /\ n <= 7 => {"arr1", "arr2"} \cap Acquired(n - 1) = {}
         /\ n >= 9 => {"arr1", "arr2"} \subseteq Acquired(n - 1)
         /\ n \in {7, 8} => SetupSteps[n] \in {"arr1", "arr2"}
         /\ n >= 9 => SetupSteps[n] # "ctrl"
<1>1. Len(SetupSteps) = 10 /\ \A i \in 1 .. 10 : SetupSteps[i] \in Resources \cup {"pagemap"}
  BY DEF SetupSteps, Resources
<1>2. \A i \in 1 .. 9 : SetupSteps[i] \in Resources
  BY DEF SetupSteps, Resources
<1>3. /\ SetupSteps[7] = "arr1" /\ SetupSteps[8] = "arr2"
      /\ \A i \in 1 .. 6 : SetupSteps[i] \notin {"arr1", "arr2"}
      /\ SetupSteps[9] # "ctrl" /\ SetupSteps[10] # "ctrl"
  BY DEF SetupSteps
<1>4. ASSUME NEW n \in 1 .. Len(SetupSteps)
      PROVE  /\ Acquired(n - 1) \subseteq Resources
             /\ n <= 7 => {"arr1", "arr2"} \cap Acquired(n - 1) = {}
             /\ n >= 9 => {"arr1", "arr2"} \subseteq Acquired(n - 1)
             /\ n \in {7, 8} => SetupSteps[n] \in {"arr1", "arr2"}
             /\ n >= 9 => SetupSteps[n] # "ctrl"
  <2>1. 1 .. n - 1 \subseteq 1 .. 9 /\ (n <= 7 => 1 .. n - 1 \subseteq 1 .. 6)
    BY <1>1
  <2>2. n >= 9 => 7 \in 1 .. n - 1 /\ 8 \in 1 .. n - 1
    BY <1>1
  <2>3. Acquired(n - 1) \subseteq Resources
    BY <1>2, <2>1 DEF Acquired
  <2>4. n <= 7 => {"arr1", "arr2"} \cap Acquired(n - 1) = {}
    BY <1>3, <2>1 DEF Acquired
  <2>5. n >= 9 => {"arr1", "arr2"} \subseteq Acquired(n - 1)
    BY <1>3, <2>2 DEF Acquired
  <2>6. n >= 9 => n = 9 \/ n = 10
    BY <1>1
  <2>q. QED
    BY <1>3, <2>3, <2>4, <2>5, <2>6
<1>q. QED
  BY <1>1, <1>2, <1>4 DEF Acquired

\* Nothing is held before the set-up.
LEMMA ReleaseStart == Init => ReleaseInv
  BY DEF Init, ReleaseInv, Active

\* No step forgets a resource.
LEMMA ReleaseStep == ReleaseInv /\ [Next]_vars => ReleaseInv'
<1> SUFFICES ASSUME ReleaseInv, [Next]_vars PROVE ReleaseInv'
  OBVIOUS
<1>1. CASE SetupOk
  <2>1. bpc' = "ready" /\ bheld' \subseteq Resources
    BY <1>1, HeldBySetup DEF SetupOk
  <2>q. QED
    BY <2>1 DEF ReleaseInv
<1>2. CASE \E n \in 1 .. Len(SetupSteps), left \in CtrlLeaves : SetupFails(n, left)
  <2>1. PICK n \in 1 .. Len(SetupSteps), left \in CtrlLeaves : SetupFails(n, left)
    BY <1>2
  <2>2. /\ bpc' = "cleanup" /\ ret' = 1 /\ btodo' = CleanupHw
        /\ bheld' = Acquired(n - 1) \cup left
        /\ SetupSteps[n] \notin {"arr1", "arr2"} /\ (left # {} => SetupSteps[n] = "ctrl")
    BY <2>1 DEF SetupFails
  <2>3. btodo' \in Seq(Resources) /\ ListOf(btodo)' = Resources \ {"arr1", "arr2"}
    BY <2>2, Lists DEF ListOf
  <2>4. Len(SetupSteps) = 10 /\ left \in Forgotten /\ left \cap Resources = {}
    BY DEF SetupSteps, CtrlLeaves, Forgotten, Resources
  <2>5. CASE n <= 7
    <3>1. Acquired(n - 1) \subseteq Resources \ {"arr1", "arr2"}
      BY <2>5, HeldBySetup
    <3>2. Leaves(left)'
      BY <2>2, <2>3, <2>4, <3>1 DEF Leaves
    <3>q. QED
      BY <2>2, <2>3, <2>4, <3>2 DEF ReleaseInv, Active
  <2>6. CASE n >= 9
    <3>1. /\ {"arr1", "arr2"} \subseteq Acquired(n - 1) /\ Acquired(n - 1) \subseteq Resources
          /\ left = {}
      BY <2>2, <2>6, HeldBySetup
    <3>2. Leaves({"arr1", "arr2"})'
      BY <2>2, <2>3, <3>1 DEF Leaves
    <3>3. {"arr1", "arr2"} \in Forgotten
      BY DEF Forgotten
    <3>q. QED
      BY <2>2, <2>3, <3>2, <3>3 DEF ReleaseInv, Active
  <2>7. n # 8
    BY <2>2, HeldBySetup
  <2>q. QED
    BY <2>4, <2>5, <2>6, <2>7
<1>3. CASE LaunchWarmup \/ LaunchBench \/ LaunchRefused
  <2>1. bpc = "ready" /\ bpc' \in {"kernel", "between"} /\ bheld' = bheld
    BY <1>3 DEF LaunchWarmup, LaunchBench, LaunchRefused
  <2>q. QED
    BY <2>1 DEF ReleaseInv, Active
<1>4. CASE Synchronized
  <2>1. bheld' = bheld /\ bheld \subseteq Resources
    BY <1>4 DEF Synchronized, ReleaseInv, Active
  <2>2. CASE bpc' = "ready"
    BY <2>1, <2>2 DEF ReleaseInv
  <2>3. CASE bpc' = "cleanup" /\ btodo' = FullCleanup
    <3>1. btodo' \in Seq(Resources) /\ ListOf(btodo)' = Resources
      BY <2>3, Lists DEF ListOf
    <3>2. Leaves({})'
      BY <2>1, <3>1 DEF Leaves
    <3>3. {} \in Forgotten
      BY DEF Forgotten
    <3>q. QED
      BY <2>3, <3>1, <3>2, <3>3 DEF ReleaseInv, Active
  <2>q. QED
    BY <1>4, <2>2, <2>3 DEF Synchronized
<1>5. CASE Cleanup
  <2>1. /\ bpc = "cleanup" /\ bpc' = "cleanup" /\ ret' = ret /\ btodo # <<>>
        /\ bheld' = bheld \ {Head(btodo)} /\ btodo' = Tail(btodo)
    BY <1>5 DEF Cleanup
  <2>2. btodo \in Seq(Resources)
    BY <2>1 DEF ReleaseInv
  <2>a. PICK left \in Forgotten : Leaves(left)
    BY <2>1 DEF ReleaseInv
  <2>3. btodo' \in Seq(Resources) /\ ListOf(btodo) = ListOf(btodo') \cup {Head(btodo)}
    <3>1. Tail(btodo) \in Seq(Resources)
      BY <2>1, <2>2, TailOf
    <3>2. {btodo[i] : i \in DOMAIN btodo}
            = {Tail(btodo)[i] : i \in DOMAIN Tail(btodo)} \cup {Head(btodo)}
      BY <2>1, <2>2, TailElements
    <3>q. QED
      BY <2>1, <3>1, <3>2 DEF ListOf
  <2>4. ListOf(btodo)' = ListOf(btodo')
    BY DEF ListOf
  <2>5. Leaves(left)'
    BY <2>1, <2>a, <2>3, <2>4 DEF Leaves
  <2>q. QED
    BY <2>1, <2>3, <2>4, <2>5 DEF ReleaseInv, Active
<1>6. CASE Exit
  <2>1. bpc = "cleanup" /\ btodo = <<>> /\ bpc' = "exited" /\ bheld' = bheld /\ ret' = ret
    BY <1>6 DEF Exit
  <2>2. ListOf(btodo) = {}
    BY <2>1 DEF ListOf
  <2>3. PICK left \in Forgotten : Leaves(left)
    BY <2>1 DEF ReleaseInv
  <2>4. bheld = left /\ (left # {} => ret = 1)
    BY <2>2, <2>3 DEF Leaves
  <2>5. Released'
    BY <2>1, <2>4 DEF Forgotten, Released
  <2>q. QED
    BY <2>1, <2>5 DEF ReleaseInv, Active
<1>7. CASE CudaExit \/ KernelDies
  <2>1. bpc' = "aborted"
    BY <1>7 DEF CudaExit, KernelDies
  <2>q. QED
    BY <2>1 DEF ReleaseInv, Active
<1>8. CASE Kernel
  <2>1. bpc = "kernel" /\ bpc' \in {"kernel", "between"} /\ bheld' = bheld
    BY <1>8 DEF Kernel, KSubmit, KPoll, KTimeout, KReturn, KernelReturns, AfterTimeout, hostVars
  <2>q. QED
    BY <2>1 DEF ReleaseInv, Active
<1>9. CASE Device \/ UNCHANGED vars
  <2>1. bpc' = bpc /\ bheld' = bheld /\ btodo' = btodo /\ ret' = ret
    BY <1>9 DEF Device, DevFetch, DevComplete, hostVars, vars
  <2>q. QED
    BY <2>1 DEF ReleaseInv, Active, ListOf, Released, Leaves
<1>q. QED
  BY <1>1, <1>2, <1>3, <1>4, <1>5, <1>6, <1>7, <1>8, <1>9 DEF Next, Host

----------------------------------------------------------------------------
(* The theorems *)

\* Every step of host, kernel and controller keeps the invariant.
LEMMA Step == IInv /\ [Next]_vars => IInv'
<1> SUFFICES ASSUME IInv, [Next]_vars PROVE IInv'
  OBVIOUS
<1>1. CASE SetupOk
  BY <1>1, SetupOkStep
<1>2. CASE \E n \in 1 .. Len(SetupSteps), left \in CtrlLeaves : SetupFails(n, left)
  BY <1>2, SetupFailsStep
<1>3. CASE LaunchWarmup \/ LaunchBench \/ LaunchRefused
  BY <1>3, LaunchStep
<1>4. CASE Synchronized
  BY <1>4, SynchronizedStep
<1>5. CASE Cleanup
  BY <1>5, CleanupStep
<1>6. CASE Exit \/ CudaExit \/ KernelDies
  BY <1>6, EndStep
<1>7. CASE KSubmit
  BY <1>7, KSubmitStep
<1>8. CASE KPoll
  BY <1>8, KPollStep
<1>9. CASE KTimeout
  BY <1>9, KTimeoutStep
<1>10. CASE KReturn
  BY <1>10, KReturnStep
<1>11. CASE DevFetch
  BY <1>11, DevFetchStep
<1>12. CASE \E c \in inflight, ok \in BOOLEAN : DevComplete(c, ok)
  BY <1>12, DevCompleteStep
<1>13. CASE UNCHANGED vars
  <2>1. /\ cfg' = cfg /\ cap' = cap /\ bpc' = bpc /\ bheld' = bheld /\ mem' = mem /\ prp1' = prp1
        /\ prp2' = prp2 /\ lba' = lba /\ warm' = warm /\ ret' = ret /\ k' = k /\ overrun' = overrun
        /\ gaveUp' = gaveUp /\ sq' = sq /\ inflight' = inflight /\ cq' = cq /\ reads' = reads
        /\ inorder' = inorder
    BY <1>13 DEF vars, hostVars, devVars
  <2>2. UNCHANGED <<cfg, cap, mem, warm, devVars, k, overrun>> /\ UNCHANGED <<cfg, cap, warm, devVars, k>>
    BY <2>1 DEF devVars
  <2>3. /\ LaunchInv' /\ OrderInv' /\ SlotInv' /\ CountInv' /\ RingHasRoom'
        /\ Outstanding' = Outstanding /\ (Quiet' <=> Quiet) /\ (Measured' <=> Measured)
        /\ Ops' = Ops /\ Slots' = Slots /\ (AllRead' <=> AllRead)
    BY <2>2, HostFrame
  <2>4. TypeInv'
    <3>1. /\ bpc' \in {"setup", "ready", "kernel", "between", "cleanup", "exited", "aborted"}
          /\ bheld' \subseteq Things
      BY <2>1 DEF IInv, TypeInv
    <3>q. QED
      BY <2>2, <3>1, HostTypes
  <2>5. ArraysInv'
    <3>1. (\A s : SlotPages(s)' = SlotPages(s)) /\ (Active' <=> Active)
      BY <2>1 DEF SlotPages, DataPage, Active
    <3>q. QED
      BY <2>1, <2>3, <3>1 DEF IInv, ArraysInv
  <2>6. QuietInv'
    BY <2>1, <2>3 DEF IInv, QuietInv
  <2>7. ReadInv'
    <3>1. HasRun' = HasRun /\ Oks(cq)' = Oks(cq)
      BY <2>1, <2>3 DEF HasRun, Oks
    <3>q. QED
      BY <2>1, <2>3, <3>1 DEF IInv, ReadInv
  <2>q. QED
    BY <2>3, <2>4, <2>5, <2>6, <2>7 DEF IInv
<1>q. QED
  BY <1>1, <1>2, <1>3, <1>4, <1>5, <1>6, <1>7, <1>8, <1>9, <1>10, <1>11, <1>12, <1>13
     DEF Next, Host, Kernel, Device

\* The inductive invariant holds in every run of the benchmark: set-up that
\* fails anywhere, kernel, controller that completes in any order or never.
THEOREM Invariance == Spec => []IInv
<1>1. Init => IInv
  BY Start
<1>2. IInv /\ [Next]_vars => IInv'
  BY Step
<1>q. QED
  BY <1>1, <1>2, PTL DEF Spec

\* Counters, rings and LBAs keep their ranges.
THEOREM TypeCorrect == Spec => []TypeOK
<1>1. IInv => TypeOK
  <2> SUFFICES ASSUME IInv PROVE TypeOK
    OBVIOUS
  <2>1. /\ k.ops \in Nat /\ k.submitted \in Nat /\ k.completed \in Nat
        /\ k.submitted <= k.ops /\ k.completed <= k.submitted
    BY Numbers DEF IInv, TypeInv
  <2>2. k.submitted \in 0 .. k.ops /\ k.completed \in 0 .. k.submitted
    BY <2>1
  <2>q. QED
    BY <2>2 DEF IInv, TypeInv, ArraysInv, TypeOK
<1>q. QED
  BY <1>1, Invariance, PTL

\* A program that reports success had every operation of the measured launch
\* executed exactly once, unless that launch was refused.
THEOREM SuccessTheorem == Spec => []SuccessMeansRead
<1>1. IInv => SuccessMeansRead
  <2> SUFFICES ASSUME IInv, bpc = "exited", ret = 0, ~Refused PROVE \A i \in DOMAIN reads : reads[i] = 1
    BY DEF SuccessMeansRead
  <2>1. AllRead
    BY DEF IInv, ReadInv
  <2>2. DOMAIN reads = Ops
    BY DEF IInv, TypeInv
  <2>q. QED
    BY <2>1, <2>2 DEF AllRead
<1>q. QED
  BY <1>1, Invariance, PTL

\* The submission ring overruns only where the controller's limit or the 16-bit
\* queue size left it no larger than the depth.
THEOREM RoomTheorem == Spec => []RingHasRoom
<1>1. IInv => RingHasRoom
  BY DEF IInv
<1>q. QED
  BY <1>1, Invariance, PTL

\* The pages a command moves data to are those of its slot.
LEMMA PagesOfSlot ==
    ASSUME IInv, NEW c \in Outstanding
    PROVE  /\ SlotOf(c.op) \in Slots
           /\ PagesOf(c) = {DataPage(SlotOf(c.op), p) : p \in 0 .. cfg.pages - 1}
<1>1. c.op \in Nat /\ c.op < k.submitted
  BY OutstandingOps DEF IInv
<1>2. /\ k.pipe \in Nat /\ k.ops \in Nat /\ k.submitted \in Nat /\ k.submitted <= k.ops
      /\ cfg.depth \in Nat \ {0}
  BY Numbers DEF IInv, TypeInv
<1>3. k.pipe # 0 /\ k.pipe <= cfg.depth
  BY <1>1, <1>2 DEF IInv, LaunchInv
<1>4. SlotOf(c.op) \in Slots
  <2>1. c.op % k.pipe \in 0 .. k.pipe - 1
    BY <1>1, <1>2, <1>3, DivMod
  <2>q. QED
    BY <1>2, <1>3, <2>1 DEF SlotOf, Slots
<1>5. Pages(mem, c.prp1, c.prp2, cfg.pages) = SlotPages(SlotOf(c.op))
  BY DEF IInv, SlotInv
<1>6. PagesOf(c) = {SlotPages(SlotOf(c.op))[p] : p \in DOMAIN SlotPages(SlotOf(c.op))}
  BY <1>5 DEF PagesOf
<1>7. {SlotPages(SlotOf(c.op))[p] : p \in DOMAIN SlotPages(SlotOf(c.op))}
        = {DataPage(SlotOf(c.op), p) : p \in 0 .. cfg.pages - 1}
  BY DEF SlotPages
<1>q. QED
  BY <1>4, <1>6, <1>7

\* Every command moves its data to one slot, and, with completions in order, two
\* commands the controller has at the same time to different slots.
THEOREM SlotsTheorem == Spec => []SlotsDistinct
<1>1. IInv => SlotsDistinct
  <2> SUFFICES ASSUME IInv PROVE SlotsDistinct
    OBVIOUS
  <2>1. \A c \in Outstanding : \E s \in Slots :
          PagesOf(c) = {DataPage(s, p) : p \in 0 .. cfg.pages - 1}
    BY PagesOfSlot
  <2>2. ASSUME inorder, NEW c \in Outstanding, NEW d \in Outstanding, c.op < d.op
        PROVE  PagesOf(c) \cap PagesOf(d) = {}
    <3>1. c.op \in Nat /\ d.op \in Nat /\ d.op < k.submitted
      BY OutstandingOps DEF IInv
    <3>2. c.op >= k.completed + Len(cq)
      BY <2>2 DEF IInv, OrderInv
    <3>3. /\ k.pipe \in Nat /\ k.ops \in Nat /\ k.submitted \in Nat /\ k.completed \in Nat
          /\ Len(cq) \in Nat /\ k.submitted <= k.ops
      BY Numbers DEF IInv, TypeInv
    <3>4. k.pipe # 0
      BY <3>1, <3>3 DEF IInv, LaunchInv
    <3>5. k.submitted - k.completed <= k.pipe
      BY <3>3 DEF IInv, LaunchInv
    <3>6. d.op - c.op < k.pipe
      BY <3>1, <3>2, <3>3, <3>5
    <3>7. (c.op % k.pipe) # (d.op % k.pipe)
      BY <2>2, <3>1, <3>3, <3>4, <3>6, ModApart
    <3>8. SlotOf(c.op) # SlotOf(d.op)
      BY <3>7 DEF SlotOf
    <3>9. SlotOf(c.op) \in Nat /\ SlotOf(d.op) \in Nat
      <4>1. cfg.depth \in Nat
        BY Numbers DEF IInv
      <4>q. QED
        BY <4>1, PagesOfSlot DEF Slots
    <3>10. cfg \in Configs
      BY DEF IInv, TypeInv
    <3>11. \A p, q \in 0 .. cfg.pages - 1 : DataPage(SlotOf(c.op), p) # DataPage(SlotOf(d.op), q)
      BY <3>8, <3>9, <3>10, SlotsApart
    <3>12. /\ PagesOf(c) = {DataPage(SlotOf(c.op), p) : p \in 0 .. cfg.pages - 1}
           /\ PagesOf(d) = {DataPage(SlotOf(d.op), p) : p \in 0 .. cfg.pages - 1}
      BY PagesOfSlot
    <3>q. QED
      BY <3>11, <3>12
  <2>3. ASSUME NEW c \in Outstanding, NEW d \in Outstanding, c # d
        PROVE  c.op # d.op
    <3>1. \A e \in Outstanding : e \in inflight \/ \E i \in 1 .. Len(sq) : e = sq[i]
      <4>1. DOMAIN sq = 1 .. Len(sq)
        BY LenProperties DEF IInv, TypeInv
      <4>q. QED
        BY <4>1 DEF Outstanding
    <3>2. c.op \in Nat /\ d.op \in Nat
      BY OutstandingOps DEF IInv
    <3>3. CASE c \in inflight /\ d \in inflight
      BY <2>3, <3>3 DEF IInv, OrderInv
    <3>4. CASE c \in inflight /\ \E i \in 1 .. Len(sq) : d = sq[i]
      <4>1. c.op < d.op
        BY <3>4 DEF IInv, OrderInv
      <4>q. QED
        BY <3>2, <4>1
    <3>5. CASE d \in inflight /\ \E i \in 1 .. Len(sq) : c = sq[i]
      <4>1. d.op < c.op
        BY <3>5 DEF IInv, OrderInv
      <4>q. QED
        BY <3>2, <4>1
    <3>6. CASE (\E i \in 1 .. Len(sq) : c = sq[i]) /\ (\E i \in 1 .. Len(sq) : d = sq[i])
      <4>1. PICK i \in 1 .. Len(sq), j \in 1 .. Len(sq) : c = sq[i] /\ d = sq[j]
        BY <3>6
      <4>2. i < j \/ j < i
        <5>1. Len(sq) \in Nat /\ i # j
          BY <2>3, <4>1, Numbers DEF IInv
        <5>q. QED
          BY <5>1
      <4>3. c.op < d.op \/ d.op < c.op
        BY <4>1, <4>2 DEF IInv, OrderInv
      <4>q. QED
        BY <3>2, <4>3
    <3>q. QED
      BY <3>1, <3>3, <3>4, <3>5, <3>6
  <2>4. ASSUME inorder, NEW c \in Outstanding, NEW d \in Outstanding, c # d
        PROVE  PagesOf(c) \cap PagesOf(d) = {}
    <3>1. c.op # d.op /\ c.op \in Nat /\ d.op \in Nat
      BY <2>3, <2>4, OutstandingOps DEF IInv
    <3>2. c.op < d.op \/ d.op < c.op
      BY <3>1
    <3>q. QED
      BY <2>2, <2>4, <3>2
  <2>q. QED
    BY <2>1, <2>4 DEF SlotsDistinct
<1>q. QED
  BY <1>1, Invariance, PTL

\* Memory is freed, or given back at the exit of the process, with a command
\* about only if the kernel gave up, or died, and left one behind.
THEOREM QuietTheorem == Spec => []QuietWhenFreed
<1>1. IInv => QuietWhenFreed
  <2> SUFFICES ASSUME IInv, Outstanding # {}, "data" \notin bheld PROVE gaveUp
    BY DEF QuietWhenFreed
  <2>1. bpc # "kernel"
    BY DEF IInv, ArraysInv, Active
  <2>2. ~Quiet
    BY QuietFacts
  <2>q. QED
    BY <2>1, <2>2 DEF IInv, QuietInv
<1>q. QED
  BY <1>1, Invariance, PTL

\* A program that returns from main has released what it had, whichever step of
\* the set-up failed, but for the two arrays the goto to cleanup_hw passes over
\* and what a failed gpunvme_ctrl_init left, and in a success without exception:
\* the safety half of BenchEnds.
THEOREM ExitTheorem == Spec => [](bpc = "exited" => Released)
<1>1. Init => ReleaseInv
  BY ReleaseStart
<1>2. ReleaseInv /\ [Next]_vars => ReleaseInv'
  BY ReleaseStep
<1>3. ReleaseInv => (bpc = "exited" => Released)
  BY DEF ReleaseInv
<1>4. Spec => []ReleaseInv
  BY <1>1, <1>2, PTL DEF Spec
<1>q. QED
  BY <1>3, <1>4, PTL
=============================================================================
