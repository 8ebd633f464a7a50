------------------------ MODULE AutomatedJudgeProofs ------------------------
(***************************************************************************)
(* Theorems about the paid judge of the citation baseline, for every       *)
(* sequence of assertions, every set of verdicts and versions, every cap   *)
(* and any number of launches: the types, that the list of sends covers    *)
(* the bill, that a sealed package is earned, and that decisions are       *)
(* final.                                                                  *)
(***************************************************************************)
EXTENDS AutomatedJudge, SequenceTheorems, FiniteSetTheorems,
        WellFoundedInduction, NaturalsInduction, TLAPS

-----------------------------------------------------------------------------
(* Totals. What the sends cost is a fold, which no step of a proof can   *)
(* unroll: it is the last of its partial sums, and what those are is shown *)
(* by the least index at which it would be otherwise.                      *)

Cost(send) == send.units

LEMMA Least ==
  ASSUME NEW S, S \subseteq Nat, S # {}
  PROVE  Min(S) \in S /\ \A y \in S : Min(S) <= y
<1> DEFINE Less == OpToRel(<, Nat)
<1>1. IsWellFoundedOn(Less, Nat)
  BY NatLessThanWellFounded
<1> HIDE DEF Less
<1>2. PICK k \in S : \A j \in S : ~(<<j, k>> \in Less)
  BY <1>1, WFMin
<1>3. \A j \in S : ~(j < k)
  BY <1>2 DEF Less, OpToRel
<1>4. \A j \in S : k <= j
  BY <1>2, <1>3
<1> QED BY <1>2, <1>4 DEF Min

(* Induction up to n, of a set instead of a predicate.                     *)
LEMMA UpTo ==
  ASSUME NEW n \in Nat, NEW S, 0 \in S,
         \A k \in 1..n : k - 1 \in S => k \in S
  PROVE  \A k \in 0..n : k \in S
<1> DEFINE Misses == {k \in 0..n : k \notin S}
<1>1. Misses \subseteq Nat
  OBVIOUS
<1> SUFFICES ASSUME Misses # {} PROVE FALSE
  OBVIOUS
<1> HIDE DEF Misses
<1>2. Min(Misses) \in Misses /\ \A y \in Misses : Min(Misses) <= y
  BY <1>1, Least
<1>3. PICK m \in 0..n : m \notin S /\ \A y \in Misses : m <= y
  BY <1>2 DEF Misses
<1>4. m # 0 /\ m \in 1..n /\ m - 1 \in 0..n /\ ~(m <= m - 1)
  BY <1>3
<1>5. m - 1 \in S
  BY <1>3, <1>4 DEF Misses
<1> QED BY <1>3, <1>4, <1>5

LEMMA MaxIn ==
  ASSUME NEW n \in Nat, NEW s \in SUBSET (1..n), s # {}
  PROVE  Max(s) \in s /\ \A j \in s : j <= Max(s)
<1> DEFINE Above == {k \in Nat : \A j \in s : j <= k}
<1>1. Above \subseteq Nat /\ n \in Above
  OBVIOUS
<1>2. PICK m \in Above : \A y \in Above : m <= y
  <2> HIDE DEF Above
  <2> QED BY <1>1, Least
<1>3. m \in s
  <2> SUFFICES ASSUME m \notin s PROVE FALSE
    OBVIOUS
  <2>1. \A j \in s : j \in 1..n /\ j <= m /\ j # m
    BY <1>2
  <2>2. m \in Nat /\ \A j \in s : j <= m - 1
    BY <1>2, <2>1
  <2>3. m - 1 \in Nat
    <3>1. PICK j \in s : TRUE
      OBVIOUS
    <3> QED BY <2>1, <2>2, <3>1
  <2>4. m - 1 \in Above
    BY <2>2, <2>3
  <2> QED BY <1>2, <2>2, <2>4
<1>4. \A j \in s : m >= j
  BY <1>2
<1> QED BY <1>3, <1>4 DEF Max

(* What FoldLeft builds for the first n sends, of all their subsets.        *)
Folds(f, sends, n) ==
  f = [s \in SUBSET (1..n) |->
         IF s = {} THEN 0 ELSE f[s \ {Max(s)}] + Cost(sends[Max(s)])]

LEMMA FoldExists ==
  ASSUME NEW sends, NEW n \in Nat
  PROVE  \E f : Folds(f, sends, n)
<1> DEFINE S == {k \in Nat : \E f : Folds(f, sends, k)}
           V(k) == Cost(sends[k])
<1>1. 0 \in S
  <2> DEFINE f == [s \in SUBSET (1..0) |-> 0]
  <2>1. \A s \in SUBSET (1..0) : s = {}
    OBVIOUS
  <2>2. f = [s \in SUBSET (1..0) |->
               IF s = {} THEN 0 ELSE f[s \ {Max(s)}] + V(Max(s))]
    BY <2>1
  <2>3. Folds(f, sends, 0)
    BY <2>2 DEF Folds
  <2> QED BY <2>3
<1>2. ASSUME NEW k \in 1..n, k - 1 \in S PROVE k \in S
  <2>1. PICK f : Folds(f, sends, k - 1)
    BY <1>2
  <2> DEFINE Sum(g, s) == IF s = {} THEN 0 ELSE g[s \ {Max(s)}] + V(Max(s))
             h == [s \in SUBSET (1..k) |->
                     IF k \in s THEN f[s \ {k}] + V(k) ELSE f[s]]
  <2>2. \A s \in SUBSET (1..(k - 1)) : f[s] = Sum(f, s)
    BY <2>1, Zenon DEF Folds
  <2>3. \A s \in SUBSET (1..k) : h[s] = Sum(h, s)
    <3> TAKE s \in SUBSET (1..k)
    <3>1. s # {} => Max(s) \in s /\ \A j \in s : j <= Max(s)
      BY MaxIn
    <3>2. CASE k \in s
      <4>1. Max(s) \in 1..k /\ k <= Max(s) /\ Max(s) <= k /\ k \in Int
        <5>1. Max(s) \in s /\ s \subseteq 1..k
          BY <3>1, <3>2
        <5>2. k <= Max(s)
          BY <3>1, <3>2
        <5>3. Max(s) \in 1..k
          BY <5>1
        <5> HIDE DEF V, Sum, h
        <5> QED BY <5>2, <5>3
      <4>0. Max(s) = k
        BY <4>1
      <4>2. s \ {k} \in SUBSET (1..k) /\ k \notin s \ {k}
        OBVIOUS
      <4>3. h[s \ {k}] = f[s \ {k}]
        BY <4>2
      <4>4. h[s] = f[s \ {k}] + V(k)
        BY <3>2
      <4> HIDE DEF h, V
      <4> QED BY <3>2, <4>0, <4>3, <4>4
    <3>3. CASE k \notin s
      <4>1. s \in SUBSET (1..(k - 1))
        BY <3>3
      <4>2. h[s] = f[s]
        BY <3>3
      <4>3. s # {} => s \ {Max(s)} \in SUBSET (1..k) /\ k \notin s \ {Max(s)}
        BY <3>3
      <4>4. s # {} => h[s \ {Max(s)}] = f[s \ {Max(s)}]
        BY <4>3
      <4>5. f[s] = Sum(f, s)
        BY <2>2, <4>1
      <4> HIDE DEF h, V
      <4> QED BY <4>2, <4>4, <4>5
    <3> QED BY <3>2, <3>3
  <2>4. h = [s \in SUBSET (1..k) |-> h[s]]
    OBVIOUS
  <2>5. Folds(h, sends, k)
    <3> HIDE DEF h
    <3> QED BY <2>3, <2>4 DEF Folds
  <2> QED BY <2>5
<1>3. \A k \in 0..n : k \in S
  <2> HIDE DEF S
  <2> QED BY <1>1, <1>2, UpTo
<1> QED BY <1>3

(* The sums of the first 0, 1, ..., n sends.                                *)
Sums(g, sends, n) ==
  g[0] = 0 /\ \A k \in 1..n : g[k] = g[k - 1] + Cost(sends[k])

LEMMA ChargedIs ==
  ASSUME NEW T, NEW sends \in Seq(T)
  PROVE  \E g : Sums(g, sends, Len(sends)) /\ Charged(sends) = g[Len(sends)]
<1> DEFINE n == Len(sends)
           f == CHOOSE f : f = [s \in SUBSET (1..n) |->
                  IF s = {} THEN 0 ELSE f[s \ {Max(s)}] + Cost(sends[Max(s)])]
           g == [k \in 0..n |-> f[1..k]]
<1>1. n \in Nat /\ DOMAIN sends = 1..n
  OBVIOUS
<1>2. Charged(sends) = f[1..n]
  BY <1>1 DEF Charged, FoldLeft, MapThenFoldSet, Cost
<1>3. Folds(f, sends, n)
  BY <1>1, FoldExists DEF Folds
<1> HIDE DEF f, n
<1>4. \A s \in SUBSET (1..n) : f[s] =
        IF s = {} THEN 0 ELSE f[s \ {Max(s)}] + Cost(sends[Max(s)])
  BY <1>3, Zenon DEF Folds
<1>5. g[0] = 0
  <2>1. 1..0 = {} /\ {} \in SUBSET (1..n)
    OBVIOUS
  <2>2. g[0] = f[{}]
    BY <1>1, <2>1
  <2> QED BY <1>4, <2>1, <2>2
<1>6. ASSUME NEW k \in 1..n PROVE g[k] = g[k - 1] + Cost(sends[k])
  <2>1. 1..k \in SUBSET (1..n) /\ 1..k # {}
    BY <1>1
  <2>2. Max(1..k) \in 1..k /\ \A j \in 1..k : j <= Max(1..k)
    BY <1>1, <2>1, MaxIn
  <2>3. Max(1..k) = k
    BY <2>2
  <2>4. (1..k) \ {k} = 1..(k - 1)
    BY <1>1
  <2>5. f[1..k] = f[1..(k - 1)] + Cost(sends[k])
    BY <1>4, <2>1, <2>3, <2>4
  <2>6. g[k] = f[1..k] /\ g[k - 1] = f[1..(k - 1)]
    BY <1>1
  <2> QED BY <2>5, <2>6
<1>7. g[n] = f[1..n]
  BY <1>1
<1> HIDE DEF g
<1>8. Sums(g, sends, n)
  BY <1>5, <1>6 DEF Sums
<1> QED BY <1>2, <1>7, <1>8 DEF n

(* Two sequences of sums that differ in one summand, or in none.           *)
AlikeBut(i, a, b, n) ==
  \A k \in 1..n : /\ Cost(a[k]) \in Nat /\ Cost(b[k]) \in Nat
                  /\ k # i => Cost(a[k]) = Cost(b[k])

LEMMA SumsDiffer ==
  ASSUME NEW n \in Nat, NEW a, NEW b, NEW g, NEW h, NEW i \in 1..(n + 1),
         Sums(g, a, n), Sums(h, b, n), AlikeBut(i, a, b, n)
  PROVE  /\ g[n] \in Nat
         /\ h[n] = IF i \in 1..n THEN g[n] - Cost(a[i]) + Cost(b[i]) ELSE g[n]
<1> DEFINE A(k) == Cost(a[k])
           B(k) == Cost(b[k])
           S == {k \in 0..n : /\ g[k] \in Nat /\ h[k] \in Nat
                              /\ h[k] = IF i <= k THEN g[k] - A(i) + B(i) ELSE g[k]}
<1>1. g[0] = 0 /\ h[0] = 0 /\ \A k \in 1..n : g[k] = g[k - 1] + A(k) /\ h[k] = h[k - 1] + B(k)
  BY DEF Sums
<1>2. \A k \in 1..n : A(k) \in Nat /\ B(k) \in Nat /\ (k # i => A(k) = B(k))
  BY DEF AlikeBut
<1> HIDE DEF A, B
<1>3. 0 \in S
  BY <1>1
<1>4. ASSUME NEW k \in 1..n, k - 1 \in S PROVE k \in S
  BY <1>1, <1>2, <1>4
<1>5. n \in S
  <2> HIDE DEF S
  <2>1. \A k \in 0..n : k \in S
    BY <1>3, <1>4, UpTo
  <2> QED BY <2>1
<1> QED BY <1>5 DEF A, B

LEMMA CostTyped ==
  ASSUME NEW send \in Send
  PROVE  Cost(send) \in 0..Ceiling
BY JudgeAssumption DEF Send, Units, Cost

LEMMA ChargedTyped ==
  ASSUME NEW sends \in Seq(Send)
  PROVE  Charged(sends) \in Nat
<1> DEFINE n == Len(sends)
<1>1. n \in Nat /\ \A k \in 1..n : sends[k] \in Send
  OBVIOUS
<1>2. PICK g : Sums(g, sends, n) /\ Charged(sends) = g[n]
  BY ChargedIs
<1> HIDE DEF n
<1>3. \A k \in 1..n : Cost(sends[k]) \in Nat
  BY <1>1, CostTyped, JudgeAssumption
<1>4. n + 1 \in 1..(n + 1)
  BY <1>1
<1>5. AlikeBut(n + 1, sends, sends, n)
  BY <1>3 DEF AlikeBut
<1>6. g[n] \in Nat
  BY <1>1, <1>2, <1>4, <1>5, SumsDiffer
<1> QED BY <1>2, <1>6

(* One send more, and one in place of another.                              *)
LEMMA ChargedAppend ==
  ASSUME NEW sends \in Seq(Send), NEW send \in Send
  PROVE  Charged(Append(sends, send)) = Charged(sends) + Cost(send)
<1> DEFINE n == Len(sends)
           more == Append(sends, send)
<1>1. /\ n \in Nat /\ Len(more) = n + 1 /\ more \in Seq(Send) /\ more[n + 1] = send
      /\ \A k \in 1..n : sends[k] \in Send /\ more[k] = sends[k]
  BY AppendProperties
<1>2. PICK g : Sums(g, sends, n) /\ Charged(sends) = g[n]
  BY ChargedIs
<1>3. PICK h : Sums(h, more, n + 1) /\ Charged(more) = h[n + 1]
  BY <1>1, ChargedIs
<1> HIDE DEF n, more
<1>4. Sums(h, more, n)
  BY <1>1, <1>3 DEF Sums
<1>5. n + 1 \in 1..(n + 1) /\ n + 1 \notin 1..n
  BY <1>1
<1>6. \A k \in 1..n : /\ Cost(sends[k]) \in Nat /\ Cost(more[k]) \in Nat
                      /\ Cost(sends[k]) = Cost(more[k])
  BY <1>1, CostTyped, JudgeAssumption
<1>7. h[n] = g[n]
  <2> DEFINE i == n + 1
  <2>1. i \in 1..(n + 1) /\ i \notin 1..n
    BY <1>5
  <2> HIDE DEF i
  <2>2. h[n] = IF i \in 1..n THEN g[n] - Cost(sends[i]) + Cost(more[i]) ELSE g[n]
    <3>1. AlikeBut(i, sends, more, n)
      BY <1>6 DEF AlikeBut
    <3>2. Sums(g, sends, n) /\ n \in Nat
      BY <1>1, <1>2
    <3> QED BY <1>4, <2>1, <3>1, <3>2, SumsDiffer
  <2> QED BY <2>1, <2>2
<1>8. h[n + 1] = h[n] + Cost(more[n + 1])
  <2> DEFINE p == n + 1
  <2>1. p \in 1..p /\ p - 1 = n
    BY <1>1
  <2>2. Sums(h, more, p)
    BY <1>3
  <2> HIDE DEF p
  <2>3. h[p] = h[p - 1] + Cost(more[p])
    BY <2>1, <2>2 DEF Sums
  <2> QED BY <2>1, <2>3 DEF p
<1> QED BY <1>1, <1>2, <1>3, <1>7, <1>8 DEF more

LEMMA ChargedExcept ==
  ASSUME NEW sends \in Seq(Send), NEW send \in Send, NEW i \in 1..Len(sends)
  PROVE  Charged([sends EXCEPT ![i] = send]) = Charged(sends) - Cost(sends[i]) + Cost(send)
<1> DEFINE n == Len(sends)
           other == [sends EXCEPT ![i] = send]
<1>1. /\ n \in Nat /\ Len(other) = n /\ other \in Seq(Send) /\ other[i] = send
      /\ i \in 1..n /\ i \in 1..(n + 1)
      /\ \A k \in 1..n : sends[k] \in Send /\ other[k] \in Send /\ (k # i => other[k] = sends[k])
  OBVIOUS
<1>2. PICK g : Sums(g, sends, n) /\ Charged(sends) = g[n]
  BY ChargedIs
<1>3. PICK h : Sums(h, other, n) /\ Charged(other) = h[n]
  BY <1>1, ChargedIs
<1> HIDE DEF n, other
<1>4. \A k \in 1..n : /\ Cost(sends[k]) \in Nat /\ Cost(other[k]) \in Nat
                      /\ k # i => Cost(sends[k]) = Cost(other[k])
  <2> TAKE k \in 1..n
  <2>1. sends[k] \in Send /\ other[k] \in Send /\ (k # i => other[k] = sends[k])
    BY <1>1
  <2>2. Cost(sends[k]) \in 0..Ceiling /\ Cost(other[k]) \in 0..Ceiling
    BY <2>1, CostTyped
  <2> QED BY <2>1, <2>2
<1>5. h[n] = g[n] - Cost(sends[i]) + Cost(other[i])
  <2>1. AlikeBut(i, sends, other, n)
    BY <1>4 DEF AlikeBut
  <2> QED BY <1>1, <1>2, <1>3, <2>1, SumsDiffer
<1> QED BY <1>1, <1>2, <1>3, <1>5 DEF other
-----------------------------------------------------------------------------
(* The inductive invariant.                                                *)

(* What the launcher does next, the writing of its lists aside.            *)
Aim == IF pc \in Lists THEN then ELSE pc
Working == pc # "down"

(* TypeOK, and what a launcher is doing.                                   *)
Typed ==
  /\ TypeOK
  /\ pc \in Lists => then \in Pcs \ (Lists \cup {"settle", "down"})
  /\ Working => version \in Versions /\ version = disk.state
  /\ disk.state = None => disk = NoFiles
  /\ pc = "settle" => reply \in Replies

(* Each answer is of a send in the list, charged for it, within the caps.  *)
Covers(lists) ==
  LET sends == lists.sends IN
  /\ \A i \in 1..MaxSends : given[i] # <<>> =>
       /\ i \in DOMAIN sends /\ Len(given[i]) = 1
       /\ given[i][1].reply.units <= Ceiling =>
            given[i][1].reply.units <= sends[i].units
  /\ Len(sends) <= MaxSends /\ Charged(sends) <= MaxUnits
  /\ \A a \in Assertions : Cardinality(SendsOf(lists, a)) <= MaxAttempts

(* Each pass gives what the judge answered to its last send, asked under   *)
(* the version of the directory.                                           *)
Answered(p, state) ==
  /\ p.sends # {}
  /\ \E answer \in Range(given[Max(p.sends)]) :
       answer.reply.verdict = p.verdict /\ answer.version = state
Earned(passes, state) == \A p \in Range(passes) : Answered(p, state)

Injective(decisions) == IsInjective([i \in DOMAIN decisions |-> decisions[i].assertion])

SettledKept(before, after) ==
  /\ DOMAIN before \subseteq DOMAIN after
  /\ \A i \in DOMAIN before : before[i].status # "reserved" => after[i] = before[i]

(* The files are behind the launcher by what persist has still to write,   *)
(* and never say anything the launcher took back.                          *)
Behind ==
  LET old == disk.lists IN
  Working =>
    /\ pc # "sends" => old.sends = mem.sends
    /\ pc \notin {"sends", "passes"} => old.passes = mem.passes
    /\ pc \notin {"sends", "passes", "decisions"} => old.decisions = mem.decisions
    /\ SettledKept(old.sends, mem.sends)
    /\ IsPrefix(old.passes, mem.passes) /\ IsPrefix(old.decisions, mem.decisions)

(* What is known of the assertion at hand and of its last send.            *)
Open == mem.sends[Len(mem.sends)]
AtHand ==
  /\ Aim \in {"reserve", "judge", "settle", "decide"} =>
       index <= Len(Inputs) /\ ~Decided(mem, Item)
  /\ Aim \in {"judge", "settle"} =>
       /\ mem.sends # <<>>
       /\ Open.assertion = Item /\ Open.status = "reserved" /\ Open.units = Ceiling
  /\ Aim = "judge" => given[Len(mem.sends)] = <<>>
  /\ Aim = "settle" => given[Len(mem.sends)] = <<[version |-> version, reply |-> reply]>>
  /\ Aim = "decide" => Passed(mem, Item)

(* A copy of the files, taken at any time a launcher was down: once all is *)
(* decided in it, nothing was sent after it.                               *)
Fits(files) ==
  /\ Earned(files.lists.passes, files.state)
  /\ Range(files.lists.decisions) \subseteq Range(disk.lists.decisions)
  /\ {d.assertion : d \in Range(files.lists.decisions)} = Assertions =>
       \A i \in 1..MaxSends : given[i] # <<>> => i \in DOMAIN files.lists.sends

JudgeInv ==
  /\ Typed /\ Behind /\ AtHand
  /\ Covers(disk.lists) /\ Earned(disk.lists.passes, disk.state)
  /\ Injective(disk.lists.decisions)
  /\ Working => /\ Covers(mem) /\ Earned(mem.passes, disk.state)
                /\ Injective(mem.decisions)
  /\ Fits(prepared) /\ Fits(package.files)
  /\ package.stage = "sealed" =>
       package.manifest = package.files /\ Validates(package.files)

-----------------------------------------------------------------------------
(* Inputs, and sequences that go on.                                       *)

LEMMA InputFacts ==
  /\ Len(Inputs) \in Nat /\ DOMAIN Inputs = 1..Len(Inputs)
  /\ \A i \in 1..Len(Inputs) : Inputs[i] \in Assertions
BY JudgeAssumption

LEMMA PrefixIs ==
  ASSUME NEW T, NEW s \in Seq(T), NEW t \in Seq(T)
  PROVE  IsPrefix(s, t) <=> Len(s) <= Len(t) /\ \A i \in 1..Len(s) : s[i] = t[i]
<1> SUFFICES ASSUME Len(s) <= Len(t)
             PROVE  SubSeq(s, 1, Len(s)) = SubSeq(t, 1, Len(s)) <=> \A i \in 1..Len(s) : s[i] = t[i]
  BY DEF IsPrefix
<1> DEFINE n == Len(s)
           a == SubSeq(s, 1, n)
           b == SubSeq(t, 1, n)
<1>1. n \in Nat /\ 1 \in 1..(n + 1) /\ n \in (1 - 1)..n /\ n \in (1 - 1)..Len(t)
    /\ 1 \in 1..(Len(t) + 1)
  OBVIOUS
<1>2. /\ a \in Seq(T) /\ Len(a) = n /\ \A i \in 1..n : a[i] = s[i]
      /\ b \in Seq(T) /\ Len(b) = n /\ \A i \in 1..n : b[i] = t[i]
  BY <1>1
<1> HIDE DEF a, b
<1>3. a = b <=> \A i \in 1..n : a[i] = b[i]
  BY <1>1, <1>2, SeqEqual
<1> QED BY <1>2, <1>3 DEF a, b

LEMMA PrefixGoesOn ==
  ASSUME NEW T, NEW s \in Seq(T)
  PROVE  /\ IsPrefix(s, s)
         /\ \A x \in T : IsPrefix(s, Append(s, x)) /\ Range(Append(s, x)) = Range(s) \cup {x}
         /\ \A t \in Seq(T) : IsPrefix(s, t) => Range(s) \subseteq Range(t)
<1>1. IsPrefix(s, s)
  BY PrefixIs
<1>2. ASSUME NEW x \in T PROVE IsPrefix(s, Append(s, x)) /\ Range(Append(s, x)) = Range(s) \cup {x}
  <2>1. /\ Append(s, x) \in Seq(T) /\ Len(Append(s, x)) = Len(s) + 1 /\ Append(s, x)[Len(s) + 1] = x
        /\ \A i \in 1..Len(s) : Append(s, x)[i] = s[i]
    BY AppendProperties
  <2> DEFINE a == Append(s, x)
             n == Len(s)
  <2>2. /\ a \in Seq(T) /\ n \in Nat /\ Len(a) = n + 1 /\ DOMAIN a = 1..(n + 1) /\ DOMAIN s = 1..n
        /\ a[n + 1] = x /\ \A i \in 1..n : a[i] = s[i]
    BY <2>1
  <2> HIDE DEF a, n
  <2>3. Range(a) = Range(s) \cup {x}
    BY <2>2 DEF Range
  <2>4. IsPrefix(s, a)
    BY <2>2, PrefixIs DEF n
  <2> QED BY <2>3, <2>4 DEF a
<1>3. ASSUME NEW t \in Seq(T), IsPrefix(s, t) PROVE Range(s) \subseteq Range(t)
  <2>1. Len(s) <= Len(t) /\ \A i \in 1..Len(s) : s[i] = t[i]
    BY <1>3, PrefixIs
  <2> QED BY <2>1 DEF Range
<1> QED BY <1>1, <1>2, <1>3

(* The sends of an assertion, and the largest of their numbers.            *)
LEMMA SendsOfIs ==
  ASSUME NEW lists \in ListTypes, NEW a
  PROVE  /\ SendsOf(lists, a) \subseteq 1..Len(lists.sends)
         /\ IsFiniteSet(SendsOf(lists, a)) /\ Cardinality(SendsOf(lists, a)) \in Nat
<1>1. lists.sends \in Seq(Send)
  BY DEF ListTypes
<1>2. SendsOf(lists, a) \subseteq 1..Len(lists.sends) /\ Len(lists.sends) \in Nat
  BY <1>1 DEF SendsOf
<1>3. IsFiniteSet(1..Len(lists.sends))
  BY <1>2, FS_Interval
<1>4. IsFiniteSet(SendsOf(lists, a))
  BY <1>2, <1>3, FS_Subset
<1> QED BY <1>2, <1>4, FS_CardinalityType

LEMMA EmptyTyped ==
  /\ Empty \in ListTypes /\ NoFiles \in FileTypes
  /\ Empty.sends = <<>> /\ Empty.passes = <<>> /\ Empty.decisions = <<>>
  /\ NoFiles.lists = Empty /\ NoFiles.state = None
<1> DEFINE no == FALSE
           e == [sends |-> <<>>, passes |-> <<>>, decisions |-> <<>>, failures |-> no]
           f == [state |-> None, authority |-> no, lists |-> e]
<1>1. Empty = e /\ NoFiles = f
  BY DEF Empty, NoFiles
<1>2. no \in BOOLEAN
  OBVIOUS
<1> HIDE DEF no
<1>3. e \in ListTypes /\ e.sends = <<>> /\ e.passes = <<>> /\ e.decisions = <<>>
  BY <1>2 DEF ListTypes
<1> HIDE DEF e
<1>4. f \in FileTypes /\ f.lists = e /\ f.state = None
  BY <1>2, <1>3 DEF FileTypes
<1> QED BY <1>1, <1>3, <1>4

LEMMA ChargedNone == Charged(<<>>) = 0
<1>1. <<>> \in Seq(Send) /\ Len(<<>>) = 0
  OBVIOUS
<1>2. PICK g : Sums(g, <<>>, Len(<<>>)) /\ Charged(<<>>) = g[Len(<<>>)]
  BY <1>1, ChargedIs
<1> QED BY <1>1, <1>2 DEF Sums

LEMMA EmptyFits ==
  /\ \A state : Earned(<<>>, state)
  /\ Injective(<<>>)
  /\ (\A i \in 1..MaxSends : given[i] = <<>>) => Covers(Empty)
<1>1. Range(<<>>) = {}
  BY DEF Range
<1>2. ASSUME \A i \in 1..MaxSends : given[i] = <<>> PROVE Covers(Empty)
  <2>1. Len(<<>>) <= MaxSends /\ Charged(<<>>) <= MaxUnits
    BY ChargedNone, JudgeAssumption
  <2>2. \A a \in Assertions : Cardinality(SendsOf(Empty, a)) <= MaxAttempts
    <3>1. \A a : SendsOf(Empty, a) = {}
      BY EmptyTyped DEF SendsOf
    <3> QED BY <3>1, FS_EmptySet, JudgeAssumption
  <2> QED BY <1>2, <2>1, <2>2, EmptyTyped DEF Covers
<1>3. Injective(<<>>)
  BY DEF Injective, IsInjective
<1> QED BY <1>1, <1>2, <1>3 DEF Earned

LEMMA Initially == Init => JudgeInv
<1> SUFFICES ASSUME Init PROVE JudgeInv
  OBVIOUS
<1>1. /\ disk = NoFiles /\ mem = Empty /\ pc = "down" /\ index = 1 /\ then = None /\ reply = NoReply
      /\ version = None /\ given = [i \in 1..MaxSends |-> <<>>] /\ prepared = NoFiles
      /\ package = NoPackage /\ launches = 0
  BY DEF Init
<1>2. package.files = NoFiles /\ package.stage = "absent" /\
      package \in [stage : {"absent", "scored", "copied", "sealed"},
                   files : FileTypes, manifest : FileTypes]
  <2> DEFINE f == NoFiles
  <2>1. f \in FileTypes
    BY EmptyTyped
  <2> HIDE DEF f
  <2>2. package = [stage |-> "absent", files |-> f, manifest |-> f]
    BY <1>1 DEF NoPackage, f
  <2>3. package.files = f /\ package.stage = "absent" /\
      package \in [stage : {"absent", "scored", "copied", "sealed"},
                   files : FileTypes, manifest : FileTypes]
    BY <2>1, <2>2
  <2> QED BY <2>3 DEF f
<1>3. Typed
  <2>1. index \in 1..Len(Inputs) + 1 /\ launches \in 0..MaxLaunches
    BY <1>1, InputFacts, JudgeAssumption
  <2>2. given \in [1..MaxSends -> Seq(Answers)]
    BY <1>1
  <2>3. TypeOK
    BY <1>1, <1>2, <2>1, <2>2, EmptyTyped DEF TypeOK, Pcs
  <2> QED BY <1>1, <2>3 DEF Typed, Working, Lists
<1>4. Behind /\ AtHand /\ ~Working
  BY <1>1 DEF Behind, AtHand, Aim, Working, Lists
<1>5. \A i \in 1..MaxSends : given[i] = <<>>
  BY <1>1
<1>6. Covers(disk.lists) /\ Earned(disk.lists.passes, disk.state) /\ Injective(disk.lists.decisions)
  BY <1>1, <1>5, EmptyFits, EmptyTyped
<1>7. Fits(NoFiles)
  BY <1>1, <1>5, EmptyFits, EmptyTyped DEF Fits
<1> QED BY <1>1, <1>2, <1>3, <1>4, <1>6, <1>7 DEF JudgeInv
-----------------------------------------------------------------------------
(* Steps that leave the files, the answers and the copies alone.           *)

LEMMA Known ==
  ASSUME JudgeInv
  PROVE  /\ disk \in FileTypes /\ mem \in ListTypes /\ disk.lists \in ListTypes
         /\ disk.state \in Versions \cup {None}
         /\ pc \in Pcs /\ index \in 1..Len(Inputs) + 1
         /\ then \in Pcs \cup {None} /\ reply \in Replies \cup {NoReply}
         /\ version \in Versions \cup {None}
         /\ given \in [1..MaxSends -> Seq(Answers)]
         /\ prepared \in FileTypes
         /\ package \in [stage : {"absent", "scored", "copied", "sealed"},
                        files : FileTypes, manifest : FileTypes]
         /\ launches \in 0..MaxLaunches
         /\ mem.sends \in Seq(Send) /\ mem.passes \in Seq(Pass) /\ mem.decisions \in Seq(Decision)
         /\ disk.lists.sends \in Seq(Send) /\ disk.lists.passes \in Seq(Pass)
         /\ disk.lists.decisions \in Seq(Decision)
         /\ (index <= Len(Inputs) => Item \in Assertions)
<1>1. /\ disk \in FileTypes /\ mem \in ListTypes
      /\ pc \in Pcs /\ index \in 1..Len(Inputs) + 1
      /\ then \in Pcs \cup {None} /\ reply \in Replies \cup {NoReply}
      /\ version \in Versions \cup {None}
      /\ given \in [1..MaxSends -> Seq(Answers)]
      /\ prepared \in FileTypes
      /\ package \in [stage : {"absent", "scored", "copied", "sealed"},
                     files : FileTypes, manifest : FileTypes]
      /\ launches \in 0..MaxLaunches
  BY DEF JudgeInv, Typed, TypeOK
<1>2. disk.lists \in ListTypes /\ disk.state \in Versions \cup {None}
  BY <1>1 DEF FileTypes
<1>3. /\ mem.sends \in Seq(Send) /\ mem.passes \in Seq(Pass) /\ mem.decisions \in Seq(Decision)
      /\ disk.lists.sends \in Seq(Send) /\ disk.lists.passes \in Seq(Pass)
      /\ disk.lists.decisions \in Seq(Decision)
  BY <1>1, <1>2 DEF ListTypes
<1>4. index <= Len(Inputs) => Item \in Assertions
  BY <1>1, InputFacts DEF Item
<1> QED BY <1>1, <1>2, <1>3, <1>4

LEMMA CopiesKept ==
  ASSUME JudgeInv, given' = given, UNCHANGED offline,
         Range(disk.lists.decisions) \subseteq Range(disk'.lists.decisions)
  PROVE  /\ Fits(prepared)' /\ Fits(package.files)'
         /\ package'.stage = "sealed" =>
              package'.manifest = package'.files /\ Validates(package'.files)
<1>1. prepared' = prepared /\ package' = package
  BY DEF offline
<1>2. Fits(prepared)'
  BY <1>1 DEF JudgeInv, Fits, Earned, Answered
<1>3. Fits(package.files)'
  BY <1>1 DEF JudgeInv, Fits, Earned, Answered
<1> QED BY <1>1, <1>2, <1>3 DEF JudgeInv

LEMMA QuietStep ==
  ASSUME JudgeInv, disk' = disk, given' = given, UNCHANGED offline,
         Typed', Behind', AtHand',
         Working' => /\ Covers(mem)' /\ Earned(mem'.passes, disk.state) /\ Injective(mem'.decisions)
  PROVE  JudgeInv'
<1>1. Covers(disk.lists)' /\ Earned(disk.lists.passes, disk.state)'
    /\ Injective(disk.lists.decisions)'
  BY DEF JudgeInv, Covers, Earned, Answered
<1>2. Earned(mem.passes, disk.state)' <=> Earned(mem'.passes, disk.state)
  BY DEF Earned, Answered
<1>3. /\ Fits(prepared)' /\ Fits(package.files)'
      /\ package'.stage = "sealed" =>
           package'.manifest = package'.files /\ Validates(package'.files)
  BY CopiesKept
<1> QED BY <1>1, <1>2, <1>3 DEF JudgeInv

(* The launcher goes on with the lists it has.                             *)
LEMMA Goes ==
  ASSUME JudgeInv, disk' = disk, mem' = mem, given' = given, version' = version, launches' = launches,
         UNCHANGED offline, pc \in Pcs \ Lists, Working,
         pc' \in Pcs \ (Lists \cup {"settle", "down"}),
         index' \in 1..Len(Inputs) + 1, then' = then, reply' = reply, AtHand'
  PROVE  JudgeInv'
<1>1. /\ pc' # "sends" /\ pc' # "passes" /\ pc' # "decisions" /\ pc' # "failures"
      /\ pc # "sends" /\ pc # "passes" /\ pc # "decisions" /\ pc # "failures"
  BY DEF Lists
<1>2. Working' /\ pc' # "settle"
  BY DEF Working
<1>3. Typed'
  <2>1. TypeOK'
    BY DEF JudgeInv, Typed, TypeOK, offline
  <2>2. version \in Versions /\ version = disk.state
    BY DEF JudgeInv, Typed
  <2>3. disk.state = None => disk = NoFiles
    BY DEF JudgeInv, Typed
  <2>4. pc' \notin Lists
    OBVIOUS
  <2> QED BY <1>2, <2>1, <2>2, <2>3, <2>4 DEF Typed
<1>4. Behind'
  BY <1>1 DEF JudgeInv, Behind
<1>5. Covers(mem)' /\ Earned(mem'.passes, disk.state) /\ Injective(mem'.decisions)
  BY DEF JudgeInv, Covers
<1> QED BY <1>3, <1>4, <1>5, QuietStep

(* The launcher has changed its lists, and writes them next.               *)
LEMMA Writes ==
  ASSUME JudgeInv, disk' = disk, given' = given, version' = version, launches' = launches,
         index' = index, UNCHANGED offline, pc \in Pcs \ Lists, Working,
         pc' = "sends", then' \in Pcs \ (Lists \cup {"settle", "down"}), reply' \in {reply, NoReply},
         mem' \in ListTypes, AtHand',
         SettledKept(mem.sends, mem'.sends),
         IsPrefix(mem.passes, mem'.passes), IsPrefix(mem.decisions, mem'.decisions),
         Covers(mem)', Earned(mem'.passes, disk.state), Injective(mem'.decisions)
  PROVE  JudgeInv'
<1>1. /\ pc # "sends" /\ pc # "passes" /\ pc # "decisions" /\ pc # "failures"
      /\ pc' = "sends" /\ Working'
  BY DEF Lists, Working
<1>2. Typed'
  <2>1. pc' \in Pcs /\ then' \in Pcs
    BY DEF Pcs, Lists
  <2>2. reply' \in Replies \cup {NoReply}
    BY Known
  <2>3. TypeOK'
    BY <2>1, <2>2 DEF JudgeInv, Typed, TypeOK, offline
  <2>4. version \in Versions /\ version = disk.state
    BY DEF JudgeInv, Typed
  <2>5. disk.state = None => disk = NoFiles
    BY DEF JudgeInv, Typed
  <2> QED BY <1>1, <2>3, <2>4, <2>5 DEF Typed
<1>3. disk.lists.sends = mem.sends /\ disk.lists.passes = mem.passes
    /\ disk.lists.decisions = mem.decisions
  BY <1>1 DEF JudgeInv, Behind
<1>4. Behind'
  BY <1>1, <1>3 DEF Behind
<1> QED BY <1>2, <1>4, QuietStep

LEMMA StopKeeps ==
  ASSUME JudgeInv, disk' = disk, given' = given, UNCHANGED offline, launches' = launches,
         pc' = "down", mem' = Empty, index' = 1, then' \in {then, None},
         reply' \in {reply, NoReply}, version' = None
  PROVE  JudgeInv'
<1>1. ~Working' /\ Behind'
  BY DEF Working, Behind
<1>2. AtHand'
  BY DEF AtHand, Aim, Lists
<1>3. Typed'
  <2>1. 1 \in 1..Len(Inputs) + 1
    BY InputFacts
  <2>2. reply' \in Replies \cup {NoReply} /\ then' \in Pcs \cup {None} /\ pc' \in Pcs
    BY Known DEF Pcs
  <2>3. TypeOK'
    BY <2>1, <2>2, EmptyTyped DEF JudgeInv, Typed, TypeOK, offline
  <2>4. disk.state = None => disk = NoFiles
    BY DEF JudgeInv, Typed
  <2> QED BY <1>1, <2>3, <2>4 DEF Typed, Lists
<1> QED BY <1>1, <1>2, <1>3, QuietStep

(* One more decision, of an assertion that had none.                       *)
LEMMA Decides ==
  ASSUME JudgeInv, pc \in {"next", "decide"}, index <= Len(Inputs), ~Decided(mem, Item),
         NEW verdict \in Verdicts, NEW pass \in Pass \cup {NoPass},
         mem' = AppendDecision(mem, verdict, pass), Persist("next"),
         UNCHANGED <<disk, index, reply, version, given, offline, launches>>
  PROVE  JudgeInv'
<1> DEFINE d == [assertion |-> Item, verdict |-> verdict, pass |-> pass]
           before == mem.decisions
           after == Append(before, d)
<1>1. Item \in Assertions /\ mem \in ListTypes /\ before \in Seq(Decision)
  BY Known
<1>2. d \in Decision
  BY <1>1 DEF Decision
<1>3. mem' = [mem EXCEPT !.decisions = after]
  BY DEF AppendDecision
<1>4. /\ after \in Seq(Decision) /\ Len(after) = Len(before) + 1 /\ after[Len(before) + 1] = d
      /\ \A i \in 1..Len(before) : after[i] = before[i]
  BY <1>1, <1>2, AppendProperties
<1>5. IsPrefix(before, after)
  BY <1>1, <1>2, PrefixGoesOn
<1>6. d.assertion = Item
  OBVIOUS
<1>7. \A i \in 1..Len(before) : before[i].assertion # Item
  BY <1>1 DEF Decided, Range
<1> HIDE DEF d, before, after
<1>8. mem' \in ListTypes /\ mem'.sends = mem.sends /\ mem'.passes = mem.passes
    /\ mem'.decisions = after
  BY <1>1, <1>3, <1>4 DEF ListTypes
<1>9. Injective(after)
  <2> DEFINE n == Len(before)
             f == [i \in DOMAIN after |-> after[i].assertion]
             g == [i \in DOMAIN before |-> before[i].assertion]
  <2>1. n \in Nat /\ DOMAIN before = 1..n /\ DOMAIN after = 1..(n + 1)
    BY <1>1, <1>4
  <2>2. \A i, j \in 1..n : before[i].assertion = before[j].assertion => i = j
    <3>1. Injective(before)
      BY DEF JudgeInv, Working, before
    <3> QED BY <2>1, <3>1 DEF Injective, IsInjective
  <2>3. after[n + 1].assertion = Item /\ \A i \in 1..n : after[i].assertion = before[i].assertion
    BY <1>4, <1>6
  <2> HIDE DEF n
  <2>4. \A i, j \in 1..(n + 1) : after[i].assertion = after[j].assertion => i = j
    <3> TAKE i, j \in 1..(n + 1)
    <3>1. i \in 1..n \/ i = n + 1
      BY <2>1
    <3>2. j \in 1..n \/ j = n + 1
      BY <2>1
    <3> QED BY <1>7, <2>2, <2>3, <3>1, <3>2 DEF n
  <2> QED BY <2>1, <2>4 DEF Injective, IsInjective
<1>10. Covers(mem)'
  BY <1>8 DEF JudgeInv, Working, Covers, SendsOf
<1>11. Earned(mem'.passes, disk.state)
  BY <1>8 DEF JudgeInv, Working
<1>12. SettledKept(mem.sends, mem'.sends) /\ IsPrefix(mem.passes, mem'.passes)
  BY <1>1, <1>8, Known, PrefixGoesOn DEF SettledKept
<1>13. pc' = "sends" /\ then' = "next" /\ then' \in Pcs \ (Lists \cup {"settle", "down"})
    /\ pc \in Pcs \ Lists /\ Working
  BY DEF Persist, Pcs, Lists, Working
<1>14. AtHand'
  BY <1>13 DEF AtHand, Aim, Lists
<1>15. IsPrefix(mem.decisions, mem'.decisions)
  BY <1>5, <1>8 DEF before
<1> QED BY <1>8, <1>9, <1>10, <1>11, <1>12, <1>13, <1>14, <1>15, Writes
-----------------------------------------------------------------------------
(* The launcher's steps.                                                   *)

LEMMA NextItemKeeps ==
  ASSUME JudgeInv, NextItem
  PROVE  JudgeInv'
<1>1. /\ pc = "next" /\ index <= Len(Inputs)
      /\ UNCHANGED <<disk, reply, version, given, offline, launches>>
  BY DEF NextItem
<1>2. pc \in Pcs \ Lists /\ Working /\ Item \in Assertions /\ index \in 1..Len(Inputs) + 1
    /\ Len(Inputs) \in Nat
  BY <1>1, Known, InputFacts DEF Pcs, Lists, Working
<1>3. CASE Decided(mem, Item) /\ index' = index + 1 /\ UNCHANGED <<mem, pc, then>>
  <2>1. index' \in 1..Len(Inputs) + 1
    BY <1>1, <1>2, <1>3
  <2>2. pc' = "next" /\ pc' \in Pcs \ (Lists \cup {"settle", "down"})
    BY <1>1, <1>3 DEF Pcs, Lists
  <2>3. AtHand'
    BY <2>2 DEF AtHand, Aim, Lists
  <2> QED BY <1>1, <1>2, <1>3, <2>1, <2>2, <2>3, Goes
<1>4. CASE ~Decided(mem, Item) /\ mem' = AppendDecision(mem, Supported, NoPass) /\ Persist("next")
    /\ UNCHANGED index
  BY <1>1, <1>4, Decides, JudgeAssumption
<1>5. CASE /\ ~Decided(mem, Item) /\ UNCHANGED <<mem, index, then>>
           /\ \/ pc' = "decide" /\ Passed(mem, Item)
              \/ pc' = "reserve"
  <2>1. pc' \in Pcs \ (Lists \cup {"settle", "down"})
    BY <1>5 DEF Pcs, Lists
  <2>2. mem' = mem /\ Item' = Item
    BY <1>5 DEF Item
  <2>3. AtHand'
    BY <1>1, <1>5, <2>2 DEF AtHand, Aim, Lists
  <2> QED BY <1>1, <1>2, <1>5, <2>1, <2>3, Goes
<1> QED BY <1>3, <1>4, <1>5 DEF NextItem

LEMMA DecideKeeps ==
  ASSUME JudgeInv, Decide
  PROVE  JudgeInv'
<1>1. pc = "decide" /\ Aim = "decide"
  BY DEF Decide, Aim, Lists
<1>2. index <= Len(Inputs) /\ ~Decided(mem, Item) /\ Passed(mem, Item)
  BY <1>1 DEF JudgeInv, AtHand
<1>3. PassOf(mem, Item) \in Range(mem.passes)
  BY <1>2 DEF Passed, PassOf
<1>4. PassOf(mem, Item) \in Pass
  BY <1>3, Known DEF Range
<1>5. PassOf(mem, Item).verdict \in Verdicts
  BY <1>4 DEF Pass
<1> QED BY <1>1, <1>2, <1>4, <1>5, Decides DEF Decide

LEMMA RecordKeeps ==
  ASSUME JudgeInv, RecordFailure
  PROVE  JudgeInv'
<1> DEFINE yes == TRUE
<1>1. /\ pc = "record" /\ mem' = [mem EXCEPT !.failures = yes] /\ pc' = "sends" /\ then' = "raise"
      /\ UNCHANGED <<disk, index, reply, version, given, offline, launches>>
  BY DEF RecordFailure, Persist
<1>2. yes \in BOOLEAN
  OBVIOUS
<1> HIDE DEF yes
<1>3. /\ mem' \in ListTypes /\ mem'.sends = mem.sends /\ mem'.passes = mem.passes
      /\ mem'.decisions = mem.decisions
  BY <1>1, <1>2, Known DEF ListTypes
<1>4. pc \in Pcs \ Lists /\ Working /\ then' \in Pcs \ (Lists \cup {"settle", "down"})
  BY <1>1 DEF Pcs, Lists, Working
<1>5. AtHand'
  BY <1>1 DEF AtHand, Aim, Lists
<1>6. Covers(mem)' /\ Earned(mem'.passes, disk.state) /\ Injective(mem'.decisions)
  BY <1>1, <1>3, <1>4 DEF JudgeInv, Covers, SendsOf
<1>7. SettledKept(mem.sends, mem'.sends) /\ IsPrefix(mem.passes, mem'.passes)
    /\ IsPrefix(mem.decisions, mem'.decisions)
  BY <1>3, Known, PrefixGoesOn DEF SettledKept
<1> QED BY <1>1, <1>3, <1>4, <1>5, <1>6, <1>7, Writes

LEMMA ReserveKeeps ==
  ASSUME JudgeInv, Reserve
  PROVE  JudgeInv'
<1>1. /\ pc = "reserve" /\ Aim = "reserve"
      /\ UNCHANGED <<disk, index, reply, version, given, offline, launches>>
  BY DEF Reserve, Aim, Lists
<1>2. index <= Len(Inputs) /\ ~Decided(mem, Item) /\ Item \in Assertions
  BY <1>1, Known DEF JudgeInv, AtHand
<1>3. pc \in Pcs \ Lists /\ Working
  BY <1>1 DEF Pcs, Lists, Working
<1>4. CASE pc' = "raise" /\ UNCHANGED <<mem, then>>
  <2>1. pc' \in Pcs \ (Lists \cup {"settle", "down"})
    BY <1>4 DEF Pcs, Lists
  <2>2. AtHand'
    BY <1>4 DEF AtHand, Aim, Lists
  <2> QED BY <1>1, <1>3, <1>4, <2>1, <2>2, Known, Goes
<1>5. CASE /\ MayRetry /\ MaySend
           /\ mem' = [mem EXCEPT !.sends = Append(mem.sends, Reservation(Item, Attempts + 1))]
           /\ Persist("judge")
  <2> DEFINE s == Reservation(Item, Attempts + 1)
             old == mem.sends
             new == Append(old, s)
             n == Len(old)
  <2>1. mem \in ListTypes /\ old \in Seq(Send) /\ n \in Nat /\ DOMAIN old = 1..n
    BY Known
  <2>2. s \in Send /\ s.assertion = Item /\ s.status = "reserved" /\ s.units = Ceiling
    <3> DEFINE k == Attempts + 1
    <3>1. k \in 1..MaxAttempts
      <4>1. Attempts \in Nat /\ Attempts < MaxAttempts
        BY <1>5, <2>1, SendsOfIs DEF Attempts, MayRetry
      <4> QED BY <4>1, JudgeAssumption
    <3> HIDE DEF k
    <3>2. Reservation(Item, k) = [assertion |-> Item, attempt |-> k, status |-> "reserved", units |-> Ceiling]
      BY DEF Reservation
    <3> QED BY <1>2, <3>1, <3>2, JudgeAssumption DEF Send, Units, k
  <2>3. /\ new \in Seq(Send) /\ Len(new) = n + 1 /\ new[n + 1] = s
        /\ \A i \in 1..n : new[i] = old[i]
        /\ DOMAIN new = 1..(n + 1)
    BY <2>1, <2>2, AppendProperties
  <2>4. mem' = [mem EXCEPT !.sends = new]
    BY <1>5
  <2>5. n < MaxSends /\ Charged(old) + Ceiling <= MaxUnits
    BY <1>5 DEF MaySend
  <2>6. Charged(new) <= MaxUnits
    BY <2>1, <2>2, <2>5, ChargedAppend DEF Cost
  <2> HIDE DEF s, new, n, old
  <2>7. /\ mem' \in ListTypes /\ mem'.sends = new /\ mem'.passes = mem.passes
        /\ mem'.decisions = mem.decisions
    BY <2>1, <2>3, <2>4 DEF ListTypes
  <2>8. Covers(mem)
    BY <1>3 DEF JudgeInv
  <2>9. Covers(mem)'
    <3>1. \A i \in 1..MaxSends : given[i] # <<>> =>
            /\ i \in 1..(n + 1) /\ i \in 1..n /\ Len(given[i]) = 1 /\ new[i] = old[i]
            /\ given[i][1].reply.units <= Ceiling => given[i][1].reply.units <= old[i].units
      BY <2>1, <2>3, <2>8 DEF Covers, old
    <3>2. n + 1 <= MaxSends
      BY <2>1, <2>5, JudgeAssumption
    <3>3. ASSUME NEW a \in Assertions PROVE Cardinality(SendsOf(mem, a)') <= MaxAttempts
      <4>1. CASE a # Item
        <5>1. SendsOf(mem, a)' = SendsOf(mem, a)
          <6>1. \A i \in 1..(n + 1) : i \in 1..n \/ i = n + 1
            BY <2>1
          <6> QED BY <2>1, <2>2, <2>3, <2>7, <4>1, <6>1 DEF SendsOf, old
        <5> QED BY <2>8, <5>1 DEF Covers
      <4>2. CASE a = Item
        <5>1. SendsOf(mem, a)' = SendsOf(mem, a) \cup {n + 1}
          <6>1. \A i \in 1..(n + 1) : i \in 1..n \/ i = n + 1
            BY <2>1
          <6> QED BY <2>1, <2>2, <2>3, <2>7, <4>2, <6>1 DEF SendsOf, old
        <5>2. /\ IsFiniteSet(SendsOf(mem, a)) /\ Cardinality(SendsOf(mem, a)) \in Nat
              /\ n + 1 \notin SendsOf(mem, a)
          BY <2>1, SendsOfIs DEF n, old
        <5>3. Cardinality(SendsOf(mem, a)') = Cardinality(SendsOf(mem, a)) + 1
          BY <5>1, <5>2, FS_AddElement
        <5>4. Cardinality(SendsOf(mem, a)) < MaxAttempts
          BY <1>5, <4>2 DEF MayRetry, Attempts
        <5> QED BY <5>2, <5>3, <5>4, JudgeAssumption
      <4> QED BY <4>1, <4>2
    <3> QED BY <1>1, <2>3, <2>6, <2>7, <3>1, <3>2, <3>3 DEF Covers
  <2>10. Earned(mem'.passes, disk.state) /\ Injective(mem'.decisions)
    BY <1>3, <2>7 DEF JudgeInv
  <2>11. SettledKept(mem.sends, mem'.sends)
    <3>1. \A i \in 1..n : i \in 1..(n + 1) /\ new[i] = old[i]
      BY <2>1, <2>3
    <3> QED BY <2>1, <2>3, <2>7, <3>1 DEF SettledKept, old
  <2>12. IsPrefix(mem.passes, mem'.passes) /\ IsPrefix(mem.decisions, mem'.decisions)
    BY <2>7, Known, PrefixGoesOn
  <2>13. pc' = "sends" /\ then' = "judge" /\ then' \in Pcs \ (Lists \cup {"settle", "down"})
    BY <1>5 DEF Persist, Pcs, Lists
  <2>14. AtHand'
    <3>1. Aim' = "judge" /\ Item' = Item
      BY <1>1, <2>13 DEF Aim, Item, Lists
    <3>2. Decided(mem', Item) <=> Decided(mem, Item)
      BY <2>7 DEF Decided
    <3>3. Open' = s /\ Len(mem'.sends) = n + 1 /\ mem'.sends # <<>>
      BY <2>1, <2>3, <2>7 DEF Open
    <3>4. given[n + 1] = <<>>
      <4>1. n + 1 \in 1..MaxSends /\ n + 1 \notin DOMAIN old
        BY <2>1, <2>5, JudgeAssumption
      <4> QED BY <2>8, <4>1 DEF Covers, old
    <3> QED BY <1>1, <1>2, <2>2, <3>1, <3>2, <3>3, <3>4 DEF AtHand
  <2> QED BY <1>1, <1>3, <2>7, <2>9, <2>10, <2>11, <2>12, <2>13, <2>14, Writes
<1> QED BY <1>4, <1>5 DEF Reserve

(* An answer more takes none back.                                         *)
LEMMA AnswersStay ==
  ASSUME JudgeInv, NEW k \in 1..MaxSends, NEW answer \in Answers,
         given' = [given EXCEPT ![k] = Append(@, answer)],
         NEW p \in Pass, NEW state, Answered(p, state)
  PROVE  Answered(p, state)'
<1>1. p.sends \in SUBSET (1..MaxSends) /\ p.sends # {} /\ MaxSends \in Nat
  BY JudgeAssumption DEF Pass, Answered
<1> DEFINE m == Max(p.sends)
<1>2. m \in 1..MaxSends
  BY <1>1, MaxIn
<1>3. given \in [1..MaxSends -> Seq(Answers)]
  BY Known
<1> HIDE DEF m
<1>4. given'[m] = given[m] \/ given'[m] = Append(given[m], answer)
  BY <1>2, <1>3
<1>5. given[m] \in Seq(Answers)
  BY <1>2, <1>3
<1>6. Range(Append(given[m], answer)) = Range(given[m]) \cup {answer}
  BY <1>5, PrefixGoesOn
<1>7. Range(given[m]) \subseteq Range(given'[m])
  BY <1>4, <1>6
<1> QED BY <1>1, <1>7 DEF Answered, m

LEMMA JudgeKeeps ==
  ASSUME JudgeInv, Judge
  PROVE  JudgeInv'
<1> DEFINE n == Len(mem.sends)
<1>1. PICK r \in Replies :
        /\ reply' = r
        /\ given' = [given EXCEPT ![n] = Append(@, [version |-> version, reply |-> r])]
  BY DEF Judge
<1>2. /\ pc = "judge" /\ pc' = "settle"
      /\ UNCHANGED <<disk, mem, index, then, version, offline, launches>>
  BY DEF Judge
<1>3. Working /\ Working' /\ Aim = "judge" /\ Aim' = "settle" /\ pc \notin Lists /\ pc' \notin Lists
  BY <1>2 DEF Working, Aim, Lists
<1>4. /\ index <= Len(Inputs) /\ ~Decided(mem, Item) /\ Item \in Assertions
      /\ mem.sends # <<>> /\ Open.assertion = Item /\ Open.status = "reserved"
      /\ Open.units = Ceiling
      /\ given[n] = <<>>
  BY <1>3, Known DEF JudgeInv, AtHand
<1>5. Covers(mem) /\ version \in Versions /\ version = disk.state
  BY <1>3 DEF JudgeInv, Typed
<1>6. n \in 1..MaxSends /\ mem.sends \in Seq(Send) /\ DOMAIN mem.sends = 1..n
  BY <1>4, <1>5, Known, JudgeAssumption DEF Covers
<1> DEFINE answer == [version |-> version, reply |-> r]
<1>7. answer \in Answers /\ answer.reply = r
  BY <1>5 DEF Answers
<1>8. given \in [1..MaxSends -> Seq(Answers)]
  BY Known
<1> HIDE DEF n
<1>9. /\ given' \in [1..MaxSends -> Seq(Answers)] /\ given'[n] = <<answer>>
      /\ \A i \in 1..MaxSends : i # n => given'[i] = given[i]
  BY <1>1, <1>4, <1>6, <1>7, <1>8
<1>10. Typed'
  <2>1. reply' \in Replies \cup {NoReply} /\ pc' \in Pcs
    BY <1>1, <1>2 DEF Pcs
  <2>2. TypeOK'
    BY <1>2, <1>9, <2>1 DEF JudgeInv, Typed, TypeOK, offline
  <2> QED BY <1>1, <1>2, <1>3, <2>2 DEF JudgeInv, Typed
<1>11. Behind'
  BY <1>2, <1>3 DEF JudgeInv, Behind
<1>12. AtHand'
  <2>1. Item' = Item /\ Open' = Open /\ Len(mem'.sends) = n
    BY <1>2 DEF Item, Open, n
  <2> QED BY <1>1, <1>2, <1>3, <1>4, <1>9, <2>1 DEF AtHand
<1>13. Covers(mem)'
  <2>1. \A i \in 1..MaxSends : given'[i] # <<>> =>
          /\ i \in DOMAIN mem.sends /\ Len(given'[i]) = 1
          /\ given'[i][1].reply.units <= Ceiling => given'[i][1].reply.units <= mem.sends[i].units
    <3> TAKE i \in 1..MaxSends
    <3>1. CASE i # n
      BY <1>5, <1>9, <3>1 DEF Covers
    <3>2. CASE i = n
      <4>1. Len(<<answer>>) = 1 /\ <<answer>>[1] = answer
        OBVIOUS
      <4>2. mem.sends[n].units = Ceiling
        BY <1>4 DEF Open, n
      <4> HIDE DEF answer
      <4>3. given'[n] = <<answer>>
        BY <1>9
      <4>4. Len(given'[i]) = 1 /\ given'[i][1] = answer
        BY <3>2, <4>1, <4>3
      <4>5. given'[i][1].reply.units <= Ceiling => given'[i][1].reply.units <= mem.sends[i].units
        BY <3>2, <4>2, <4>4
      <4> QED BY <1>6, <3>2, <4>4, <4>5
    <3> QED BY <3>1, <3>2
  <2> QED BY <1>2, <1>5, <2>1 DEF Covers, SendsOf
<1>14. disk.lists.sends = mem.sends
  BY <1>3 DEF JudgeInv, Behind, Lists
<1>15. Covers(disk.lists)'
  BY <1>2, <1>13, <1>14 DEF Covers, SendsOf
<1>16. ASSUME NEW passes \in Seq(Pass), NEW state, Earned(passes, state)
       PROVE  Earned(passes, state)'
  <2>1. given' = [given EXCEPT ![n] = Append(@, answer)]
    BY <1>1
  <2>2. \A p \in Range(passes) : p \in Pass /\ Answered(p, state)
    BY <1>16 DEF Range, Earned
  <2> QED BY <1>6, <1>7, <2>1, <2>2, AnswersStay DEF Earned
<1>17. /\ Earned(disk.lists.passes, disk.state)' /\ Earned(mem.passes, disk.state)'
       /\ Injective(disk.lists.decisions)' /\ Injective(mem.decisions)'
  <2>1. Earned(disk.lists.passes, disk.state) /\ Earned(mem.passes, disk.state)
    BY <1>3 DEF JudgeInv
  <2> DEFINE a == disk.lists.passes
             b == mem.passes
             s == disk.state
  <2>2. a \in Seq(Pass) /\ b \in Seq(Pass) /\ a' = a /\ b' = b /\ s' = s /\ Earned(a, s)
      /\ Earned(b, s)
    BY <1>2, <2>1, Known
  <2> HIDE DEF a, b, s
  <2>3. \A p \in Range(a) : Answered(p, s)'
    BY <1>16, <2>2 DEF Earned
  <2>4. \A p \in Range(b) : Answered(p, s)'
    BY <1>16, <2>2 DEF Earned
  <2>5. Earned(a, s)' /\ Earned(b, s)'
    BY <2>2, <2>3, <2>4 DEF Earned
  <2>6. Injective(disk.lists.decisions)' /\ Injective(mem.decisions)'
    BY <1>2, <1>3 DEF JudgeInv
  <2> QED BY <2>5, <2>6 DEF a, b, s
<1>18. Range(disk.lists.decisions) \subseteq Range(mem.decisions)
  <2>1. IsPrefix(disk.lists.decisions, mem.decisions)
    BY <1>3 DEF JudgeInv, Behind
  <2> QED BY <2>1, Known, PrefixGoesOn
<1>19. ASSUME NEW files \in FileTypes, files' = files, Fits(files) PROVE Fits(files)'
  <2>1. files.lists.passes \in Seq(Pass)
    BY <1>19 DEF FileTypes, ListTypes
  <2> DEFINE a == files.lists.passes
             s == files.state
  <2>2. Earned(a, s)
    BY <1>19 DEF Fits
  <2>3. Earned(a, s)'
    <3>1. a' = a /\ s' = s
      BY <1>19
    <3> HIDE DEF a, s
    <3>2. \A p \in Range(a) : Answered(p, s)'
      BY <1>16, <2>1, <2>2 DEF Earned, a
    <3> QED BY <3>1, <3>2 DEF Earned
  <2>4. {d.assertion : d \in Range(files.lists.decisions)} # Assertions
    BY <1>4, <1>18, <1>19 DEF Fits, Decided
  <2>5. Range(files.lists.decisions) \subseteq Range(disk.lists.decisions)
    BY <1>19 DEF Fits
  <2> QED BY <1>2, <1>19, <2>3, <2>4, <2>5 DEF Fits
<1>20. Fits(prepared)'
  <2>1. prepared \in FileTypes /\ Fits(prepared) /\ prepared' = prepared
    BY <1>2, Known DEF JudgeInv, offline
  <2> QED BY <1>19, <2>1
<1>21. Fits(package.files)'
  <2>1. package.files \in FileTypes /\ Fits(package.files) /\ package'.files = package.files
    BY <1>2, Known DEF JudgeInv, offline
  <2> QED BY <1>19, <2>1
<1>22. package'.stage = "sealed" => package'.manifest = package'.files /\ Validates(package'.files)
  BY <1>2 DEF JudgeInv, offline
<1> QED BY <1>3, <1>10, <1>11, <1>12, <1>13, <1>15, <1>17, <1>20, <1>21, <1>22 DEF JudgeInv
-----------------------------------------------------------------------------
(* Settling the last send.                                                 *)

NotNone(lists) == lists.sends # <<>>
OnlySends(lists, to) ==
  to \in ListTypes /\ to.passes = lists.passes /\ to.decisions = lists.decisions
Ends == {"reserved", "succeeded", "failed"}
IsMarked(lists, status, units, n, m) ==
  n = Len(lists.sends) /\ m = Marked(lists, status, units)

LEMMA MarkedIs ==
  ASSUME NEW lists, NEW status, NEW units, NEW last, NEW marked,
         IsMarked(lists, status, units, last, marked),
         lists \in ListTypes, NotNone(lists), status \in Ends, units \in Units
  PROVE  /\ OnlySends(lists, marked)
         /\ last \in 1..last /\ Len(marked.sends) = last
         /\ marked.sends[last] \in Send
         /\ marked.sends[last].assertion = lists.sends[last].assertion
         /\ marked.sends[last].status = status /\ marked.sends[last].units = units
         /\ marked.sends = [lists.sends EXCEPT ![last] = marked.sends[last]]
         /\ \A i \in 1..last : i # last => marked.sends[i] = lists.sends[i]
<1> DEFINE old == lists.sends
           k == [old[last] EXCEPT !.status = status, !.units = units]
           new == [old EXCEPT ![last] = k]
<1>0. last = Len(lists.sends) /\ marked = Marked(lists, status, units)
  BY DEF IsMarked
<1>1. old \in Seq(Send) /\ last = Len(old) /\ last \in Nat /\ last \in 1..last
    /\ DOMAIN old = 1..last
  BY <1>0 DEF ListTypes, NotNone
<1>2. old[last] \in Send
  BY <1>1
<1>3. k \in Send /\ k.assertion = old[last].assertion /\ k.status = status /\ k.units = units
  BY <1>2 DEF Send, Ends
<1>4. marked = [lists EXCEPT !.sends = new]
  <2>1. lists = [sends |-> lists.sends, passes |-> lists.passes, decisions |-> lists.decisions,
                 failures |-> lists.failures]
    BY DEF ListTypes
  <2> QED BY <1>0, <1>1, <1>2, <2>1 DEF Marked, Send
<1> HIDE DEF k
<1>5. /\ new \in Seq(Send) /\ Len(new) = last /\ new[last] = k
      /\ \A i \in 1..last : i # last => new[i] = old[i]
  BY <1>1, <1>3
<1> HIDE DEF new
<1>6. marked \in ListTypes /\ marked.passes = lists.passes /\ marked.decisions = lists.decisions
    /\ marked.sends = new
  BY <1>4, <1>5 DEF ListTypes
<1> QED BY <1>1, <1>3, <1>5, <1>6 DEF new, OnlySends

LEMMA MarkedTyped ==
  ASSUME NEW lists \in ListTypes, lists.sends # <<>>,
         NEW status \in Ends, NEW units \in Units
  PROVE  /\ Marked(lists, status, units) \in ListTypes
         /\ Marked(lists, status, units).passes = lists.passes
         /\ Marked(lists, status, units).decisions = lists.decisions
<1>1. IsMarked(lists, status, units, Len(lists.sends), Marked(lists, status, units))
    /\ NotNone(lists)
  BY DEF IsMarked, NotNone
<1>2. OnlySends(lists, Marked(lists, status, units))
  BY <1>1, MarkedIs
<1> QED BY <1>2 DEF OnlySends

LEMMA SettlingKeeps ==
  ASSUME JudgeInv, pc = "settle", given' = given,
         NEW status \in Ends, NEW units \in Units,
         reply.units <= Ceiling => reply.units <= units,
         mem'.sends = Marked(mem, status, units).sends
  PROVE  /\ Covers(mem)' /\ SettledKept(mem.sends, mem'.sends)
         /\ SendsOf(mem, Item) \in SUBSET (1..MaxSends)
         /\ Len(mem.sends) \in SendsOf(mem, Item)
         /\ \A i \in SendsOf(mem, Item) : i <= Len(mem.sends)
         /\ given[Len(mem.sends)] = <<[version |-> version, reply |-> reply]>>
<1> DEFINE n == Len(mem.sends)
           old == mem.sends
           new == mem'.sends
<1>1. /\ Aim = "settle" /\ Working /\ mem \in ListTypes /\ old \in Seq(Send) /\ n = Len(old)
      /\ old = mem.sends
      /\ Item \in Assertions
  BY Known DEF JudgeInv, AtHand, Aim, Lists, Working
<1>2. /\ mem.sends # <<>> /\ old[n].assertion = Item /\ old[n].status = "reserved"
      /\ old[n].units = Ceiling
      /\ given[n] = <<[version |-> version, reply |-> reply]>>
  BY <1>1 DEF JudgeInv, AtHand, Open
<1>3. Covers(mem)
  BY <1>1 DEF JudgeInv
<1>4. /\ n \in Nat /\ n \in 1..n /\ DOMAIN old = 1..n /\ n \in 1..MaxSends /\ n <= MaxSends
  BY <1>1, <1>2, <1>3, JudgeAssumption DEF Covers
<1> HIDE DEF n, old
<1>5. /\ Len(new) = n /\ new[n] \in Send /\ new[n].assertion = old[n].assertion
      /\ new[n].units = units
      /\ new = [old EXCEPT ![n] = new[n]]
      /\ \A i \in 1..n : i # n => new[i] = old[i]
  <2> DEFINE m == Marked(mem, status, units)
  <2>1. new = m.sends /\ IsMarked(mem, status, units, n, m) /\ NotNone(mem)
    BY <1>2 DEF n, IsMarked, NotNone
  <2> HIDE DEF m, new
  <2> QED BY <1>1, <1>2, <2>1, MarkedIs
<1>6. DOMAIN new = 1..n /\ new \in Seq(Send)
  BY <1>1, <1>4, <1>5
<1> HIDE DEF new
<1>7. Charged(new) <= MaxUnits
  <2>1. Charged(new) = Charged(old) - Ceiling + units
    <3> DEFINE s == new[n]
    <3>1. s \in Send /\ s.units = units /\ new = [old EXCEPT ![n] = s] /\ n \in 1..Len(old)
      BY <1>1, <1>4, <1>5
    <3> HIDE DEF s
    <3>2. Charged(new) = Charged(old) - Cost(old[n]) + Cost(s)
      BY <1>1, <3>1, ChargedExcept
    <3> QED BY <1>2, <3>1, <3>2 DEF Cost
  <2>2. Charged(old) \in Nat /\ Charged(old) <= MaxUnits
    BY <1>1, <1>3, ChargedTyped DEF Covers
  <2>3. units <= Ceiling /\ units \in Nat
    BY JudgeAssumption DEF Units
  <2> QED BY <2>1, <2>2, <2>3, JudgeAssumption
<1>8. \A a : SendsOf(mem, a)' = SendsOf(mem, a)
  BY <1>1, <1>2, <1>4, <1>5, <1>6 DEF SendsOf, new, old
<1>9. \A i \in 1..MaxSends : given[i] # <<>> =>
        /\ i \in DOMAIN new /\ Len(given[i]) = 1
        /\ given[i][1].reply.units <= Ceiling => given[i][1].reply.units <= new[i].units
  <2> TAKE i \in 1..MaxSends
  <2>1. CASE i # n
    BY <1>1, <1>3, <1>4, <1>5, <1>6, <2>1 DEF Covers
  <2>2. CASE i = n
    <3> DEFINE answer == [version |-> version, reply |-> reply]
    <3>1. answer.reply = reply /\ given[n] = <<answer>>
      BY <1>2
    <3> HIDE DEF answer
    <3>2. Len(given[n]) = 1 /\ given[n][1] = answer
      BY <3>1
    <3>3. given[n][1].reply.units <= Ceiling => given[n][1].reply.units <= new[n].units
      BY <1>5, <3>1, <3>2
    <3> QED BY <1>4, <1>6, <2>2, <3>2, <3>3
  <2> QED BY <2>1, <2>2
<1>10. Covers(mem)'
  <2>1. \A a \in Assertions : Cardinality(SendsOf(mem, a)') <= MaxAttempts
    BY <1>3, <1>8 DEF Covers
  <2>2. new = mem'.sends
    BY DEF new
  <2> QED BY <1>4, <1>5, <1>7, <1>9, <2>1, <2>2 DEF Covers
<1>11. SettledKept(mem.sends, mem'.sends)
  BY <1>1, <1>2, <1>4, <1>5, <1>6 DEF SettledKept, new, old
<1>12. SendsOf(mem, Item) \subseteq 1..n /\ n \in SendsOf(mem, Item)
  BY <1>1, <1>2, <1>4 DEF SendsOf
<1>13. SendsOf(mem, Item) \in SUBSET (1..MaxSends) /\ \A i \in SendsOf(mem, Item) : i <= n
  BY <1>4, <1>12, JudgeAssumption
<1> QED BY <1>2, <1>10, <1>11, <1>12, <1>13 DEF n

LEMMA SettleKeeps ==
  ASSUME JudgeInv, Settle
  PROVE  JudgeInv'
<1>1. /\ pc = "settle" /\ reply' = NoReply
      /\ UNCHANGED <<disk, index, version, given, offline, launches>>
  BY DEF Settle
<1>2. /\ pc \in Pcs \ Lists /\ Working /\ Aim = "settle" /\ reply \in Replies
      /\ version = disk.state /\ Ceiling \in Units
  BY <1>1, JudgeAssumption DEF Pcs, Lists, Working, Aim, JudgeInv, Typed, Units
<1>3. index <= Len(Inputs) /\ ~Decided(mem, Item) /\ mem.sends # <<>> /\ Item' = Item
    /\ Item \in Assertions
  BY <1>1, <1>2, Known DEF JudgeInv, AtHand, Item
<1>4. Earned(mem.passes, disk.state) /\ Injective(mem.decisions)
  BY <1>2 DEF JudgeInv
<1>5. CASE /\ mem' = Marked(mem, "failed", Ceiling)
           /\ \/ Persist("reserve")
              \/ Persist("record")
  <2>1. /\ mem' \in ListTypes /\ mem'.passes = mem.passes /\ mem'.decisions = mem.decisions
        /\ mem'.sends = Marked(mem, "failed", Ceiling).sends
    <3> DEFINE m == Marked(mem, "failed", Ceiling)
               n == Len(mem.sends)
               status == "failed"
    <3>1. m = Marked(mem, status, Ceiling) /\ n = Len(mem.sends) /\ mem' = m /\ mem \in ListTypes
          /\ status \in Ends /\ mem.sends # <<>> /\ Ceiling \in Units
      BY <1>2, <1>3, <1>5, Known DEF Ends
    <3> HIDE DEF m, n, status
    <3>2. m \in ListTypes /\ m.passes = mem.passes /\ m.decisions = mem.decisions
      BY <3>1, MarkedTyped
    <3> QED BY <3>1, <3>2 DEF m, status
  <2>2. reply.units <= Ceiling => reply.units <= Ceiling
    OBVIOUS
  <2>3. Covers(mem)' /\ SettledKept(mem.sends, mem'.sends)
    <3> DEFINE status == "failed"
    <3>1. status \in Ends /\ mem'.sends = Marked(mem, status, Ceiling).sends
      BY <2>1 DEF Ends
    <3> HIDE DEF status
    <3> QED BY <1>1, <1>2, <2>2, <3>1, SettlingKeeps
  <2>4. pc' = "sends" /\ then' \in {"reserve", "record"}
      /\ then' \in Pcs \ (Lists \cup {"settle", "down"})
    BY <1>5 DEF Persist, Pcs, Lists
  <2>5. AtHand'
    BY <1>1, <1>3, <2>1, <2>4 DEF AtHand, Aim, Lists, Decided
  <2>6. IsPrefix(mem.passes, mem'.passes) /\ IsPrefix(mem.decisions, mem'.decisions)
    BY <2>1, Known, PrefixGoesOn
  <2>7. Earned(mem'.passes, disk.state) /\ Injective(mem'.decisions)
    BY <1>4, <2>1
  <2> QED BY <1>1, <1>2, <2>1, <2>3, <2>4, <2>5, <2>6, <2>7, Writes
<1>6. CASE /\ reply.kind = "answer"
           /\ mem' = [Marked(mem, "succeeded", reply.units) EXCEPT !.passes = Append(@, BoughtPass)]
           /\ Persist("decide")
  <2> DEFINE m == Marked(mem, "succeeded", reply.units)
             n == Len(mem.sends)
             p == BoughtPass
  <2>1. reply.verdict \in Verdicts /\ reply.units \in Units
    BY <1>2, <1>6, JudgeAssumption DEF Replies, Units
  <2>2. m \in ListTypes /\ m.passes = mem.passes /\ m.decisions = mem.decisions
    <3> DEFINE status == "succeeded"
               units == reply.units
               k == n
    <3>1. m = Marked(mem, status, units) /\ k = Len(mem.sends) /\ mem \in ListTypes
          /\ status \in Ends /\ units \in Units
          /\ mem.sends # <<>>
      BY <1>3, <2>1, Known DEF Ends
    <3> HIDE DEF m, k, status, units
    <3> QED BY <3>1, MarkedTyped
  <2>3. mem' = [m EXCEPT !.passes = Append(m.passes, p)]
    BY <1>6
  <2>4. m.sends = Marked(mem, "succeeded", reply.units).sends
    OBVIOUS
  <2> HIDE DEF m, p
  <2>5. /\ mem'.sends = m.sends /\ mem'.decisions = mem.decisions
        /\ mem'.passes = Append(mem.passes, p)
    BY <2>2, <2>3 DEF ListTypes
  <2>6. /\ Covers(mem)' /\ SettledKept(mem.sends, mem'.sends)
        /\ SendsOf(mem, Item) \in SUBSET (1..MaxSends)
        /\ n \in SendsOf(mem, Item) /\ \A i \in SendsOf(mem, Item) : i <= n
        /\ given[n] = <<[version |-> version, reply |-> reply]>>
    <3> DEFINE status == "succeeded"
    <3>1. status \in Ends /\ mem'.sends = Marked(mem, status, reply.units).sends
      BY <2>4, <2>5 DEF Ends
    <3> HIDE DEF status
    <3>2. reply.units <= Ceiling => reply.units <= reply.units
      BY <2>1, JudgeAssumption DEF Units
    <3> QED BY <1>1, <2>1, <3>1, <3>2, SettlingKeeps
  <2>7. /\ p \in Pass /\ p.assertion = Item /\ p.verdict = reply.verdict
        /\ p.sends = SendsOf(mem, Item)
    <3> DEFINE s == SendsOf(mem, Item)
    <3>1. p = [assertion |-> Item, verdict |-> reply.verdict, units |-> reply.units, sends |-> s]
      BY DEF p, BoughtPass
    <3>2. s \in SUBSET (1..MaxSends)
      BY <2>6
    <3> HIDE DEF s
    <3>3. p \in Pass /\ p.assertion = Item /\ p.verdict = reply.verdict /\ p.sends = s
      BY <1>3, <2>1, <3>1, <3>2 DEF Pass
    <3> QED BY <3>3 DEF s
  <2>8. mem' \in ListTypes
    <3>1. Append(m.passes, p) \in Seq(Pass)
      BY <2>2, <2>7 DEF ListTypes
    <3> QED BY <2>2, <2>3, <3>1 DEF ListTypes
  <2>9. Answered(p, disk.state)
    <3>1. Max(SendsOf(mem, Item)) = n
      <4>1. MaxSends \in Nat /\ SendsOf(mem, Item) # {}
        BY <2>6, JudgeAssumption
      <4>2. /\ Max(SendsOf(mem, Item)) \in SendsOf(mem, Item)
            /\ \A j \in SendsOf(mem, Item) : j <= Max(SendsOf(mem, Item))
        BY <2>6, <4>1, MaxIn
      <4> DEFINE x == Max(SendsOf(mem, Item))
      <4>3. x \in 1..MaxSends /\ x <= n /\ n <= x /\ n \in 1..MaxSends
        BY <2>6, <4>2
      <4> HIDE DEF x, n
      <4>4. x = n
        BY <4>3
      <4> QED BY <4>4 DEF x
    <3> DEFINE answer == [version |-> version, reply |-> reply]
    <3>2. answer.reply = reply /\ answer.version = version /\ given[n] = <<answer>>
      BY <2>6
    <3> HIDE DEF answer, n
    <3>3. answer \in Range(given[n])
      <4>1. 1 \in DOMAIN <<answer>> /\ <<answer>>[1] = answer
        OBVIOUS
      <4> QED BY <3>2, <4>1 DEF Range
    <3> QED BY <1>2, <2>6, <2>7, <3>1, <3>2, <3>3 DEF Answered
  <2>10. Range(mem'.passes) = Range(mem.passes) \cup {p} /\ IsPrefix(mem.passes, mem'.passes)
    BY <2>5, <2>7, Known, PrefixGoesOn
  <2>11. Earned(mem'.passes, disk.state) /\ Injective(mem'.decisions)
    BY <1>4, <2>5, <2>9, <2>10 DEF Earned
  <2>12. pc' = "sends" /\ then' = "decide" /\ then' \in Pcs \ (Lists \cup {"settle", "down"})
    BY <1>6 DEF Persist, Pcs, Lists
  <2>13. AtHand'
    <3>1. Aim' = "decide"
      BY <2>12 DEF Aim, Lists
    <3>2. Passed(mem', Item)
      BY <2>7, <2>10 DEF Passed
    <3>3. ~Decided(mem', Item)
      BY <1>3, <2>5 DEF Decided
    <3> QED BY <1>1, <1>3, <3>1, <3>2, <3>3 DEF AtHand
  <2>14. IsPrefix(mem.decisions, mem'.decisions)
    BY <2>5, Known, PrefixGoesOn
  <2> QED BY <1>1, <1>2, <2>6, <2>8, <2>10, <2>11, <2>12, <2>13, <2>14, Writes
<1> QED BY <1>5, <1>6 DEF Settle
-----------------------------------------------------------------------------
(* Writing the lists.                                                      *)

LEMMA AfterIs ==
  /\ After("sends") = "passes" /\ After("passes") = "decisions"
  /\ After("decisions") = "failures" /\ After("failures") = then
<1>1. /\ DOMAIN Order = 1..4
      /\ Order[1] = "sends" /\ Order[2] = "passes" /\ Order[3] = "decisions"
      /\ Order[4] = "failures"
  BY DEF Order
<1>2. (CHOOSE i \in DOMAIN Order : Order[i] = "sends") = 1
  BY <1>1
<1>3. (CHOOSE i \in DOMAIN Order : Order[i] = "passes") = 2
  BY <1>1
<1>4. (CHOOSE i \in DOMAIN Order : Order[i] = "decisions") = 3
  BY <1>1
<1> QED BY <1>1, <1>2, <1>3, <1>4 DEF After

LEMMA WrittenIs ==
  ASSUME JudgeInv, Write
  PROVE  /\ disk' \in FileTypes /\ disk'.state = disk.state
         /\ disk'.lists.sends = IF pc = "sends" THEN mem.sends ELSE disk.lists.sends
         /\ disk'.lists.passes = IF pc = "passes" THEN mem.passes ELSE disk.lists.passes
         /\ disk'.lists.decisions = IF pc = "decisions" THEN mem.decisions ELSE disk.lists.decisions
<1> DEFINE old == disk.lists
           new == [old EXCEPT ![pc] = mem[pc]]
<1>1. pc \in Lists /\ disk \in FileTypes /\ mem \in ListTypes /\ old \in ListTypes
  BY Known DEF Write
<1>2. disk' = [disk EXCEPT !.lists = new]
  BY DEF Write
<1>3. /\ new \in ListTypes
      /\ new.sends = IF pc = "sends" THEN mem.sends ELSE old.sends
      /\ new.passes = IF pc = "passes" THEN mem.passes ELSE old.passes
      /\ new.decisions = IF pc = "decisions" THEN mem.decisions ELSE old.decisions
  <2> HIDE DEF old
  <2>1. CASE pc = "sends"
    <3>1. new = [old EXCEPT !.sends = mem.sends]
      BY <2>1
    <3> QED BY <1>1, <2>1, <3>1 DEF ListTypes
  <2>2. CASE pc = "passes"
    <3>1. new = [old EXCEPT !.passes = mem.passes]
      BY <2>2
    <3> QED BY <1>1, <2>2, <3>1 DEF ListTypes
  <2>3. CASE pc = "decisions"
    <3>1. new = [old EXCEPT !.decisions = mem.decisions]
      BY <2>3
    <3> QED BY <1>1, <2>3, <3>1 DEF ListTypes
  <2>4. CASE pc = "failures"
    <3>1. new = [old EXCEPT !.failures = mem.failures]
      BY <2>4
    <3> QED BY <1>1, <2>4, <3>1 DEF ListTypes
  <2> QED BY <1>1, <2>1, <2>2, <2>3, <2>4 DEF Lists
<1> HIDE DEF new
<1>4. disk' \in FileTypes /\ disk'.state = disk.state /\ disk'.lists = new
  BY <1>1, <1>2, <1>3 DEF FileTypes
<1> QED BY <1>3, <1>4

LEMMA WriteKeeps ==
  ASSUME JudgeInv, Write
  PROVE  JudgeInv'
<1>1. /\ pc \in Lists /\ pc' = After(pc) /\ then' = IF pc = "failures" THEN None ELSE then
      /\ UNCHANGED <<mem, index, reply, version, given, offline, launches>>
  BY DEF Write
<1>2. /\ Working /\ then \in Pcs \ (Lists \cup {"settle", "down"}) /\ version \in Versions
      /\ version = disk.state /\ disk.state # None
  BY <1>1, JudgeAssumption DEF JudgeInv, Typed, Working, Lists
<1>3. /\ pc = "sends" => pc' = "passes" /\ then' = then
      /\ pc = "passes" => pc' = "decisions" /\ then' = then
      /\ pc = "decisions" => pc' = "failures" /\ then' = then
      /\ pc = "failures" => pc' = then /\ then' = None
  BY <1>1, AfterIs
<1>4. pc \in {"sends", "passes", "decisions", "failures"}
  BY <1>1 DEF Lists
<1>5. /\ pc' \in Pcs /\ pc' # "settle" /\ Working'
      /\ pc' \in Lists => then' = then /\ pc # "failures"
      /\ pc' \notin Lists => pc = "failures" /\ pc' = then
      /\ Aim' = Aim
  BY <1>1, <1>2, <1>3, <1>4 DEF Pcs, Lists, Working, Aim
<1>6. /\ disk' \in FileTypes /\ disk'.state = disk.state
      /\ disk'.lists.sends = IF pc = "sends" THEN mem.sends ELSE disk.lists.sends
      /\ disk'.lists.passes = IF pc = "passes" THEN mem.passes ELSE disk.lists.passes
      /\ disk'.lists.decisions = IF pc = "decisions" THEN mem.decisions ELSE disk.lists.decisions
  BY WrittenIs
<1>7. Typed'
  <2>1. then' \in Pcs \cup {None}
    BY <1>1, <1>2
  <2>2. TypeOK'
    BY <1>1, <1>5, <1>6, <2>1 DEF JudgeInv, Typed, TypeOK, offline
  <2> QED BY <1>1, <1>2, <1>5, <1>6, <2>2 DEF Typed
<1>8. Behind'
  <2>1. Behind
    BY DEF JudgeInv
  <2>2. \A s : SettledKept(s, s)
    BY DEF SettledKept
  <2>3. IsPrefix(mem.passes, mem.passes) /\ IsPrefix(mem.decisions, mem.decisions)
    BY Known, PrefixGoesOn
  <2>4. /\ disk'.lists.sends = mem.sends
        /\ pc # "sends" => disk'.lists.passes = mem.passes
        /\ pc \notin {"sends", "passes"} => disk'.lists.decisions = mem.decisions
    BY <1>2, <1>6, <2>1 DEF Behind
  <2>5. IsPrefix(disk'.lists.passes, mem.passes) /\ IsPrefix(disk'.lists.decisions, mem.decisions)
    BY <1>2, <1>6, <2>1, <2>3 DEF Behind
  <2>6. /\ pc' # "sends" \/ pc = "failures"
        /\ pc' \notin {"sends", "passes"} => pc # "sends"
        /\ pc' \notin {"sends", "passes", "decisions"} => pc \notin {"sends", "passes"}
    BY <1>3, <1>4
  <2>7. mem' = mem
    BY <1>1
  <2> QED BY <2>2, <2>4, <2>5, <2>6, <2>7 DEF Behind
<1>9. AtHand'
  <2>1. Item' = Item /\ Open' = Open /\ Len(mem'.sends) = Len(mem.sends)
    BY <1>1 DEF Item, Open
  <2> QED BY <1>1, <1>5, <2>1 DEF JudgeInv, AtHand
<1>10. Covers(mem) /\ Earned(mem.passes, disk.state) /\ Injective(mem.decisions)
  BY <1>2 DEF JudgeInv
<1>11. Covers(mem)' /\ Earned(mem.passes, disk.state)' /\ Injective(mem.decisions)'
  BY <1>1, <1>6, <1>10 DEF Covers, SendsOf, Earned, Answered
<1>12. Covers(disk.lists)'
  <2>1. CASE pc = "sends"
    BY <1>1, <1>6, <1>10, <2>1 DEF Covers, SendsOf
  <2>2. CASE pc # "sends"
    BY <1>1, <1>6, <2>2 DEF JudgeInv, Covers, SendsOf
  <2> QED BY <2>1, <2>2
<1>13. Earned(disk.lists.passes, disk.state)'
  BY <1>1, <1>6, <1>10 DEF JudgeInv, Earned, Answered
<1>14. Injective(disk.lists.decisions)'
  BY <1>6, <1>10 DEF JudgeInv
<1>15. Range(disk.lists.decisions) \subseteq Range(disk'.lists.decisions)
  <2>1. IsPrefix(disk.lists.decisions, mem.decisions)
    BY <1>2 DEF JudgeInv, Behind
  <2>2. Range(disk.lists.decisions) \subseteq Range(mem.decisions)
    BY <2>1, Known, PrefixGoesOn
  <2> QED BY <1>6, <2>2
<1>16. /\ Fits(prepared)' /\ Fits(package.files)'
       /\ package'.stage = "sealed" =>
            package'.manifest = package'.files /\ Validates(package'.files)
  BY <1>1, <1>15, CopiesKept
<1> QED BY <1>7, <1>8, <1>9, <1>11, <1>12, <1>13, <1>14, <1>16 DEF JudgeInv
-----------------------------------------------------------------------------
(* Launching, and what the operator does while no launcher runs.           *)

LEMMA LaunchKeeps ==
  ASSUME JudgeInv, Launch
  PROVE  JudgeInv'
<1>1. PICK v \in Versions \cup {Torn} :
        /\ Frozen(v) /\ Resumes(v) /\ version' = v
        /\ IF disk.state = None
           THEN disk' = [disk EXCEPT !.state = v] /\ pc' = "create"
           ELSE pc' = "next" /\ disk' = disk
  BY DEF Launch
<1>2. /\ pc = "down" /\ launches < MaxLaunches /\ mem' = disk.lists /\ index' = 1
      /\ launches' = launches + 1 /\ UNCHANGED <<then, reply, given, offline>>
  BY DEF Launch
<1>3. v \in Versions /\ v # None /\ disk.state \in {None, v}
  BY <1>1, JudgeAssumption DEF Frozen, Resumes
<1>4. disk' \in FileTypes /\ disk'.state = v /\ disk'.lists = disk.lists
  <2>1. disk \in FileTypes /\ v \in Versions
    BY <1>3, Known
  <2>2. CASE disk' = [disk EXCEPT !.state = v]
    BY <2>1, <2>2 DEF FileTypes
  <2>3. CASE disk' = disk /\ disk.state = v
    BY <2>1, <2>3
  <2> QED BY <1>1, <1>3, <2>2, <2>3
<1>5. Working' /\ pc' \in {"create", "next"} /\ pc' \in Pcs /\ pc' \notin Lists /\ Aim' = pc'
  BY <1>1 DEF Working, Pcs, Lists, Aim
<1>6. Typed'
  <2>1. index' \in 1..Len(Inputs) + 1 /\ launches' \in 0..MaxLaunches
    BY <1>2, Known, InputFacts, JudgeAssumption
  <2>2. mem' \in ListTypes
    BY <1>2, Known
  <2>3. TypeOK'
    BY <1>1, <1>2, <1>3, <1>4, <1>5, <2>1, <2>2 DEF JudgeInv, Typed, TypeOK, offline
  <2> QED BY <1>1, <1>3, <1>4, <1>5, <2>3 DEF Typed
<1>7. Behind'
  <2>1. SettledKept(disk.lists.sends, disk.lists.sends)
    BY DEF SettledKept
  <2>2. IsPrefix(disk.lists.passes, disk.lists.passes)
      /\ IsPrefix(disk.lists.decisions, disk.lists.decisions)
    BY Known, PrefixGoesOn
  <2> QED BY <1>2, <1>4, <2>1, <2>2 DEF Behind
<1>8. AtHand'
  BY <1>5 DEF AtHand
<1>9. Covers(disk.lists) /\ Injective(disk.lists.decisions)
  BY DEF JudgeInv
<1>10. Covers(disk.lists)' /\ Covers(mem)' /\ Injective(disk.lists.decisions)'
    /\ Injective(mem.decisions)'
  BY <1>2, <1>4, <1>9 DEF Covers, SendsOf
<1>11. Earned(disk.lists.passes, v)
  <2>1. CASE disk.state = v
    BY <2>1 DEF JudgeInv
  <2>2. CASE disk.state = None
    BY <2>2, EmptyTyped, EmptyFits DEF JudgeInv, Typed
  <2> QED BY <1>3, <2>1, <2>2
<1>12. Earned(disk.lists.passes, disk.state)' /\ Earned(mem.passes, disk.state)'
  BY <1>2, <1>4, <1>11 DEF Earned, Answered
<1>13. /\ Fits(prepared)' /\ Fits(package.files)'
       /\ package'.stage = "sealed" =>
            package'.manifest = package'.files /\ Validates(package'.files)
  BY <1>2, <1>4, CopiesKept
<1> QED BY <1>6, <1>7, <1>8, <1>10, <1>12, <1>13 DEF JudgeInv

LEMMA CreateKeeps ==
  ASSUME JudgeInv, Create
  PROVE  JudgeInv'
<1> DEFINE yes == TRUE
<1>1. /\ pc = "create" /\ pc' = "next" /\ disk' = [disk EXCEPT !.authority = yes]
      /\ UNCHANGED <<mem, index, then, reply, version, given, offline, launches>>
  BY DEF Create
<1>2. yes \in BOOLEAN
  OBVIOUS
<1> HIDE DEF yes
<1>3. disk' \in FileTypes /\ disk'.state = disk.state /\ disk'.lists = disk.lists
  BY <1>1, <1>2, Known DEF FileTypes
<1>4. Working /\ Working' /\ pc' \in Pcs /\ pc' \notin Lists /\ Aim' = "next"
  BY <1>1 DEF Working, Pcs, Lists, Aim
<1>5. Typed'
  <2>1. TypeOK'
    BY <1>1, <1>3, <1>4 DEF JudgeInv, Typed, TypeOK, offline
  <2>2. version \in Versions /\ version = disk.state /\ disk.state # None
    BY <1>4, JudgeAssumption DEF JudgeInv, Typed
  <2> QED BY <1>1, <1>3, <1>4, <2>1, <2>2 DEF Typed
<1>6. Behind'
  <2>1. /\ disk.lists.sends = mem.sends /\ disk.lists.passes = mem.passes
        /\ disk.lists.decisions = mem.decisions
        /\ SettledKept(disk.lists.sends, mem.sends)
        /\ IsPrefix(disk.lists.passes, mem.passes) /\ IsPrefix(disk.lists.decisions, mem.decisions)
    BY <1>1, <1>4 DEF JudgeInv, Behind
  <2> QED BY <1>1, <1>3, <2>1 DEF Behind
<1>7. AtHand'
  BY <1>4 DEF AtHand
<1>8. /\ Covers(disk.lists) /\ Covers(mem) /\ Earned(disk.lists.passes, disk.state)
      /\ Earned(mem.passes, disk.state) /\ Injective(disk.lists.decisions)
      /\ Injective(mem.decisions)
  BY <1>4 DEF JudgeInv
<1>9. /\ Covers(disk.lists)' /\ Covers(mem)' /\ Earned(disk.lists.passes, disk.state)'
      /\ Earned(mem.passes, disk.state)' /\ Injective(disk.lists.decisions)'
      /\ Injective(mem.decisions)'
  BY <1>1, <1>3, <1>8 DEF Covers, SendsOf, Earned, Answered
<1>10. /\ Fits(prepared)' /\ Fits(package.files)'
       /\ package'.stage = "sealed" =>
            package'.manifest = package'.files /\ Validates(package'.files)
  BY <1>1, <1>3, CopiesKept
<1> QED BY <1>5, <1>6, <1>7, <1>9, <1>10 DEF JudgeInv

LEMMA OfflineKeeps ==
  ASSUME JudgeInv, UNCHANGED running, prepared' \in FileTypes,
         package' \in [stage : {"absent", "scored", "copied", "sealed"},
                       files : FileTypes, manifest : FileTypes],
         Fits(prepared'), Fits(package'.files),
         package'.stage = "sealed" => package'.manifest = package'.files
             /\ Validates(package'.files)
  PROVE  JudgeInv'
<1>1. /\ disk' = disk /\ mem' = mem /\ pc' = pc /\ index' = index /\ then' = then /\ reply' = reply
      /\ version' = version /\ given' = given /\ launches' = launches
  BY DEF running
<1>2. Typed'
  <2>1. TypeOK'
    BY <1>1 DEF JudgeInv, Typed, TypeOK
  <2> QED BY <1>1, <2>1 DEF JudgeInv, Typed, Working
<1>3. Behind'
  BY <1>1 DEF JudgeInv, Behind, Working
<1>4. AtHand'
  <2>1. Item' = Item /\ Open' = Open /\ Aim' = Aim
    BY <1>1 DEF Item, Open, Aim
  <2> QED BY <1>1, <2>1 DEF JudgeInv, AtHand
<1>5. /\ Covers(disk.lists)' /\ Earned(disk.lists.passes, disk.state)'
      /\ Injective(disk.lists.decisions)'
  BY <1>1 DEF JudgeInv, Covers, SendsOf, Earned, Answered
<1>6. Working' => Covers(mem)' /\ Earned(mem.passes, disk.state)' /\ Injective(mem.decisions)'
  BY <1>1 DEF JudgeInv, Covers, SendsOf, Earned, Answered, Working
<1>7. Fits(prepared)' /\ Fits(package.files)'
  BY <1>1 DEF Fits, Earned, Answered
<1> QED BY <1>2, <1>3, <1>4, <1>5, <1>6, <1>7 DEF JudgeInv

LEMMA PrepareKeeps ==
  ASSUME JudgeInv, Prepare
  PROVE  JudgeInv'
<1>1. prepared' = disk /\ UNCHANGED running /\ package' = package
  BY DEF Prepare
<1>2. Fits(disk)
  BY DEF JudgeInv, Fits, Covers
<1> QED BY <1>1, <1>2, Known, OfflineKeeps DEF JudgeInv

LEMMA PackageKeeps ==
  ASSUME JudgeInv, Score \/ CopyArtifacts \/ SealPackage
  PROVE  JudgeInv'
<1> DEFINE types == [stage : {"absent", "scored", "copied", "sealed"},
                     files : FileTypes, manifest : FileTypes]
<1>1. UNCHANGED running /\ prepared' = prepared
  BY DEF Score, CopyArtifacts, SealPackage
<1>2. /\ prepared \in FileTypes /\ Fits(prepared) /\ Fits(package.files) /\ package \in types
      /\ package.files \in FileTypes
  BY Known DEF JudgeInv
<1>3. CASE Score
  <2>1. package' \in types /\ package'.files = package.files /\ package'.stage = "scored"
    BY <1>2, <1>3 DEF Score
  <2> QED BY <1>1, <1>2, <2>1, OfflineKeeps
<1>4. CASE CopyArtifacts
  <2>1. package' = [package EXCEPT !.stage = "copied", !.files = prepared]
    BY <1>4 DEF CopyArtifacts
  <2>2. package' \in types /\ package'.files = prepared /\ package'.stage = "copied"
    BY <1>2, <2>1
  <2> QED BY <1>1, <1>2, <2>2, OfflineKeeps
<1>5. CASE SealPackage
  <2>1. package' = [package EXCEPT !.stage = "sealed", !.manifest = package.files]
    BY <1>5 DEF SealPackage
  <2>2. package' \in types /\ package'.files = package.files /\ package'.manifest = package.files
    BY <1>2, <2>1
  <2>3. Validates(package.files)
    BY <1>5 DEF SealPackage
  <2> QED BY <1>1, <1>2, <2>2, <2>3, OfflineKeeps
<1> QED BY <1>3, <1>4, <1>5

LEMMA JudgeStep == JudgeInv /\ [Next]_vars => JudgeInv'
<1> SUFFICES ASSUME JudgeInv, [Next]_vars PROVE JudgeInv'
  OBVIOUS
<1>1. CASE Launch
  BY <1>1, LaunchKeeps
<1>2. CASE Create
  BY <1>2, CreateKeeps
<1>3. CASE NextItem
  BY <1>3, NextItemKeeps
<1>4. CASE Decide
  BY <1>4, DecideKeeps
<1>5. CASE Reserve
  BY <1>5, ReserveKeeps
<1>6. CASE Judge
  BY <1>6, JudgeKeeps
<1>7. CASE Settle
  BY <1>7, SettleKeeps
<1>8. CASE RecordFailure
  BY <1>8, RecordKeeps
<1>9. CASE Write
  BY <1>9, WriteKeeps
<1>10. CASE Stop
  BY <1>10, StopKeeps DEF Stop
<1>11. CASE Kill
  BY <1>11, StopKeeps DEF Kill
<1>12. CASE Prepare
  BY <1>12, PrepareKeeps
<1>13. CASE Score \/ CopyArtifacts \/ SealPackage
  BY <1>13, PackageKeeps
<1>14. CASE UNCHANGED vars
  BY <1>14, Known, OfflineKeeps DEF vars, running, JudgeInv
<1> QED BY <1>1, <1>2, <1>3, <1>4, <1>5, <1>6, <1>7, <1>8, <1>9, <1>10, <1>11, <1>12,
         <1>13, <1>14 DEF Next, Run
-----------------------------------------------------------------------------
(* The theorems.                                                           *)

(* Wherever run_automated_judge is killed and resumed, the files are       *)
(* behind the running launcher by no more than what persist has still to   *)
(* write, each send is charged for its answer, and each pass gives what    *)
(* the judge answered under the version of the directory.                  *)
THEOREM JudgeInvariant == Spec => []JudgeInv
<1>1. JudgeInv /\ [Next]_vars => JudgeInv'
  BY JudgeStep
<1> QED BY <1>1, Initially, PTL DEF Spec

(* Every variable of the judge's model has the type its declaration tells. *)
THEOREM JudgeTypes == Spec => []TypeOK
<1>1. JudgeInv => TypeOK
  BY DEF JudgeInv, Typed
<1> QED BY <1>1, JudgeInvariant, PTL

(* However often the judge is killed between a request and the files, each *)
(* request it made is a send of its own, charged for at least what the     *)
(* judge charged unless the judge broke its ceiling, within the caps on    *)
(* attempts, sends and units.                                              *)
THEOREM JudgeSendsCoverBill == Spec => []SendsCoverBill
<1>1. JudgeInv => SendsCoverBill
  BY DEF JudgeInv, Covers, SendsCoverBill
<1> QED BY <1>1, JudgeInvariant, PTL

(* A package sealed by seal_automated_citation_package verifies for good,  *)
(* even from files that were combined while a launcher had died between    *)
(* two writes: each verdict was answered to its last send or is a Gold     *)
(* match, and no request was made that the package does not show.          *)
THEOREM SealedPackageIsEarned == Spec => []SealedIsEarned
<1>1. JudgeInv => SealedIsEarned
  <2> SUFFICES ASSUME JudgeInv, package.stage = "sealed" PROVE SealedIsEarned
    BY DEF SealedIsEarned
  <2> DEFINE files == package.files
  <2>1. package.manifest = files /\ Validates(files) /\ Fits(files)
    BY DEF JudgeInv
  <2>2. Verifies
    BY <2>1 DEF Verifies
  <2>3. ASSUME NEW d \in Range(files.lists.decisions), d.assertion \notin Matched
        PROVE  \E answer \in Range(given[Max(d.pass.sends)]) :
                 answer.reply.verdict = d.verdict /\ answer.version = files.state
    <3>1. d.pass \in Range(files.lists.passes) /\ d.pass.verdict = d.verdict
      BY <2>1, <2>3 DEF Validates, ValidDecision
    <3>2. Answered(d.pass, files.state)
      BY <2>1, <3>1 DEF Fits, Earned
    <3> QED BY <3>1, <3>2 DEF Answered
  <2>4. {d.assertion : d \in Range(files.lists.decisions)} = Assertions
    BY <2>1 DEF Validates
  <2>5. \A i \in 1..MaxSends : given[i] # <<>> => i \in DOMAIN files.lists.sends
    BY <2>1, <2>4 DEF Fits
  <2> QED BY <2>2, <2>3, <2>5 DEF SealedIsEarned
<1> QED BY <1>1, JudgeInvariant, PTL

(* No launch, however it ended, drops or changes a decision or a pass on   *)
(* file, moves a send out of its final status, or decides an assertion a   *)
(* second time.                                                            *)
THEOREM JudgeDecisionsAreFinal == Spec => DecisionsAreFinal
<1> DEFINE Kept == /\ IsPrefix(disk.lists.decisions, disk'.lists.decisions)
                   /\ IsPrefix(disk.lists.passes, disk'.lists.passes)
                   /\ SettledKept(disk.lists.sends, disk'.lists.sends)
                   /\ Injective(disk'.lists.decisions)
<1>1. JudgeInv /\ JudgeInv' /\ [Next]_vars => [Kept]_vars
  <2> SUFFICES ASSUME JudgeInv, JudgeInv', [Next]_vars PROVE Kept
    OBVIOUS
  <2>1. Injective(disk'.lists.decisions)
    BY DEF JudgeInv
  <2>2. CASE disk'.lists = disk.lists
    <3>1. SettledKept(disk.lists.sends, disk.lists.sends)
      BY DEF SettledKept
    <3> QED BY <2>1, <2>2, <3>1, Known, PrefixGoesOn
  <2>3. CASE Write
    <3>1. Working
      BY <2>3 DEF Write, Lists, Working
    <3>2. /\ SettledKept(disk.lists.sends, mem.sends)
          /\ IsPrefix(disk.lists.passes, mem.passes)
          /\ IsPrefix(disk.lists.decisions, mem.decisions)
      BY <3>1 DEF JudgeInv, Behind
    <3>3. SettledKept(disk.lists.sends, disk.lists.sends)
      BY DEF SettledKept
    <3>4. IsPrefix(disk.lists.passes, disk.lists.passes)
        /\ IsPrefix(disk.lists.decisions, disk.lists.decisions)
      BY Known, PrefixGoesOn
    <3> QED BY <2>1, <2>3, <3>2, <3>3, <3>4, WrittenIs
  <2>4. CASE Launch
    <3>1. \E v : disk' = [disk EXCEPT !.state = v] \/ disk' = disk
      BY <2>4 DEF Launch
    <3>2. disk'.lists = disk.lists
      BY <3>1, Known DEF FileTypes
    <3> QED BY <2>2, <3>2
  <2>5. CASE Create
    <3>1. disk'.lists = disk.lists
      BY <2>5, Known DEF Create, FileTypes
    <3> QED BY <2>2, <3>1
  <2>6. CASE disk' = disk
    BY <2>2, <2>6
  <2> QED BY <2>3, <2>4, <2>5, <2>6 DEF Next, Run, NextItem, Decide, Reserve, Judge, Settle,
             RecordFailure, Stop, Kill, Prepare, Score, CopyArtifacts, SealPackage, running, vars
<1>2. [Kept]_vars => [LET before == disk.lists
                          after == disk'.lists IN
                      /\ IsPrefix(before.decisions, after.decisions)
                      /\ IsPrefix(before.passes, after.passes)
                      /\ \A i \in DOMAIN before.sends :
                           before.sends[i].status # "reserved" => after.sends[i] = before.sends[i]
                      /\ IsInjective([i \in DOMAIN after.decisions |->
                                        after.decisions[i].assertion])]_vars
  BY DEF SettledKept, Injective
<1> HIDE DEF Kept
<1> QED BY <1>1, <1>2, JudgeInvariant, PTL DEF Spec, DecisionsAreFinal
=============================================================================
