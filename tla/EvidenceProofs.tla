--------------------------- MODULE EvidenceProofs ---------------------------
(***************************************************************************)
(* Theorems about evidence on its way to a report.  EvidenceAcquisition,   *)
(* for every policy, every number of researchers that share the cache, and *)
(* every ttl: the types, that what a document says of where it comes from  *)
(* is so, and that writers alone leave no record torn.  Of all inputs: the *)
(* functions of CitationChecker (what a report may cite), HybridRetrieval  *)
(* (what a retrieval tells of itself) and ContextSelection (what a stage   *)
(* of TechScout is shown).                                                 *)
(***************************************************************************)
EXTENDS EvidenceAcquisition, CitationChecker, HybridRetrieval, ContextSelection,
        SequenceTheorems, WellFoundedInduction, FiniteSetTheorems, TLAPS
-----------------------------------------------------------------------------
(* EvidenceAcquisition.                                                    *)

(* What a researcher has when it turns to a request or to its result.      *)
Settled(v) ==
  /\ v \in Work
  /\ v.step \in {"look", "done", "raised", "rest"}
  /\ v.step = "look" => v.request \in Requests
  /\ v.inode = None /\ v.cached = None /\ v.began = 0
  /\ \A k \in DOMAIN v.docs : Told(v.docs[k])

LEMMA RestingSettled ==
  /\ Settled(Resting) /\ Settled(Raised)
  /\ Resting.step = "rest" /\ Raised.step = "raised"
<1>1. <<>> \in Seq(Requests) /\ <<>> \in Seq(Document)
  OBVIOUS
<1>2. 0 \in Time
  BY EvidenceAssumption DEF Time
<1>3. Resting \in Work /\ Raised \in Work
  BY <1>1, <1>2 DEF Resting, Raised, Work, Steps
<1> QED BY <1>3 DEF Resting, Raised, Settled

(* Whatever is left of the list, the documents stay what they were.        *)
LEMMA AdvanceSettled ==
  ASSUME NEW w \in Work, \A k \in DOMAIN w.docs : Told(w.docs[k])
  PROVE  Settled(Advance(w))
<1> DEFINE Made(step, request, todo, seen) ==
             [step |-> step, request |-> request, todo |-> todo, seen |-> seen,
              docs |-> w.docs, failed |-> w.failed, began |-> 0, cached |-> None,
              value |-> None, inode |-> None]
<1>1. ASSUME NEW step \in {"look", "done"}, NEW request \in Requests \cup {None},
             NEW todo \in Seq(Requests), NEW seen \in SUBSET Pages,
             step = "look" => request \in Requests
      PROVE  Settled(Made(step, request, todo, seen))
  <2>1. 0 \in Time
    BY EvidenceAssumption DEF Time
  <2>2. Made(step, request, todo, seen) \in Work
    BY <1>1, <2>1 DEF Work, Steps
  <2> QED BY <1>1, <2>2 DEF Settled
<1>2. <<>> \in Seq(Requests)
  OBVIOUS
<1>3. CASE \E k \in DOMAIN w.todo : IsNext(w, k)
  <2> DEFINE k == CHOOSE i \in DOMAIN w.todo : IsNext(w, i)
             req == w.todo[k]
             rest == SubSeq(w.todo, k + 1, Len(w.todo))
             seen == IF req \in Pages THEN w.seen \cup {req} ELSE w.seen
  <2>1. k \in DOMAIN w.todo
    BY <1>3
  <2>2. w.todo \in Seq(Requests)
    BY DEF Work
  <2>3. req \in Requests /\ rest \in Seq(Requests)
    <3> HIDE DEF k
    <3>1. k \in 1..Len(w.todo)
      BY <2>1, <2>2
    <3>2. k + 1 \in 1..Len(w.todo) + 1 /\ Len(w.todo) \in (k + 1) - 1..Len(w.todo)
      BY <2>2, <3>1
    <3> QED BY <2>2, <3>1, <3>2, SubSeqProperties
  <2>4. seen \in SUBSET Pages
    BY DEF Work
  <2>5. Advance(w) = [Resting EXCEPT !.step = "look", !.request = req, !.todo = rest,
                        !.docs = w.docs, !.failed = w.failed, !.seen = seen]
    BY <1>3 DEF Advance
  <2> HIDE DEF k, req, rest, seen
  <2>6. Advance(w) = Made("look", req, rest, seen)
    BY <2>5 DEF Resting
  <2> HIDE DEF Made
  <2> QED BY <1>1, <2>3, <2>4, <2>6
<1>4. CASE ~\E k \in DOMAIN w.todo : IsNext(w, k)
  <2>1. CASE TooLong(w.docs)
    BY <1>4, <2>1, RestingSettled DEF Advance
  <2>2. CASE ~TooLong(w.docs)
    <3>1. Advance(w) = [Resting EXCEPT !.step = "done", !.docs = w.docs,
                          !.failed = w.failed]
      BY <1>4, <2>2 DEF Advance
    <3>2. Advance(w) = Made("done", None, <<>>, {})
      BY <3>1 DEF Resting
    <3> HIDE DEF Made
    <3> QED BY <1>1, <1>2, <3>2
  <2> QED BY <2>1, <2>2
<1> QED BY <1>3, <1>4

LEMMA FailedSettled ==
  ASSUME NEW w \in Work, \A k \in DOMAIN w.docs : Told(w.docs[k]),
         w.request \in Requests, NEW error \in Errors \cup {"parsing"}
  PROVE  Settled(Failed(w, error))
<1> DEFINE v == [w EXCEPT !.failed = @ \cup {[request |-> w.request, error |-> error]}]
<1>1. v \in Work /\ v.docs = w.docs
  BY DEF Work
<1> QED BY <1>1, AdvanceSettled DEF Failed

LEMMA HadSettled ==
  ASSUME NEW w \in Work, \A k \in DOMAIN w.docs : Told(w.docs[k]),
         w.request \in Requests, NEW value \in Values, value.request = w.request,
         NEW label \in {"miss", "hit", "stale"},
         Told([request |-> w.request, value |-> value, label |-> label, began |-> w.began])
  PROVE  Settled(Had(w, value, label))
<1>0. value.data \in Answers[w.request]
  BY DEF Values, Value
<1>1. CASE w.request \in Searches
  <2> DEFINE v == [w EXCEPT !.todo = value.data \o @]
  <2>1. value.data \in Seq(Requests)
    <3>1. value.data \in Seq(Pages)
      BY <1>0, <1>1, EvidenceAssumption
    <3> QED BY <3>1 DEF Requests
  <2>2. value.data \o w.todo \in Seq(Requests)
    BY <2>1, ConcatProperties DEF Work
  <2>3. v \in Work /\ v.docs = w.docs
    BY <2>2 DEF Work
  <2> QED BY <1>1, <2>3, AdvanceSettled DEF Had
<1>2. CASE w.request \notin Searches /\ value.data = "bare"
  BY <1>2, FailedSettled DEF Had, Unusable
<1>3. CASE w.request \notin Searches /\ value.data # "bare"
  <2> DEFINE d == [request |-> w.request, value |-> value, label |-> label,
                   began |-> w.began]
             v == [w EXCEPT !.docs = Append(@, d)]
  <2>1. d \in Document
    BY <1>3 DEF Document, Work
  <2>2. w.docs \in Seq(Document)
    BY DEF Work
  <2>3. /\ Append(w.docs, d) \in Seq(Document)
        /\ \A k \in DOMAIN Append(w.docs, d) : Told(Append(w.docs, d)[k])
    <3> HIDE DEF d
    <3>1. Told(d)
      BY DEF d
    <3>2. \A k \in DOMAIN Append(w.docs, d) :
            \/ k \in DOMAIN w.docs /\ Append(w.docs, d)[k] = w.docs[k]
            \/ Append(w.docs, d)[k] = d
      BY <2>1, <2>2, AppendProperties
    <3> QED BY <2>1, <2>2, <3>1, <3>2, AppendProperties
  <2>4. v \in Work /\ v.docs = Append(w.docs, d)
    BY <2>3 DEF Work
  <2>5. Had(w, value, label) = Advance(v)
    BY <1>3 DEF Had, Unusable
  <2> HIDE DEF v, d
  <2> QED BY <2>3, <2>4, <2>5, AdvanceSettled
<1> QED BY <1>1, <1>2, <1>3
-----------------------------------------------------------------------------
(* The inductive invariant.                                                *)

(* An entry is of its request, and was dated before it was retrieved.      *)
Dated(e, req) == e.value.request = req /\ e.stored <= e.value.at

(* What a researcher has while it asks and stores.                         *)
Asking(w, t) ==
  /\ w.step \in {"look", "call", "write", "move"} => w.request \in Requests
  /\ w.step \in {"write", "move"} =>
       /\ w.value \in Values /\ w.value.request = w.request
       /\ w.began <= w.value.at
       /\ w.inode \in Inodes
  /\ w.step \notin {"write", "move"} => w.inode = None
  /\ w.cached # None => Dated(w.cached, w.request)
  /\ w.began <= t
  /\ \A k \in DOMAIN w.docs : Told(w.docs[k])

(* An inode is referred to on behalf of one request only.                  *)
Holds(i, req) ==
  \/ index[req] = i \/ temp[req] = i
  \/ \E r \in Researchers : work[r].inode = i /\ work[r].request = req

IInv ==
  /\ TypeOK
  /\ \A r \in Researchers : Asking(work[r], now)
  /\ \A i \in Inodes : \A p, q \in Requests : Holds(i, p) /\ Holds(i, q) => p = q
  /\ \A i \in Inodes : \A req \in Requests :
       Holds(i, req) /\ content[i] # Torn => Dated(content[i], req)

(* A settled researcher asks for nothing and holds no inode.               *)
LEMMA SettledAsks ==
  ASSUME NEW v, Settled(v), now \in Time
  PROVE  Asking(v, now)
  BY EvidenceAssumption DEF Settled, Asking, Time

LEMMA InitInv == Init => IInv
<1> SUFFICES ASSUME Init PROVE IInv
  OBVIOUS
<1>1. 0 \in Time
  BY EvidenceAssumption DEF Time
<1>2. TypeOK
  BY <1>1, RestingSettled DEF Init, TypeOK, Settled
<1>3. \A r \in Researchers : Asking(work[r], now)
  BY <1>1, RestingSettled, SettledAsks DEF Init, Resting
<1>4. \A i \in Inodes : \A req \in Requests : ~Holds(i, req)
  BY EvidenceAssumption DEF Init, Holds, Resting
<1> QED BY <1>2, <1>3, <1>4 DEF IInv
-----------------------------------------------------------------------------
(* Steps of a researcher that leave the files alone, and with which it     *)
(* holds no inode.                                                         *)
LEMMA TurnInv ==
  ASSUME IInv, NEW r \in Researchers, NEW v \in Work, Asking(v, now), v.inode = None,
         work' = [work EXCEPT ![r] = v], UNCHANGED disk, now' = now,
         kills' \in Nat, begun' \in Nat
  PROVE  IInv'
<1> USE DEF disk
<1>1. TypeOK'
  BY DEF IInv, TypeOK
<1>2. \A q \in Researchers : Asking(work'[q], now')
  BY DEF IInv, TypeOK, Asking
<1>3. \A i \in Inodes, req \in Requests : Holds(i, req)' => Holds(i, req)
  BY EvidenceAssumption DEF IInv, TypeOK, Holds
<1> QED BY <1>1, <1>2, <1>3 DEF IInv

LEMMA SettledTurn ==
  ASSUME IInv, NEW r \in Researchers, NEW v, Settled(v),
         work' = [work EXCEPT ![r] = v], UNCHANGED disk, now' = now,
         kills' \in Nat, begun' \in Nat
  PROVE  IInv'
<1>1. v \in Work /\ v.inode = None
  BY DEF Settled
<1>2. Asking(v, now)
  BY SettledAsks DEF IInv, TypeOK
<1> QED BY <1>1, <1>2, TurnInv

LEMMA BeginInv ==
  ASSUME IInv, NEW r \in Researchers, Begin(r)
  PROVE  IInv'
<1> DEFINE w == [Resting EXCEPT !.todo = Queries \o Repository]
<1>1. Queries \o Repository \in Seq(Requests)
  <2>1. Queries \in Seq(Requests) /\ Repository \in Seq(Requests)
    BY EvidenceAssumption DEF Requests
  <2> QED BY <2>1, ConcatProperties
<1>2. w \in Work /\ w.docs = <<>>
  <2>1. Resting \in Work
    BY RestingSettled DEF Settled
  <2> QED BY <1>1, <2>1 DEF Work, Resting
<1> HIDE DEF w
<1>3. Settled(Advance(w))
  <2>1. \A k \in DOMAIN w.docs : Told(w.docs[k])
    BY <1>2
  <2> QED BY <1>2, <2>1, AdvanceSettled
<1>4. /\ work' = [work EXCEPT ![r] = Advance(w)]
      /\ UNCHANGED disk /\ now' = now /\ kills' \in Nat /\ begun' \in Nat
  BY DEF Begin, w, IInv, TypeOK
<1> QED BY <1>3, <1>4, SettledTurn

LEMMA LookInv ==
  ASSUME IInv, NEW r \in Researchers, Look(r)
  PROVE  IInv'
<1> DEFINE req   == work[r].request
           inode == index[req]
           found == IF inode = None THEN None ELSE content[inode]
           w     == [work[r] EXCEPT !.began = now]
           calls == [w EXCEPT !.step = "call"]
           keeps == [w EXCEPT !.step = "call", !.cached = found]
<1>1. /\ work[r] \in Work /\ Asking(work[r], now) /\ work[r].step = "look"
      /\ req \in Requests /\ now \in Time
  BY DEF Look, IInv, TypeOK, Asking
<1>2. /\ w \in Work /\ w.request = req /\ w.docs = work[r].docs /\ w.began = now
      /\ \A k \in DOMAIN w.docs : Told(w.docs[k])
  BY <1>1 DEF Work, Asking
<1>3. found = None \/ found = Torn \/ (found \in Entry /\ Dated(found, req))
  <2>1. CASE inode # None
    <3>1. inode \in Inodes /\ Holds(inode, req)
      BY <1>1, <2>1 DEF IInv, TypeOK, Holds
    <3>2. content[inode] = Torn \/ content[inode] \in Entry
      BY <3>1 DEF IInv, TypeOK
    <3> QED BY <1>1, <2>1, <3>1, <3>2 DEF IInv
  <2> QED BY <2>1
<1>4. UNCHANGED disk /\ now' = now /\ kills' \in Nat /\ begun' \in Nat
  BY DEF Look, bounds, IInv, TypeOK
<1>5. CASE found = None
  <2>1. work' = [work EXCEPT ![r] = calls]
    BY <1>5, EvidenceAssumption DEF Look
  <2>2. calls \in Work /\ Asking(calls, now) /\ calls.inode = None
    <3>1. calls \in Work
      BY <1>1 DEF Work, Steps
    <3>2. /\ calls.step = "call" /\ calls.request = req /\ calls.began = now
          /\ calls.inode = work[r].inode /\ calls.cached = work[r].cached
          /\ calls.docs = work[r].docs
      BY <1>1 DEF Work
    <3> HIDE DEF calls
    <3> QED BY <1>1, <3>1, <3>2, EvidenceAssumption DEF Asking, Time
  <2> QED BY <1>4, <2>1, <2>2, TurnInv
<1>6. CASE found = Torn
  <2>1. work' = [work EXCEPT ![r] = Raised]
    BY <1>6, EvidenceAssumption DEF Look
  <2> QED BY <1>4, <2>1, RestingSettled, SettledTurn
<1>7. CASE found \in Entry /\ Dated(found, req) /\ found # None
  <2>1. found # None /\ found # Torn
    BY <1>7, EvidenceAssumption
  <2>2. CASE IsFresh(found, now)
    <3>1. work' = [work EXCEPT ![r] = Had(w, found.value, "hit")]
      BY <2>1, <2>2 DEF Look
    <3>2. Told([request |-> req, value |-> found.value, label |-> "hit",
                began |-> now])
      <4>1. /\ found.value.request = req /\ found.stored <= found.value.at
            /\ now - found.stored <= TTL
        BY <1>7, <2>2 DEF Dated, IsFresh
      <4>2. found.stored \in Time /\ found.value.at \in Time
        BY <1>7 DEF Entry, Values, Value
      <4> HIDE DEF found
      <4>3. now - found.value.at <= TTL
        BY <1>1, <4>1, <4>2, EvidenceAssumption DEF Time
      <4> QED BY <4>1, <4>3 DEF Told
    <3>3. Settled(Had(w, found.value, "hit"))
      <4>1. found.value \in Values /\ found.value.request = w.request
        BY <1>2, <1>7 DEF Entry, Dated
      <4> HIDE DEF found, w
      <4> QED BY <1>1, <1>2, <3>2, <4>1, HadSettled
    <3> QED BY <1>4, <3>1, <3>3, SettledTurn
  <2>3. CASE ~IsFresh(found, now)
    <3>1. work' = [work EXCEPT ![r] = keeps]
      BY <2>1, <2>3 DEF Look
    <3>2. keeps \in Work /\ Asking(keeps, now) /\ keeps.inode = None
      <4> HIDE DEF found
      <4>1. keeps \in Work
        BY <1>1, <1>7 DEF Work, Steps
      <4>2. /\ keeps.step = "call" /\ keeps.request = req /\ keeps.began = now
            /\ keeps.inode = work[r].inode /\ keeps.cached = found
            /\ keeps.docs = work[r].docs
        BY <1>1 DEF Work
      <4> HIDE DEF keeps
      <4> QED BY <1>1, <1>7, <4>1, <4>2, EvidenceAssumption DEF Asking, Time
    <3> QED BY <1>4, <3>1, <3>2, TurnInv
  <2> QED BY <2>2, <2>3
<1>8. found \in Entry => found # None
  BY EvidenceAssumption
<1> QED BY <1>3, <1>5, <1>6, <1>7, <1>8

LEMMA RefusedInv ==
  ASSUME IInv, NEW r \in Researchers, Refused(r)
  PROVE  IInv'
<1> DEFINE w == work[r]
<1>1. /\ w \in Work /\ Asking(w, now) /\ w.step = "call" /\ w.request \in Requests
      /\ now \in Time /\ \A k \in DOMAIN w.docs : Told(w.docs[k])
  BY DEF Refused, IInv, TypeOK, Asking
<1>2. UNCHANGED disk /\ now' = now /\ kills' \in Nat /\ begun' \in Nat
  BY DEF Refused, bounds, IInv, TypeOK
<1>3. CASE FallsBack(w)
  <2> DEFINE e == w.cached
  <2>1. work' = [work EXCEPT ![r] = Had(w, e.value, "stale")]
    BY <1>3 DEF Refused
  <2>2. /\ e \in Entry /\ Dated(e, w.request) /\ w.began - e.stored <= MaxStale
        /\ w.began \in Time
    BY <1>1, <1>3 DEF FallsBack, Work, Asking
  <2>3. /\ e.value \in Values /\ e.stored \in Time /\ e.value.at \in Time
        /\ e.value.request = w.request
    BY <2>2 DEF Entry, Values, Value, Dated
  <2>4. w.began - e.value.at <= MaxStale
    <3> HIDE DEF e
    <3> QED BY <2>2, <2>3, EvidenceAssumption DEF Dated, Time
  <2>5. Told([request |-> w.request, value |-> e.value, label |-> "stale",
              began |-> w.began])
    BY <2>3, <2>4 DEF Told
  <2>6. Settled(Had(w, e.value, "stale"))
    <3> HIDE DEF w, e
    <3> QED BY <1>1, <2>3, <2>5, HadSettled
  <2> QED BY <1>2, <2>1, <2>6, SettledTurn
<1>4. CASE ~FallsBack(w)
  <2>1. PICK error \in Errors : work' = [work EXCEPT ![r] = Failed(w, error)]
    BY <1>4 DEF Refused
  <2>2. Settled(Failed(w, error))
    BY <1>1, FailedSettled
  <2> QED BY <1>2, <2>1, <2>2, SettledTurn
<1> QED BY <1>3, <1>4

LEMMA LeavesInv ==
  ASSUME IInv, NEW r \in Researchers, Unresolved(r) \/ Kill(r)
  PROVE  IInv'
<1>1. work' = [work EXCEPT ![r] = Raised] \/ work' = [work EXCEPT ![r] = Resting]
  BY DEF Unresolved, Kill
<1>2. UNCHANGED disk /\ now' = now /\ kills' \in Nat /\ begun' \in Nat
  BY DEF Unresolved, Kill, bounds, IInv, TypeOK
<1> QED BY <1>1, <1>2, RestingSettled, SettledTurn
-----------------------------------------------------------------------------
(* Steps of a writer.                                                      *)

LEMMA AnsweredInv ==
  ASSUME IInv, NEW r \in Researchers, Answered(r)
  PROVE  IInv'
<1> DEFINE w    == work[r]
           req  == w.request
           gone == Inodes \ InUse
<1>1. /\ w \in Work /\ Asking(w, now) /\ w.step = "call" /\ req \in Requests
      /\ now \in Time
  BY DEF Answered, IInv, TypeOK, Asking
<1>2. PICK inode \in IF temp[req] # None THEN {temp[req]}
                                         ELSE {CHOOSE i \in gone : TRUE} :
        /\ temp' = [temp EXCEPT ![req] = inode]
        /\ content' = [i \in Inodes |-> IF i \in gone \cup {inode}
                                        THEN Torn ELSE content[i]]
        /\ \E data \in Answers[req] :
              work' = [work EXCEPT ![r].step = "write", ![r].inode = inode,
                          ![r].cached = None,
                          ![r].value = [request |-> req, data |-> data, at |-> now]]
  BY DEF Answered
<1>3. PICK data \in Answers[req] :
        work' = [work EXCEPT ![r].step = "write", ![r].inode = inode,
                    ![r].cached = None,
                    ![r].value = [request |-> req, data |-> data, at |-> now]]
  BY <1>2
<1> DEFINE value == [request |-> req, data |-> data, at |-> now]
           v == [w EXCEPT !.step = "write", !.inode = inode, !.cached = None,
                          !.value = value]
<1>4. work' = [work EXCEPT ![r] = v]
  BY <1>3 DEF IInv, TypeOK
<1>5. UNCHANGED index /\ now' = now /\ kills' = kills /\ begun' = begun /\ gone # {}
  BY DEF Answered, bounds
<1>6. /\ inode \in Inodes
      /\ \/ Holds(inode, req)
         \/ \A p \in Requests : ~Holds(inode, p)
  <2>1. CASE temp[req] # None
    BY <1>1, <1>2, <2>1 DEF IInv, TypeOK, Holds
  <2>2. CASE temp[req] = None
    <3>1. inode \in gone
      BY <1>2, <1>5, <2>2
    <3> QED BY <3>1 DEF InUse, Holds
  <2> QED BY <2>1, <2>2
<1>7. value \in Values
  BY <1>1 DEF Values, Value
<1>8. v \in Work
  BY <1>1, <1>6, <1>7 DEF Work, Steps
<1>9. Asking(v, now')
  <2>1. /\ v.step = "write" /\ v.request = req /\ v.value = value /\ v.inode = inode
        /\ v.cached = None /\ v.began = w.began /\ v.docs = w.docs
    BY <1>1 DEF Work
  <2>2. value.request = req /\ value.at = now
    OBVIOUS
  <2>3. w.began <= now /\ \A k \in DOMAIN w.docs : Told(w.docs[k])
    BY <1>1 DEF Asking
  <2> HIDE DEF v, value
  <2> QED BY <1>1, <1>5, <1>6, <1>7, <2>1, <2>2, <2>3 DEF Asking
<1>10. v.inode = inode /\ v.request = req
  BY <1>1 DEF Work
<1> HIDE DEF v
<1>11. TypeOK'
  <2>1. content' \in [Inodes -> Entry \cup {Torn}]
    BY <1>2 DEF IInv, TypeOK
  <2>2. temp' \in [Requests -> Inodes \cup {None}]
    BY <1>2, <1>6 DEF IInv, TypeOK
  <2>3. work' \in [Researchers -> Work]
    BY <1>4, <1>8 DEF IInv, TypeOK
  <2> QED BY <1>5, <2>1, <2>2, <2>3 DEF IInv, TypeOK
<1>12. \A q \in Researchers : Asking(work'[q], now')
  <2> TAKE q \in Researchers
  <2>1. CASE q = r
    <3>1. work'[q] = v
      BY <1>4, <2>1 DEF IInv, TypeOK
    <3> QED BY <1>9, <3>1 DEF Asking
  <2>2. CASE q # r
    <3>1. work'[q] = work[q]
      BY <1>4, <2>2 DEF IInv, TypeOK
    <3> QED BY <1>5, <3>1 DEF IInv, Asking
  <2> QED BY <2>1, <2>2
<1>13. \A i \in Inodes : \A p \in Requests :
         Holds(i, p)' => Holds(i, p) \/ (i = inode /\ p = req)
  BY <1>1, <1>2, <1>4, <1>5, <1>10, EvidenceAssumption DEF IInv, TypeOK, Holds
<1>14. \A i \in Inodes : content'[i] # Torn => content'[i] = content[i] /\ i # inode
  BY <1>2
<1> HIDE DEF gone, w, req
<1>15. \A i \in Inodes : \A p, q \in Requests : Holds(i, p)' /\ Holds(i, q)' => p = q
  BY <1>6, <1>13 DEF IInv
<1>16. \A i \in Inodes : \A p \in Requests :
         Holds(i, p)' /\ content'[i] # Torn => Dated(content'[i], p)
  BY <1>13, <1>14 DEF IInv
<1> QED BY <1>11, <1>12, <1>15, <1>16 DEF IInv, Dated

LEMMA WriteInv ==
  ASSUME IInv, NEW r \in Researchers, Write(r)
  PROVE  IInv'
<1> DEFINE w == work[r]
           entry == [value |-> w.value, stored |-> w.began]
           v == [w EXCEPT !.step = "move"]
<1>1. /\ w \in Work /\ Asking(w, now) /\ w.step = "write" /\ w.request \in Requests
      /\ w.value \in Values /\ w.inode \in Inodes
      /\ w.value.request = w.request /\ w.began <= w.value.at
  BY DEF Write, IInv, TypeOK, Asking
<1>2. /\ content' = [content EXCEPT ![w.inode] = entry]
      /\ work' = [work EXCEPT ![r] = v]
      /\ UNCHANGED <<index, temp, now, kills, begun>>
  BY DEF Write, Stamp, bounds, IInv, TypeOK
<1>3. entry \in Entry /\ Dated(entry, w.request)
  BY <1>1 DEF Entry, Work, Dated
<1>4. v \in Work /\ v.inode = w.inode /\ v.request = w.request
  BY <1>1 DEF Work, Steps
<1>5. Asking(v, now)
  <2>1. /\ v.step = "move" /\ v.value = w.value /\ v.cached = w.cached
        /\ v.began = w.began /\ v.docs = w.docs
    BY <1>1 DEF Work
  <2> HIDE DEF v
  <2> QED BY <1>1, <1>4, <2>1 DEF Asking
<1> HIDE DEF v, entry
<1>6. TypeOK'
  BY <1>2, <1>3, <1>4 DEF IInv, TypeOK
<1>7. \A q \in Researchers : Asking(work'[q], now')
  <2> TAKE q \in Researchers
  <2>1. work'[q] = v \/ work'[q] = work[q]
    BY <1>2 DEF IInv, TypeOK
  <2> QED BY <1>2, <1>5, <2>1 DEF IInv, Asking
<1>8. \A i \in Inodes : \A p \in Requests : Holds(i, p)' => Holds(i, p)
  <2> SUFFICES ASSUME NEW i \in Inodes, NEW p \in Requests, Holds(i, p)'
               PROVE  Holds(i, p)
    OBVIOUS
  <2>1. \A q \in Researchers :
          work'[q].inode = work[q].inode /\ work'[q].request = work[q].request
    BY <1>2, <1>4 DEF IInv, TypeOK
  <2> QED BY <1>2, <2>1 DEF Holds
<1>9. Holds(w.inode, w.request)
  BY DEF Holds
<1>10. \A i \in Inodes : \A p \in Requests :
         Holds(i, p)' /\ content'[i] # Torn => Dated(content'[i], p)
  <2> TAKE i \in Inodes
  <2> TAKE p \in Requests
  <2> HAVE Holds(i, p)' /\ content'[i] # Torn
  <2>1. CASE i = w.inode
    BY <1>1, <1>2, <1>3, <1>8, <1>9, <2>1 DEF IInv, TypeOK
  <2>2. CASE i # w.inode
    BY <1>2, <1>8, <2>2 DEF IInv, TypeOK
  <2> QED BY <2>1, <2>2
<1> QED BY <1>6, <1>7, <1>8, <1>10 DEF IInv, Dated

LEMMA MoveInv ==
  ASSUME IInv, NEW r \in Researchers, Move(r)
  PROVE  IInv'
<1> DEFINE w == work[r]
           req == w.request
<1>1. /\ w \in Work /\ Asking(w, now) /\ w.step = "move" /\ req \in Requests
      /\ w.value \in Values /\ w.value.request = req /\ w.began <= w.value.at
      /\ \A k \in DOMAIN w.docs : Told(w.docs[k])
  BY DEF Move, IInv, TypeOK, Asking
<1>2. UNCHANGED <<content, now, kills, begun>>
  BY DEF Move, bounds
<1>3. CASE temp[req] = None
  <2>1. work' = [work EXCEPT ![r] = Raised] /\ UNCHANGED disk
    BY <1>2, <1>3 DEF Move, disk
  <2>2. kills' \in Nat /\ begun' \in Nat /\ now' = now
    BY <1>2 DEF IInv, TypeOK
  <2> QED BY <2>1, <2>2, RestingSettled, SettledTurn
<1>4. CASE temp[req] # None
  <2> DEFINE v == Had(w, w.value, "miss")
  <2>1. /\ work' = [work EXCEPT ![r] = v]
        /\ index' = [index EXCEPT ![req] = temp[req]]
        /\ temp' = [temp EXCEPT ![req] = None]
    BY <1>4 DEF Move
  <2>2. Told([request |-> req, value |-> w.value, label |-> "miss", began |-> w.began])
    <3>1. w.began \in Time /\ w.value.at \in Time
      BY <1>1 DEF Work, Values, Value
    <3>2. w.began - w.value.at <= 0
      BY <1>1, <3>1, EvidenceAssumption DEF Time
    <3> QED BY <1>1, <3>2 DEF Told
  <2>3. Settled(v)
    <3> HIDE DEF w
    <3> QED BY <1>1, <2>2, HadSettled
  <2> HIDE DEF v
  <2>4. v \in Work /\ v.inode = None
    BY <2>3 DEF Settled
  <2>5. Asking(v, now)
    BY <2>3, SettledAsks DEF IInv, TypeOK
  <2>6. TypeOK'
    <3>1. temp[req] \in Inodes \cup {None}
      BY <1>1 DEF IInv, TypeOK
    <3> QED BY <1>2, <2>1, <2>4, <3>1 DEF IInv, TypeOK
  <2>7. \A q \in Researchers : Asking(work'[q], now')
    <3> TAKE q \in Researchers
    <3>1. work'[q] = v \/ work'[q] = work[q]
      BY <2>1 DEF IInv, TypeOK
    <3> QED BY <1>2, <2>5, <3>1 DEF IInv, Asking
  <2>8. \A i \in Inodes : \A p \in Requests : Holds(i, p)' => Holds(i, p)
    <3> SUFFICES ASSUME NEW i \in Inodes, NEW p \in Requests, Holds(i, p)'
                 PROVE  Holds(i, p)
      OBVIOUS
    <3>1. CASE index'[p] = i
      BY <1>1, <2>1, <3>1 DEF Holds, IInv, TypeOK
    <3>2. CASE temp'[p] = i
      BY <1>1, <2>1, <3>2, EvidenceAssumption DEF Holds, IInv, TypeOK
    <3>3. CASE \E q \in Researchers : work'[q].inode = i /\ work'[q].request = p
      <4>1. PICK q \in Researchers : work'[q].inode = i /\ work'[q].request = p
        BY <3>3
      <4>2. q # r
        BY <2>1, <2>4, <4>1, EvidenceAssumption DEF IInv, TypeOK
      <4>3. work'[q] = work[q]
        BY <2>1, <4>2 DEF IInv, TypeOK
      <4> QED BY <4>1, <4>3 DEF Holds
    <3> QED BY <3>1, <3>2, <3>3 DEF Holds
  <2> QED BY <1>2, <2>6, <2>7, <2>8 DEF IInv, Dated
<1> QED BY <1>3, <1>4

LEMMA TickInv ==
  ASSUME IInv, Tick
  PROVE  IInv'
<1>1. now' \in Time /\ now' = now + 1 /\ now \in Time
  BY EvidenceAssumption DEF Tick, IInv, TypeOK, Time
<1>2. UNCHANGED <<index, temp, content, work, kills, begun>>
  BY DEF Tick, disk
<1>3. \A r \in Researchers : Asking(work'[r], now')
  <2> TAKE r \in Researchers
  <2>1. work[r].began <= now'
    <3>1. work[r].began \in Time /\ work[r].began <= now
      BY DEF IInv, TypeOK, Work, Asking
    <3> QED BY <1>1, <3>1, EvidenceAssumption DEF Time
  <2> QED BY <1>2, <2>1 DEF IInv, Asking
<1> QED BY <1>1, <1>2, <1>3 DEF IInv, TypeOK, Holds, Dated

LEMMA NextInv == IInv /\ [Next]_vars => IInv'
<1> SUFFICES ASSUME IInv, [Next]_vars PROVE IInv'
  OBVIOUS
<1>1. ASSUME NEW r \in Researchers, Begin(r) \/ Proceed(r) \/ Kill(r)
      PROVE  IInv'
  BY <1>1, BeginInv, LookInv, AnsweredInv, RefusedInv, LeavesInv, WriteInv, MoveInv
     DEF Proceed
<1>2. CASE UNCHANGED vars
  BY <1>2 DEF vars, IInv, TypeOK, Asking, Holds, Dated
<1> QED BY <1>1, <1>2, TickInv DEF Next

LEMMA IInvHolds == Spec => []IInv
  BY InitInv, NextInv, PTL DEF Spec

(* Every file is an inode of a torn or a whole record, every document what *)
(* was had for a page or a repository, in every reachable state.           *)
THEOREM TypeCorrect == Spec => []TypeOK
<1>1. IInv => TypeOK
  BY DEF IInv
<1> QED BY <1>1, IInvHolds, PTL

LEMMA ToldInv == IInv => SourcesAreTold
<1> SUFFICES ASSUME IInv, NEW r \in Researchers
             PROVE  LET docs == work[r].docs
                    IN  /\ \A k \in DOMAIN docs : Told(docs[k])
                        /\ State(docs) = "live" =>
                             \E k \in DOMAIN docs : docs[k].value.at >= docs[k].began
                        /\ State(docs) = "unavailable" => docs = <<>>
  BY DEF SourcesAreTold
<1> DEFINE docs == work[r].docs
<1>1. docs \in Seq(Document) /\ \A k \in DOMAIN docs : Told(docs[k])
  BY DEF IInv, TypeOK, Work, Asking
<1> HIDE DEF docs
<1>2. ASSUME State(docs) = "live"
      PROVE  \E k \in DOMAIN docs : docs[k].value.at >= docs[k].began
  <2>1. PICK k \in DOMAIN docs : docs[k].label = "miss"
    BY <1>2 DEF State
  <2> DEFINE d == docs[k]
  <2>2. d \in Document /\ Told(d) /\ d.label = "miss"
    BY <1>1, <2>1
  <2> HIDE DEF d
  <2>3. d.began \in Time /\ d.value.at \in Time /\ d.began - d.value.at <= 0
    BY <2>2 DEF Document, Values, Value, Told
  <2>4. d.value.at >= d.began
    BY <2>3, EvidenceAssumption DEF Time
  <2> QED BY <2>4 DEF d
<1>3. State(docs) = "unavailable" => docs = <<>>
  BY DEF State
<1> QED BY <1>1, <1>2, <1>3 DEF docs

(* A document was returned for its own request, no earlier than its label  *)
(* says, whoever overlaps or dies, for every number of researchers.        *)
THEOREM SourcesTold == Spec => []SourcesAreTold
  BY IInvHolds, ToldInv, PTL
-----------------------------------------------------------------------------
(* No interleaving of writers leaves a torn record behind.                 *)

Writing(i) == \E r \in Researchers : work[r].step = "write" /\ work[r].inode = i

TornInv ==
  kills = 0 =>
    \A i \in Inodes : \A req \in Requests :
      (index[req] = i \/ temp[req] = i) /\ content[i] = Torn => Writing(i)

(* A researcher that is not about to write leaves with no writer less.     *)
LEMMA TurnTorn ==
  ASSUME IInv, TornInv, NEW r \in Researchers, NEW v, work[r].step # "write",
         work' = [work EXCEPT ![r] = v], content' = content, kills' = kills,
         \A i \in Inodes : \A req \in Requests :
           index'[req] = i \/ temp'[req] = i =>
             \E p \in Requests : index[p] = i \/ temp[p] = i
  PROVE  TornInv'
<1> SUFFICES ASSUME kills = 0, NEW i \in Inodes, NEW req \in Requests,
                    index'[req] = i \/ temp'[req] = i, content[i] = Torn
             PROVE  Writing(i)'
  BY DEF TornInv
<1>1. PICK p \in Requests : index[p] = i \/ temp[p] = i
  OBVIOUS
<1>2. PICK q \in Researchers : work[q].step = "write" /\ work[q].inode = i
  BY <1>1 DEF TornInv, Writing
<1>3. q # r
  BY <1>2
<1>4. work'[q] = work[q]
  BY <1>3 DEF IInv, TypeOK
<1> QED BY <1>2, <1>4 DEF Writing

LEMMA InitTorn == Init => TornInv
  BY EvidenceAssumption DEF Init, TornInv

LEMMA NextTorn == IInv /\ TornInv /\ [Next]_vars => TornInv'
<1> SUFFICES ASSUME IInv, TornInv, [Next]_vars PROVE TornInv'
  OBVIOUS
<1>1. ASSUME NEW r \in Researchers, Begin(r) \/ Look(r) \/ Refused(r) \/ Unresolved(r)
      PROVE  TornInv'
  <2>1. work[r].step # "write"
    BY <1>1 DEF Begin, Look, Refused, Unresolved
  <2>2. /\ UNCHANGED <<index, temp, content>> /\ kills' = kills
        /\ \E v : work' = [work EXCEPT ![r] = v]
    BY <1>1 DEF Begin, Look, Refused, Unresolved, disk, bounds
  <2> QED BY <2>1, <2>2, TurnTorn
<1>2. ASSUME NEW r \in Researchers, Move(r)
      PROVE  TornInv'
  <2> DEFINE req == work[r].request
  <2>1. req \in Requests
    BY <1>2 DEF IInv, Asking, Move
  <2>2. /\ work[r].step # "write" /\ content' = content /\ kills' = kills
        /\ \E v : work' = [work EXCEPT ![r] = v]
    BY <1>2 DEF Move, bounds
  <2>3. \A i \in Inodes : \A q \in Requests :
          index'[q] = i \/ temp'[q] = i => \E p \in Requests : index[p] = i \/ temp[p] = i
    <3>1. CASE temp[req] = None
      BY <1>2, <3>1 DEF Move
    <3>2. CASE temp[req] # None
      BY <1>2, <2>1, <3>2, EvidenceAssumption DEF Move, IInv, TypeOK
    <3> QED BY <3>1, <3>2
  <2> QED BY <2>2, <2>3, TurnTorn
<1>3. ASSUME NEW r \in Researchers, Write(r)
      PROVE  TornInv'
  <2> DEFINE entry == [value |-> work[r].value, stored |-> work[r].began]
             inode == work[r].inode
  <2>1. /\ content' = [content EXCEPT ![inode] = entry]
        /\ work' = [work EXCEPT ![r].step = "move"]
        /\ UNCHANGED <<index, temp, kills>>
    BY <1>3 DEF Write, Stamp, bounds
  <2>2. /\ entry \in Entry /\ inode \in Inodes
    <3>1. work[r] \in Work /\ work[r].value \in Values /\ inode \in Inodes
      BY <1>3 DEF IInv, TypeOK, Asking, Write
    <3> QED BY <3>1 DEF Entry, Work
  <2>3. entry # Torn
    BY <2>2, EvidenceAssumption
  <2> HIDE DEF entry
  <2> SUFFICES ASSUME kills = 0, NEW i \in Inodes, NEW req \in Requests,
                      index[req] = i \/ temp[req] = i, content'[i] = Torn
               PROVE  Writing(i)'
    BY <2>1 DEF TornInv
  <2>4. i # inode /\ content[i] = Torn
    BY <2>1, <2>2, <2>3 DEF IInv, TypeOK
  <2>5. PICK q \in Researchers : work[q].step = "write" /\ work[q].inode = i
    BY <2>4 DEF TornInv, Writing
  <2>6. q # r
    BY <2>4, <2>5
  <2>7. work'[q] = work[q]
    BY <2>1, <2>6 DEF IInv, TypeOK
  <2> QED BY <2>5, <2>7 DEF Writing
<1>4. ASSUME NEW r \in Researchers, Answered(r)
      PROVE  TornInv'
  <2> DEFINE asked == work[r].request
             gone  == Inodes \ InUse
  <2>1. PICK inode \in IF temp[asked] # None THEN {temp[asked]}
                                             ELSE {CHOOSE i \in gone : TRUE} :
          /\ temp' = [temp EXCEPT ![asked] = inode]
          /\ content' = [i \in Inodes |-> IF i \in gone \cup {inode}
                                          THEN Torn ELSE content[i]]
          /\ \E data \in Answers[asked] :
                work' = [work EXCEPT ![r].step = "write", ![r].inode = inode,
                            ![r].cached = None,
                            ![r].value = [request |-> asked, data |-> data, at |-> now]]
    BY <1>4 DEF Answered
  <2>2. work[r].step = "call" /\ UNCHANGED <<index, kills>>
    BY <1>4 DEF Answered, bounds
  <2>3. /\ work'[r].step = "write" /\ work'[r].inode = inode
        /\ \A q \in Researchers : q # r => work'[q] = work[q]
    <3>1. work \in [Researchers -> Work]
      BY DEF IInv, TypeOK
    <3>2. work[r] \in Work
      BY <3>1
    <3> QED BY <2>1, <3>1, <3>2 DEF Work
  <2> SUFFICES ASSUME kills = 0, NEW i \in Inodes, NEW req \in Requests,
                      index'[req] = i \/ temp'[req] = i, content'[i] = Torn
               PROVE  Writing(i)'
    BY <2>2 DEF TornInv
  <2>4. CASE i = inode
    BY <2>3, <2>4 DEF Writing
  <2>5. CASE i # inode
    <3>1. index[req] = i \/ temp[req] = i
      BY <2>1, <2>2, <2>5 DEF IInv, TypeOK
    <3>2. i \notin gone
      BY <3>1 DEF InUse
    <3>3. content[i] = Torn
      BY <2>1, <2>5, <3>2
    <3>4. PICK q \in Researchers : work[q].step = "write" /\ work[q].inode = i
      BY <3>1, <3>3 DEF TornInv, Writing
    <3>5. q # r
      BY <2>2, <3>4
    <3> QED BY <2>3, <3>4, <3>5 DEF Writing
  <2> QED BY <2>4, <2>5
<1>5. ASSUME NEW r \in Researchers, Kill(r)
      PROVE  TornInv'
  <2>1. kills' = kills + 1 /\ kills \in Nat
    BY <1>5 DEF Kill, IInv, TypeOK
  <2> QED BY <2>1 DEF TornInv
<1>6. CASE Tick \/ UNCHANGED vars
  BY <1>6 DEF Tick, vars, disk, TornInv, Writing
<1> QED BY <1>1, <1>2, <1>3, <1>4, <1>5, <1>6 DEF Next, Proceed

(* However many writers overlap on a request, one whose temporary another  *)
(* has published completes the record: only a kill leaves a torn one.      *)
THEOREM NoTornRecord == Spec => []TornHasWriter
<1>1. IInv /\ TornInv => TornHasWriter
  BY DEF IInv, TypeOK, TornInv, TornHasWriter, Writing
<1> QED BY <1>1, IInvHolds, InitTorn, NextTorn, PTL DEF Spec
-----------------------------------------------------------------------------
(* CitationChecker.                                                        *)

(* _sanitize_references calls a list supported only when nothing of it was *)
(* removed and something was retained: each of its references names an     *)
(* item of this run and of the paper, and none is given twice.             *)
THEOREM SupportedIsWhole ==
  ASSUME NEW refs, NEW indexed, NEW paper
  PROVE  SupportStatus(refs, indexed, paper) = "supported"
           <=> /\ DOMAIN refs # {}
               /\ \A i \in DOMAIN refs : Valid(refs, i, indexed, paper)
BY DEF SupportStatus, Retained, Removed, Places

(* What is retained, by whatever status, was written by the model, is of   *)
(* this run, is in the index and belongs to the paper that was asked about.*)
THEOREM RetainedIsKnown ==
  ASSUME NEW refs, NEW indexed, NEW paper, NEW e \in Retained(refs, indexed, paper)
  PROVE  /\ \E i \in DOMAIN refs : refs[i] = e
         /\ e \in Mine
         /\ e \in DOMAIN indexed
         /\ paper = AnyPaper \/ indexed[e] = paper
BY DEF Retained, Places, Valid

(* No two retained places name one item: an item is cited once.            *)
THEOREM RetainedOnce ==
  ASSUME NEW refs \in Seq(STRING), NEW indexed, NEW paper,
         NEW i \in Places(refs, indexed, paper), NEW j \in Places(refs, indexed, paper),
         refs[i] = refs[j]
  PROVE  i = j
<1>1. i \in 1..Len(refs) /\ j \in 1..Len(refs)
  BY DEF Places
<1>2. ~(i < j)
  BY <1>1 DEF Places, Valid
<1>3. ~(j < i)
  BY <1>1 DEF Places, Valid
<1>4. QED
  BY <1>1, <1>2, <1>3

(* A sequence has a first place for each of its items.                     *)
LEMMA FirstMention ==
  ASSUME NEW refs \in Seq(STRING), NEW i \in DOMAIN refs
  PROVE  \E k \in DOMAIN refs : refs[k] = refs[i] /\ \A j \in 1..k - 1 : refs[j] # refs[k]
<1> DEFINE Less == OpToRel(<, Nat)
           Places_i == {k \in DOMAIN refs : refs[k] = refs[i]}
<1>1. DOMAIN refs = 1..Len(refs) /\ Len(refs) \in Nat
  OBVIOUS
<1>2. Places_i \subseteq Nat /\ Places_i # {}
  BY <1>1
<1>3. IsWellFoundedOn(Less, Nat)
  BY NatLessThanWellFounded
<1> HIDE DEF Less, Places_i
<1>4. PICK k \in Places_i : \A j \in Places_i : ~(<<j, k>> \in Less)
  BY <1>2, <1>3, WFMin
<1>5. \A j \in Places_i : ~(j < k)
  BY <1>2, <1>4 DEF Less, OpToRel
<1>6. QED
  BY <1>1, <1>5 DEF Places_i

(* Nothing citable is lost: an item of this run and of the paper that is   *)
(* mentioned anywhere in the list is retained, at its first mention;       *)
(* a repetition or a foreign reference beside it only lowers the status.   *)
THEOREM CitableIsRetained ==
  ASSUME NEW refs \in Seq(STRING), NEW indexed, NEW paper, NEW i \in DOMAIN refs,
         refs[i] \in Mine, refs[i] \in DOMAIN indexed,
         paper = AnyPaper \/ indexed[refs[i]] = paper
  PROVE  refs[i] \in Retained(refs, indexed, paper)
<1>1. PICK k \in DOMAIN refs : refs[k] = refs[i] /\ \A j \in 1..k - 1 : refs[j] # refs[k]
  BY FirstMention
<1>2. Valid(refs, k, indexed, paper)
  BY <1>1 DEF Valid
<1>3. QED
  BY <1>1, <1>2 DEF Retained, Places
-----------------------------------------------------------------------------
(* A second look with more evidence, and the same papers for the items of  *)
(* before, never takes a reference away and never lowers a full support.   *)
THEOREM MoreEvidenceNeverHurts ==
  ASSUME NEW refs, NEW indexed, NEW larger, NEW paper,
         DOMAIN indexed \subseteq DOMAIN larger,
         \A e \in DOMAIN indexed : larger[e] = indexed[e]
  PROVE  /\ Retained(refs, indexed, paper) \subseteq Retained(refs, larger, paper)
         /\ SupportStatus(refs, indexed, paper) = "supported"
              => SupportStatus(refs, larger, paper) = "supported"
<1>1. \A i : Valid(refs, i, indexed, paper) => Valid(refs, i, larger, paper)
  BY DEF Valid
<1>2. Retained(refs, indexed, paper) \subseteq Retained(refs, larger, paper)
  BY <1>1 DEF Retained, Places
<1>3. QED
  BY <1>1, <1>2, SupportedIsWhole

(* The legacy check of the demo report is the weaker one: what the checker *)
(* of a survey supports it supports too, of every paper.                   *)
THEOREM LegacyIsWeaker ==
  ASSUME NEW refs, NEW indexed, NEW paper,
         SupportStatus(refs, indexed, paper) = "supported"
  PROVE  ClaimSupported(refs, indexed)
BY SupportedIsWhole DEF ClaimSupported, Valid
-----------------------------------------------------------------------------
(* check_survey_draft puts each claim of the draft in one place: a claim   *)
(* is in the report or among the rejected ones, never in both, and what    *)
(* the report keeps in a critical section is fully supported.              *)
THEOREM DraftIsPartitioned ==
  ASSUME NEW draft, NEW indexed
  PROVE  LET report == CheckSurveyDraft(draft, indexed) IN
    /\ \A s \in Sections \ Critical : DOMAIN report.claims[s] = DOMAIN draft[s]
    /\ \A s \in Critical :
         /\ DOMAIN report.claims[s] \cup DOMAIN report.rejected[s] = DOMAIN draft[s]
         /\ DOMAIN report.claims[s] \cap DOMAIN report.rejected[s] = {}
         /\ \A k \in DOMAIN report.claims[s] : report.claims[s][k].status = "supported"
         /\ \A k \in DOMAIN report.rejected[s] : report.rejected[s][k].status # "supported"
<1>1. Critical \subseteq Sections
  BY DEF Critical, Sections
<1>2. QED
  BY <1>1 DEF CheckSurveyDraft, ClaimsAt, RejectedClaims, Rejects, Checked

(* A draft that is not called sanitized was published as it was written:   *)
(* no claim was rejected and every reference of every claim is known.      *)
THEOREM UnsanitizedIsWhole ==
  ASSUME NEW draft, NEW indexed, ~DraftSanitized(CheckSurveyDraft(draft, indexed))
  PROVE  \A s \in Sections :
    /\ DOMAIN CheckSurveyDraft(draft, indexed).claims[s] = DOMAIN draft[s]
    /\ \A k \in DOMAIN draft[s] : \A i \in DOMAIN draft[s][k] :
         draft[s][k][i] \in Mine /\ draft[s][k][i] \in DOMAIN indexed
<1> DEFINE report == CheckSurveyDraft(draft, indexed)
<1> SUFFICES ASSUME NEW s \in Sections
             PROVE  /\ DOMAIN report.claims[s] = DOMAIN draft[s]
                    /\ \A k \in DOMAIN draft[s] : \A i \in DOMAIN draft[s][k] :
                         draft[s][k][i] \in Mine /\ draft[s][k][i] \in DOMAIN indexed
  OBVIOUS
<1>0. ~DraftSanitized(report)
  OBVIOUS
<1>1. DOMAIN report.claims[s] = DOMAIN draft[s]
  <2>1. CASE s \in Critical
    <3>1. DOMAIN report.rejected[s] = {}
      <4> HIDE DEF report
      <4>1. QED
        BY <1>0, <2>1 DEF DraftSanitized
    <3>2. DOMAIN report.claims[s] \cup DOMAIN report.rejected[s] = DOMAIN draft[s]
      BY <2>1, DraftIsPartitioned
    <3>3. QED
      BY <3>1, <3>2
  <2>2. CASE s \notin Critical
    BY <2>2, DraftIsPartitioned
  <2>3. QED
    BY <2>1, <2>2
<1>2. \A k \in DOMAIN draft[s] : report.claims[s][k].status = "supported"
  <2>1. CASE s \in Critical
    BY <2>1, <1>1, DraftIsPartitioned
  <2>2. CASE s \notin Critical
    BY <1>0, <2>2, <1>1 DEF DraftSanitized
  <2>3. QED
    BY <2>1, <2>2
<1>3. \A k \in DOMAIN draft[s] : SupportStatus(draft[s][k], indexed, AnyPaper) = "supported"
  BY <1>1, <1>2 DEF CheckSurveyDraft, ClaimsAt, Checked
<1>4. QED
  BY <1>1, <1>3, SupportedIsWhole DEF Valid

(* A report that may be published has a summary claim and a key finding,   *)
(* each with at least one reference, all of them known evidence of the run.*)
THEOREM PublishableIsGrounded ==
  ASSUME NEW draft, NEW indexed, Publishable(CheckSurveyDraft(draft, indexed)),
         NEW s \in Critical
  PROVE  \E k \in DOMAIN draft[s] :
    /\ DOMAIN draft[s][k] # {}
    /\ \A i \in DOMAIN draft[s][k] : draft[s][k][i] \in Mine \cap DOMAIN indexed
<1>1. s \in Sections
  BY DEF Critical, Sections
<1>2. PICK k \in DOMAIN CheckSurveyDraft(draft, indexed).claims[s] :
        CheckSurveyDraft(draft, indexed).claims[s][k].status = "supported"
  BY DEF Publishable
<1>3. k \in DOMAIN draft[s] /\ SupportStatus(draft[s][k], indexed, AnyPaper) = "supported"
  BY <1>1, <1>2 DEF CheckSurveyDraft, ClaimsAt, Checked
<1>4. QED
  BY <1>3, SupportedIsWhole DEF Valid

(* An analysis that is not called degraded lost nothing: each finding is   *)
(* kept and supported, by references to this very paper.                   *)
THEOREM UndegradedIsWhole ==
  ASSUME NEW analysis, NEW indexed, NEW paper, ~AnalysisSanitized(analysis, indexed, paper)
  PROVE  \A c \in Categories : LET checked == CheckPaperAnalysis(analysis, indexed, paper)[c] IN
    /\ DOMAIN checked = DOMAIN analysis[c]
    /\ \A k \in DOMAIN checked : checked[k].status = "supported"
BY DEF AnalysisSanitized, CheckPaperAnalysis, CheckedFindings, KeptFindings,
       Checked, SupportStatus
-----------------------------------------------------------------------------
(* HybridRetrieval.                                                        *)

Calls ==
  [requested : Modes, vector : BOOLEAN, chunks : SUBSET STRING,
   lexical : SUBSET STRING, near : SUBSET STRING, fails : Stages \cup {NoFailure},
   down : BOOLEAN, converts : BOOLEAN, k : Nat]
IsCall(c) ==
  c \in Calls /\ IsFiniteSet(c.lexical) /\ IsFiniteSet(c.near)
-----------------------------------------------------------------------------
LEMMA CountTypes ==
  ASSUME NEW c, IsCall(c)
  PROVE  /\ LexicalCount(c) \in Nat /\ VectorCount(c) \in Nat
         /\ FusedCount(c) \in Nat /\ Returned(c) \in Nat
         /\ Returned(c) <= FusedCount(c)
<1>1. /\ Cardinality(c.lexical) \in Nat /\ Cardinality(c.near) \in Nat
      /\ Cardinality(c.lexical \cup c.near) \in Nat
  BY FS_CardinalityType, FS_Union DEF IsCall
<1>2. c.k \in Nat
  BY DEF IsCall, Calls
<1>3. LexicalCount(c) \in Nat /\ VectorCount(c) \in Nat
  BY <1>1 DEF LexicalCount, VectorCount, Counted
<1>4. FusedCount(c) \in Nat
  BY <1>1 DEF FusedCount, Counted
<1>5. QED
  BY <1>2, <1>3, <1>4 DEF Returned, Least

(* The events of the retriever are of the form that its models demand, but *)
(* for one case: a failure before the vector source was asked, in a call   *)
(* that was to be hybrid. That event claims the planned mode "hybrid"      *)
(* without an attempt, cannot be built, and its ValidationError takes the  *)
(* place of the exception that it was to tell.                             *)
THEOREM EventsAreAccepted ==
  ASSUME NEW c, IsCall(c)
  PROVE  Accepted(Event(c))
           <=> ~(Planned(c) = "hybrid" /\ FailsAt(c) \in {"validation", "lexical"})
<1>1. Returned(c) <= FusedCount(c)
  BY CountTypes
<1>2. CountsAgree(Event(c))
  BY <1>1 DEF CountsAgree, Event
<1>3. c.requested \in Modes /\ c.vector \in BOOLEAN /\ c.down \in BOOLEAN
  BY DEF IsCall, Calls
<1>4. Event(c).status = "ok" <=> FailsAt(c) = NoFailure
  BY DEF Event
<1>5. Event(c).stage = FailsAt(c) /\ Event(c).code = Code(FailsAt(c))
  BY DEF Event
<1>6. FailsAt(c) \in Stages \cup {"evidence_conversion", NoFailure}
  BY DEF FailsAt, Reached
<1>7. Code(FailsAt(c)) = NoFailure <=> FailsAt(c) = NoFailure
  BY <1>6 DEF Code, Stages, VectorStages, NoFailure
<1>8. StateIsValid(Event(c))
        <=> ~(Planned(c) = "hybrid" /\ FailsAt(c) \in {"validation", "lexical"})
  <2>1. /\ Event(c).attempted = Attempted(c) /\ Event(c).vector = VectorCount(c)
        /\ Event(c).requested = c.requested
        /\ Event(c).actual = (IF c.chunks = {} THEN "lexical" ELSE Actual(c))
        /\ Event(c).degraded = (c.chunks # {} /\ Degrades(c))
    BY DEF Event
  <2>2. ~Attempted(c) => VectorCount(c) = 0
    BY DEF Attempted, VectorCount, Counted, Actual, Degrades, Planned
  <2>3. Degrades(c) => /\ c.requested = "auto" /\ Actual(c) = "lexical"
                       /\ Planned(c) = "hybrid" /\ c.fails \in VectorStages
    BY DEF Degrades, Actual
  <2>4. Degrades(c) => FailsAt(c) \notin {"validation", "lexical"}
    BY <2>3 DEF FailsAt, VectorStages, NoFailure
  <2>5. c.chunks = {} => FailsAt(c) = NoFailure
    BY DEF FailsAt, Reached
  <2>6. c.chunks # {} =>
          (Attempted(c) <=> Planned(c) = "hybrid" /\ FailsAt(c) \notin {"validation", "lexical"})
    BY DEF Attempted
  <2>7. Actual(c) = "hybrid" <=> Planned(c) = "hybrid" /\ ~Degrades(c)
    BY DEF Actual, Planned
  <2>8. NoFailure \notin {"validation", "lexical"}
    BY DEF NoFailure
  <2>9. QED
    BY <2>1, <2>2, <2>3, <2>4, <2>5, <2>6, <2>7, <2>8 DEF StateIsValid
<1>9. QED
  BY <1>2, <1>4, <1>5, <1>7, <1>8 DEF Accepted

(* A retrieval that needs no vector source, or has none, tells the sink    *)
(* exactly one event, whatever fails; and so does every other one, once    *)
(* its lexical search is done.                                             *)
COROLLARY OneEventIsDelivered ==
  ASSUME NEW c, IsCall(c),
         Planned(c) = "lexical" \/ FailsAt(c) \notin {"validation", "lexical"}
  PROVE  Delivered(c) = {Event(c)} /\ Result(c) # "validation_error"
BY EventsAreAccepted DEF Delivered, Result

(* Only an automatic retrieval goes on without the vector source, only     *)
(* when that was unavailable, and it says so: a retrieval that was to be   *)
(* hybrid never ends well as a lexical one without being told degraded.    *)
THEOREM NoSilentFallback ==
  ASSUME NEW c, IsCall(c), c.chunks # {}, Result(c) = "evidence",
         Planned(c) = "hybrid", Event(c).actual = "lexical"
  PROVE  Event(c).degraded /\ c.requested = "auto" /\ c.down
BY DEF Event, Actual, Degrades, Planned

(* A forced hybrid retrieval has no other end than hybrid evidence or an   *)
(* exception, when there are chunks to search and a vector source.         *)
THEOREM HybridIsForced ==
  ASSUME NEW c, IsCall(c), c.chunks # {}, c.requested = "hybrid", c.vector,
         Result(c) = "evidence"
  PROVE  Event(c).actual = "hybrid" /\ Event(c).attempted /\ c.fails \notin VectorStages
<1>1. Planned(c) = "hybrid" /\ ~Degrades(c)
  BY DEF Planned, Degrades
<1>2. Actual(c) = "hybrid"
  BY <1>1 DEF Actual
<1>3. FailsAt(c) = NoFailure
  BY DEF Result
<1>4. Reached(c) = Stages
  BY <1>2 DEF Reached
<1>5. c.fails \notin VectorStages
  BY <1>3, <1>4 DEF FailsAt, Stages, VectorStages, NoFailure
<1>6. QED
  BY <1>1, <1>2, <1>3, <1>5 DEF Event, Attempted, NoFailure
-----------------------------------------------------------------------------
(* A fused score is at most 1, so that the clamp of the code never ties    *)
(* two candidates.                                                         *)
THEOREM ScoresNeedNoClamp ==
  ASSUME NEW k \in Nat, k >= 1, NEW l \in Nat, l >= 1, NEW v \in Nat, v >= 1
  PROVE  Both(k, l, v).num <= Both(k, l, v).den /\ One(k, l).num <= One(k, l).den
<1>1. (k + 1) * (k + l) <= (k + v) * (k + l)
  OBVIOUS
<1>2. (k + 1) * (k + v) <= (k + l) * (k + v)
  OBVIOUS
<1>3. (k + 1) * (2 * k + l + v) = (k + 1) * (k + l) + (k + 1) * (k + v)
  OBVIOUS
<1>4. 2 * (k + l) * (k + v) = (k + v) * (k + l) + (k + l) * (k + v)
  OBVIOUS
<1>5. QED
  BY <1>1, <1>2, <1>3, <1>4 DEF Both, One

(* Being found by the second source too always raises a candidate, however *)
(* far down it stands there.                                               *)
THEOREM SecondSourceRaises ==
  ASSUME NEW k \in Nat, k >= 1, NEW l \in Nat, l >= 1, NEW v \in Nat, v >= 1
  PROVE  Below(One(k, l), Both(k, l, v))
<1>1. DEFINE x == k + l
             y == k + v
             m == k + 1
<1>2. x \in Nat /\ y \in Nat /\ m \in Nat /\ x >= 1 /\ y >= 1 /\ m >= 1
  OBVIOUS
<1>3. Below(One(k, l), Both(k, l, v)) <=> m * (2 * x * y) < (m * (x + y)) * (2 * x)
  BY DEF Below, One, Both
<1> HIDE DEF x, y, m
<1>4. (m * (x + y)) * (2 * x) = m * (2 * x * y) + m * (2 * x * x)
  BY <1>2
<1>5. m * (2 * x * x) > 0
  BY <1>2
<1>6. QED
  BY <1>2, <1>3, <1>4, <1>5
-----------------------------------------------------------------------------
(* ContextSelection.                                                       *)

(* Nothing of another candidate, of a date after the cutoff or of another  *)
(* version reaches a stage, neither as a source nor as the ground of a     *)
(* chunk or of a piece of evidence.                                        *)
THEOREM PacketIsScoped ==
  ASSUME NEW data, IsPartition(data), NEW stage \in PacketStages,
         NEW cutoff, NEW target, NEW found
  PROVE  LET packet == Packet(stage, data, cutoff, target, found) IN
    /\ \A d \in packet.sources :
         /\ d.candidate = data.candidate
         /\ d.as_of <= cutoff
         /\ target = NoVersion \/ d.version \in {NoVersion, target}
    /\ \A c \in packet.chunks : \E d \in packet.sources : d.id = c.source
    /\ \A e \in packet.evidence : \A s \in e.sources :
         \E d \in packet.sources : d.id = s /\ d.as_of <= cutoff
<1> DEFINE packet == Packet(stage, data, cutoff, target, found)
<1>1. packet.sources \subseteq ScopedDocuments(data, cutoff, target)
  BY DEF Packet, SelectedDocuments, First
<1>2. \A c \in packet.chunks : c.source \in Ids(packet.sources)
  BY DEF Packet
<1>3. \A e \in packet.evidence : e.sources \subseteq Ids(packet.sources)
  BY DEF Packet
<1> HIDE DEF packet
<1>4. QED
  BY <1>1, <1>2, <1>3 DEF ScopedDocuments, IsPartition, Ids, packet
-----------------------------------------------------------------------------
(* First keeps at most as many as it is asked for.                         *)
LEMMA FirstIsBounded ==
  ASSUME NEW S, IsFiniteSet(S), NEW n \in Nat,
         \A x \in S : x.at \in Nat,
         \A x, y \in S : x.at = y.at => x = y
  PROVE  IsFiniteSet(First(S, n)) /\ Cardinality(First(S, n)) <= n
<1> DEFINE Before(x) == {y \in S : y.at < x.at}
           rank == [x \in First(S, n) |-> Cardinality(Before(x)) + 1]
<1>1. First(S, n) \subseteq S /\ IsFiniteSet(First(S, n))
  BY FS_Subset DEF First
<1>2. \A x \in S : IsFiniteSet(Before(x)) /\ Cardinality(Before(x)) \in Nat
  BY FS_Subset, FS_CardinalityType
<1>3. \A x \in First(S, n) : Cardinality(Before(x)) < n
  BY DEF First
<1>4. rank \in [First(S, n) -> 1..n]
  BY <1>1, <1>2, <1>3
<1>5. ASSUME NEW x \in First(S, n), NEW y \in First(S, n), x.at < y.at
      PROVE  rank[x] # rank[y]
  <2>1. x \in S /\ y \in S
    BY <1>1
  <2>2. Before(x) \subseteq Before(y) /\ x \in Before(y) /\ x \notin Before(x)
    BY <2>1, <1>5
  <2>3. Cardinality(Before(x)) < Cardinality(Before(y))
    <3> HIDE DEF Before
    <3>1. Before(x) # Before(y)
      BY <2>2
    <3>2. QED
      BY <1>2, <2>1, <2>2, <3>1, FS_Subset
  <2>4. QED
    BY <1>2, <2>1, <2>3
<1>6. ASSUME NEW x \in First(S, n), NEW y \in First(S, n), rank[x] = rank[y]
      PROVE  x = y
  <2>1. x \in S /\ y \in S
    BY <1>1
  <2>2. x.at \in Nat /\ y.at \in Nat
    BY <2>1
  <2>3. ~(x.at < y.at)
    BY <1>5, <1>6
  <2>4. ~(y.at < x.at)
    BY <1>5, <1>6
  <2>5. QED
    BY <2>1, <2>2, <2>3, <2>4
<1> HIDE DEF rank, Before
<1>7. IsFiniteSet(1..n) /\ Cardinality(1..n) = n
  BY FS_Interval
<1>8. Cardinality(First(S, n)) <= Cardinality(1..n)
  BY <1>1, <1>4, <1>6, <1>7, FS_Injection DEF Injection, IsInjective
<1>9. QED
  BY <1>1, <1>7, <1>8

(* Places are distinct natural numbers: the data come from tuples.         *)
InOrder(S) ==
  /\ IsFiniteSet(S)
  /\ \A x \in S : x.at \in Nat
  /\ \A x, y \in S : x.at = y.at => x = y

(* What a stage has found: the retriever is asked where it searches only.  *)
MayFind(stage, data, documents, found) ==
  stage \in Searching => found \in Retrievable(data, documents)

(* A packet never holds more sources, chunks or evidence than the limits   *)
(* of the engine, whatever its data.                                       *)
THEOREM PacketIsBounded ==
  ASSUME PacketSources \in Nat, PacketEvidence \in Nat, PacketChunks \in Nat,
         NEW data, InOrder(data.documents), InOrder(data.evidence),
         IsFiniteSet(data.chunks), NEW stage \in PacketStages, NEW cutoff, NEW target,
         NEW found, MayFind(stage, data, ScopedDocuments(data, cutoff, target), found)
  PROVE  LET packet == Packet(stage, data, cutoff, target, found) IN
    /\ Cardinality(packet.sources) <= PacketSources
    /\ Cardinality(packet.evidence) <= PacketEvidence
    /\ Cardinality(packet.chunks) <= PacketChunks
<1> DEFINE packet == Packet(stage, data, cutoff, target, found)
<1>1. Cardinality(packet.sources) <= PacketSources
  <2>1. PICK D \in SUBSET data.documents : packet.sources = First(D, PacketSources)
    BY DEF Packet, SelectedDocuments, ScopedDocuments
  <2>2. InOrder(D)
    BY <2>1, FS_Subset DEF InOrder
  <2>3. QED
    BY <2>1, <2>2, FirstIsBounded DEF InOrder
<1>2. Cardinality(packet.evidence) <= PacketEvidence
  <2>1. packet.evidence \subseteq First(data.evidence, PacketEvidence)
    BY DEF Packet, ScopedEvidence
  <2>2. IsFiniteSet(First(data.evidence, PacketEvidence))
        /\ Cardinality(First(data.evidence, PacketEvidence)) <= PacketEvidence
    BY FirstIsBounded DEF InOrder
  <2>3. IsFiniteSet(packet.evidence)
        /\ Cardinality(packet.evidence) <= Cardinality(First(data.evidence, PacketEvidence))
    BY <2>1, <2>2, FS_Subset
  <2>4. Cardinality(packet.evidence) \in Nat
        /\ Cardinality(First(data.evidence, PacketEvidence)) \in Nat
    BY <2>2, <2>3, FS_CardinalityType
  <2>5. QED
    BY <2>2, <2>3, <2>4
<1>3. CASE stage \notin Searching
  <2>1. packet.chunks = {}
    BY <1>3 DEF Packet
  <2>2. QED
    BY <1>1, <1>2, <2>1, FS_EmptySet
<1>4. CASE stage \in Searching
  <2>1. packet.chunks \subseteq found
    BY DEF Packet
  <2>2. IsFiniteSet(found) /\ Cardinality(found) <= PacketChunks
    BY <1>4, FS_Subset DEF Retrievable, MayFind
  <2>3. IsFiniteSet(packet.chunks) /\ Cardinality(packet.chunks) <= Cardinality(found)
    BY <2>1, <2>2, FS_Subset
  <2>4. Cardinality(packet.chunks) \in Nat /\ Cardinality(found) \in Nat
    BY <2>2, <2>3, FS_CardinalityType
  <2>5. QED
    BY <1>1, <1>2, <2>2, <2>3, <2>4
<1>5. QED
  BY <1>3, <1>4

(* ContextPacket accepts what build makes of data CandidateContextData     *)
(* accepts, unless two pieces of evidence in it have the same identifier:  *)
(* nothing before the packet looks for that. A research packet, showing    *)
(* no evidence, is always accepted.                                        *)
THEOREM PacketIsAccepted ==
  ASSUME Limits, NEW data, IsPartition(data),
         InOrder(data.documents), InOrder(data.evidence), IsFiniteSet(data.chunks),
         NEW stage \in PacketStages, NEW cutoff, NEW target,
         NEW found, MayFind(stage, data, ScopedDocuments(data, cutoff, target), found)
  PROVE  LET packet == Packet(stage, data, cutoff, target, found) IN
    /\ Accepts(packet) <=> UniqueIds(packet.evidence)
    /\ stage = "research" => Accepts(packet)
<1> DEFINE packet == Packet(stage, data, cutoff, target, found)
<1>1. packet.sources \subseteq data.documents
  BY DEF Packet, SelectedDocuments, First, ScopedDocuments
<1>2. packet.evidence \subseteq data.evidence /\ packet.candidate = data.candidate
  BY DEF Packet, ScopedEvidence, First
<1>3. \A c \in packet.chunks : c.source \in Ids(packet.sources)
  BY DEF Packet
<1>4. \A e \in packet.evidence : e.sources \subseteq Ids(packet.sources)
  BY DEF Packet
<1>5. UniqueIds(packet.chunks)
  <2>1. CASE stage \notin Searching
    <3>1. packet.chunks = {}
      BY <2>1 DEF Packet
    <3>2. QED
      BY <3>1 DEF UniqueIds
  <2>2. CASE stage \in Searching
    <3>1. packet.chunks \subseteq found
      BY DEF Packet
    <3>2. UniqueIds(found)
      BY <2>2 DEF MayFind, Retrievable, UniqueIds
    <3> HIDE DEF packet
    <3>3. QED
      BY <3>1, <3>2 DEF UniqueIds
  <2>3. QED
    BY <2>1, <2>2
<1>6. UniqueIds(packet.sources)
  <2> HIDE DEF packet
  <2>1. QED
    BY <1>1 DEF IsPartition, UniqueIds
<1>7. /\ Cardinality(packet.sources) <= 5
      /\ Cardinality(packet.chunks) <= 8
      /\ Cardinality(packet.evidence) <= 12
  <2>1. /\ PacketSources \in Nat /\ PacketSources <= 5
        /\ PacketEvidence \in Nat /\ PacketEvidence <= 12
        /\ PacketChunks \in Nat /\ PacketChunks <= 8
    BY DEF Limits
  <2>2. /\ Cardinality(packet.sources) <= PacketSources
        /\ Cardinality(packet.evidence) <= PacketEvidence
        /\ Cardinality(packet.chunks) <= PacketChunks
    BY <2>1, PacketIsBounded
  <2>3. /\ Cardinality(packet.sources) \in Nat
        /\ Cardinality(packet.evidence) \in Nat
        /\ Cardinality(packet.chunks) \in Nat
    <3>1. packet.chunks \subseteq data.chunks
      BY DEF Packet, MayFind, Retrievable
    <3> HIDE DEF packet
    <3>2. QED
      BY <1>1, <1>2, <3>1, FS_Subset, FS_CardinalityType DEF InOrder
  <2> HIDE DEF packet
  <2>4. QED
    BY <2>1, <2>2, <2>3
<1>8. stage = "research" => packet.evidence = {}
  BY DEF Packet
<1> HIDE DEF packet
<1>9. Accepts(packet) <=> UniqueIds(packet.evidence)
  BY <1>1, <1>2, <1>3, <1>4, <1>5, <1>6, <1>7 DEF Accepts, IsPartition
<1>10. UniqueIds({})
  BY DEF UniqueIds
<1>11. QED
  BY <1>8, <1>9, <1>10 DEF packet
-----------------------------------------------------------------------------
(* When they are few enough, First keeps them all.                         *)
LEMMA FirstKeepsFew ==
  ASSUME NEW S, InOrder(S), NEW n \in Nat, Cardinality(S) <= n
  PROVE  First(S, n) = S
<1> SUFFICES ASSUME NEW x \in S PROVE Cardinality({y \in S : y.at < x.at}) < n
  BY DEF First
<1> DEFINE Before == {y \in S : y.at < x.at}
<1>1. Before \subseteq S /\ x \notin Before
  BY DEF InOrder
<1> HIDE DEF Before
<1>2. IsFiniteSet(S) /\ Cardinality(S) \in Nat
  BY FS_CardinalityType DEF InOrder
<1>3. IsFiniteSet(Before) /\ Cardinality(Before) \in Nat /\ Cardinality(Before) < Cardinality(S)
  <2>1. Before # S
    BY <1>1
  <2>2. QED
    BY <1>1, <1>2, <2>1, FS_Subset, FS_CardinalityType
<1>4. Cardinality(Before) < n
  BY <1>2, <1>3
<1>5. QED
  BY <1>4 DEF Before

(* Where decisions are made nothing within the limits is withheld: when    *)
(* the scoped documents are few enough, every piece of the first evidence  *)
(* that rests on scoped documents alone is in the packet.                  *)
THEOREM PacketIsComplete ==
  ASSUME PacketSources \in Nat, NEW data, NEW stage \in Judging, NEW cutoff, NEW target,
         NEW found, InOrder(ScopedDocuments(data, cutoff, target)),
         Cardinality(ScopedDocuments(data, cutoff, target)) <= PacketSources,
         NEW e \in ScopedEvidence(data),
         e.sources \subseteq Ids(ScopedDocuments(data, cutoff, target))
  PROVE  e \in Packet(stage, data, cutoff, target, found).evidence
<1> DEFINE documents == ScopedDocuments(data, cutoff, target)
           D == {d \in documents : d.id \in Cited(ScopedEvidence(data))}
           sources == SelectedDocuments(stage, documents, ScopedEvidence(data), found)
<1>1. stage # "research" /\ stage # "poc_planning"
  BY DEF Judging
<1>2. sources = First(D, PacketSources)
  BY <1>1 DEF SelectedDocuments
<1>3. InOrder(D) /\ Cardinality(D) <= PacketSources
  <2>1. D \subseteq documents
    OBVIOUS
  <2>2. IsFiniteSet(documents) /\ Cardinality(documents) <= PacketSources
    BY DEF InOrder
  <2> HIDE DEF D, documents
  <2>3. IsFiniteSet(D) /\ Cardinality(D) <= Cardinality(documents)
    BY <2>1, <2>2, FS_Subset
  <2>4. Cardinality(D) \in Nat /\ Cardinality(documents) \in Nat
    BY <2>2, <2>3, FS_CardinalityType
  <2>5. InOrder(D)
    BY <2>1, <2>3 DEF InOrder, documents
  <2>6. QED
    BY <2>2, <2>3, <2>4, <2>5
<1>4. sources = D
  <2> HIDE DEF D, sources
  <2>1. QED
    BY <1>2, <1>3, FirstKeepsFew
<1>5. e.sources \subseteq Ids(D)
  BY DEF Cited, Ids
<1>6. Packet(stage, data, cutoff, target, found).evidence
        = {x \in ScopedEvidence(data) : x.sources \subseteq Ids(sources)}
  BY <1>1 DEF Packet
<1>7. QED
  BY <1>4, <1>5, <1>6
=============================================================================
