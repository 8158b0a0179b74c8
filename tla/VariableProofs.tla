--------------------------- MODULE VariableProofs ---------------------------
(***************************************************************************)
(* The proofs about VariableSync, for any variables, values, names and     *)
(* callbacks.                                                              *)
(*                                                                         *)
(* The reader applies to its variables what After applies to the owner's,  *)
(* so being at a message is having the owner's variables as of it.         *)
(***************************************************************************)
EXTENDS VariableSync, SequenceTheorems, TLAPS

(* The variables s after message m.                                        *)
After(s, m) ==
  IF m.kind = "mapping" THEN s
  ELSE IF m.id >= Len(s) THEN Append(s, m.value)
  ELSE [s EXCEPT ![m.id + 1] = m.value]

(* The owner's ids are positions, and a variable has one.                  *)
OwnerNumbers ==
  /\ \A i \in 1..Len(outVariables) : index[outVariables[i]] = i - 1
  /\ \A i, j \in 1..Len(outVariables) :
       outVariables[i] = outVariables[j] => i = j
  /\ \A n \in Name : outVariableMapping[n] < Len(outVariables)

(* The states p are the messages l, applied one by one to no variables.     *)
Applied(l, p) ==
  /\ Len(p) = Len(l) + 1
  /\ p[1] = <<>>
  /\ \A i \in 1..Len(l) : p[i + 1] = After(p[i], l[i])

(* A name is sent right before the first value of its variable.            *)
NamesFirst(l, p, ids) ==
  \A i \in 1..Len(l) :
    l[i].kind = "mapping" => l[i].id = Len(p[i]) /\ ids[l[i].name] = l[i].id

LogApplied ==
  /\ Applied(log, published)
  /\ published[Len(published)] = Current
  /\ NamesFirst(log, published, outVariableMapping)

ReaderAtLog == inVariables = published[handled + 1]

(* Every name the owner gave is known to the reader, or on its way.        *)
NamesOnTheirWay ==
  \A n \in Name :
    \/ inVariableMapping[n] = outVariableMapping[n]
    \/ /\ inVariableMapping[n] = NoId
       /\ \E i \in (handled + 1)..Len(log) :
            log[i] = Mapping(n, outVariableMapping[n])

(* A callback waits in one place.                                          *)
OneList ==
  \A cb \in Callback :
    /\ \A i, j \in Id : cb \in callbacks[i] /\ cb \in callbacks[j] => i = j
    /\ \A n \in Name : cb \in nameCallbackCache[n] =>
         byName[cb] = n /\ \A i \in Id : cb \notin callbacks[i]

IInv ==
  /\ TypeOK /\ OwnerNumbers /\ LogApplied
  /\ ReaderAtLog /\ NamesOnTheirWay /\ OneList /\ Informed

-----------------------------------------------------------------------------
(* One more message, and the variables after it, keep states applied.      *)
LEMMA OneMore ==
  ASSUME NEW l \in Seq(Message), NEW p \in Seq(Seq(Value)), Applied(l, p),
         NEW m \in Message, NEW s \in Seq(Value), s = After(p[Len(p)], m)
  PROVE  /\ Applied(Append(l, m), Append(p, s))
         /\ Append(l, m) \in Seq(Message)
         /\ Append(p, s) \in Seq(Seq(Value))
<1> DEFINE ll == Append(l, m)
           pp == Append(p, s)
<1>1. /\ ll \in Seq(Message) /\ Len(ll) = Len(l) + 1
      /\ ll[Len(ll)] = m /\ \A i \in 1..Len(l) : ll[i] = l[i]
  OBVIOUS
<1>2. /\ pp \in Seq(Seq(Value)) /\ Len(pp) = Len(p) + 1
      /\ pp[Len(pp)] = s /\ \A i \in 1..Len(p) : pp[i] = p[i]
  OBVIOUS
<1>3. Len(p) = Len(l) + 1 /\ Len(l) \in Nat
  BY DEF Applied
<1>4. Len(pp) = Len(ll) + 1 /\ pp[1] = <<>>
  BY <1>1, <1>2, <1>3 DEF Applied
<1>5. ASSUME NEW i \in 1..Len(ll)
      PROVE  pp[i + 1] = After(pp[i], ll[i])
  <2>1. CASE i \in 1..Len(l)
    <3>1. pp[i] = p[i] /\ pp[i + 1] = p[i + 1] /\ ll[i] = l[i]
      BY <1>1, <1>2, <1>3, <2>1
    <3> QED BY <3>1, <2>1 DEF Applied
  <2>2. CASE i = Len(ll)
    <3>1. pp[i] = p[Len(p)] /\ pp[i + 1] = s /\ ll[i] = m
      BY <1>1, <1>2, <1>3, <2>2
    <3> QED BY <3>1
  <2> QED BY <2>1, <2>2, <1>1, <1>3
<1> HIDE DEF ll, pp
<1>6. Applied(ll, pp)
  BY <1>4, <1>5 DEF Applied
<1> QED BY <1>1, <1>2, <1>6 DEF ll, pp

(* So do the names, if the message is no mapping or has the next id.       *)
LEMMA OneMoreName ==
  ASSUME NEW l \in Seq(Message), NEW p \in Seq(Seq(Value)), Len(p) = Len(l) + 1,
         NEW ids, NEW m \in Message, NEW s, NamesFirst(l, p, ids),
         m.kind = "mapping" => m.id = Len(p[Len(p)]) /\ ids[m.name] = m.id
  PROVE  NamesFirst(Append(l, m), Append(p, s), ids)
<1> SUFFICES ASSUME NEW i \in 1..Len(Append(l, m)), Append(l, m)[i].kind = "mapping"
             PROVE  /\ Append(l, m)[i].id = Len(Append(p, s)[i])
                    /\ ids[Append(l, m)[i].name] = Append(l, m)[i].id
  BY DEF NamesFirst
<1>1. CASE i \in 1..Len(l)
  <2>1. Append(p, s)[i] = p[i] /\ Append(l, m)[i] = l[i]
    BY <1>1
  <2> QED BY <2>1, <1>1 DEF NamesFirst
<1>2. CASE i = Len(l) + 1
  <2>1. Append(p, s)[i] = p[Len(p)] /\ Append(l, m)[i] = m
    BY <1>2
  <2> QED BY <2>1
<1> QED BY <1>1, <1>2

-----------------------------------------------------------------------------
(* The owner's part of the invariant, and what its steps leave in place.   *)
OwnerInv ==
  /\ value \in [Var -> Value]
  /\ index \in [Var -> Id]
  /\ outVariables \in Seq(Var)
  /\ outVariableMapping \in [Name -> Id \cup {NoId}]
  /\ log \in Seq(Message)
  /\ published \in Seq(Seq(Value))
  /\ OwnerNumbers /\ LogApplied

Extended ==
  /\ Len(log') >= Len(log)
  /\ \A i \in 1..Len(log) : log'[i] = log[i]
  /\ Len(published') >= Len(published)
  /\ \A i \in 1..Len(published) : published'[i] = published[i]

(* What the owner has is a sequence of values.                             *)
LEMMA CurrentType ==
  ASSUME OwnerInv
  PROVE  Current \in Seq(Value) /\ Len(Current) = Len(outVariables)
BY DEF OwnerInv, Current

(* Two messages, one after the other.                                      *)
LEMMA TwoOne ==
  ASSUME NEW a, NEW b
  PROVE  <<a>> \o <<b>> = <<a, b>>
<1> DEFINE S == {a, b}
<1>1. <<a>> \in Seq(S) /\ <<b>> \in Seq(S) /\ <<a, b>> \in Seq(S)
  OBVIOUS
<1>2. /\ <<a>> \o <<b>> \in Seq(S) /\ Len(<<a>> \o <<b>>) = 2
      /\ \A i \in 1..2 : (<<a>> \o <<b>>)[i] = IF i <= 1 THEN <<a>>[i] ELSE <<b>>[i - 1]
  BY <1>1, ConcatProperties
<1>3. \A i \in 1..2 : (<<a>> \o <<b>>)[i] = <<a, b>>[i]
  BY <1>2
<1> HIDE DEF S
<1> QED BY <1>1, <1>2, <1>3, SeqEqual

(* Appending two messages is appending one after the other.                *)
LEMMA TwoAppended ==
  ASSUME NEW S, NEW l \in Seq(S), NEW a \in S, NEW b \in S
  PROVE  l \o <<a, b>> = Append(Append(l, a), b)
<1>1. l \o (<<a>> \o <<b>>) = (l \o <<a>>) \o <<b>>
  BY ConcatAssociative
<1>2. Append(l, a) = l \o <<a>> /\ l \o <<a>> \in Seq(S)
  BY AppendIsConcat
<1>3. Append(l \o <<a>>, b) = (l \o <<a>>) \o <<b>>
  BY <1>2, AppendIsConcat
<1> QED BY <1>1, <1>2, <1>3, TwoOne

(* A registration appends one variable, and the messages that say so.      *)
LEMMA RegisterOutKeeps ==
  ASSUME OwnerInv, NEW v \in Var, NEW n \in Name \cup {NoName}, RegisterOut(v, n)
  PROVE  OwnerInv' /\ Extended
<1> DEFINE id == Len(outVariables)
           u  == Update(id, value[v])
           m  == Mapping(n, id)
<1>1. /\ value' = value /\ id \in Id
      /\ outVariables' = Append(outVariables, v)
      /\ index' = [index EXCEPT ![v] = id]
      /\ \A i \in 1..Len(outVariables) : outVariables[i] # v
  BY DEF RegisterOut, Id, OwnerInv
<1>2. /\ outVariables' \in Seq(Var) /\ Len(outVariables') = id + 1
      /\ outVariables'[id + 1] = v
      /\ \A i \in 1..id : outVariables'[i] = outVariables[i]
  BY <1>1 DEF OwnerInv
<1>3. Current' = Append(Current, value[v]) /\ Current' \in Seq(Value)
  <2>1. \A i \in 1..id : value'[outVariables'[i]] = value[outVariables[i]]
    BY <1>1, <1>2
  <2>2. Current' = [i \in 1..(id + 1) |-> IF i = id + 1 THEN value[v]
                                           ELSE value[outVariables[i]]]
    BY <1>1, <1>2, <2>1 DEF Current
  <2>3. value[v] \in Value /\ Current \in Seq(Value) /\ Len(Current) = id
    BY CurrentType DEF OwnerInv
  <2> QED BY <2>2, <2>3 DEF Current
<1>4. /\ u \in Message /\ u.kind = "value" /\ u.id = id /\ u.value = value[v]
      /\ n # NoName => m \in Message /\ m.kind = "mapping" /\ m.id = id /\ m.name = n
  BY <1>1 DEF Message, Update, Mapping, OwnerInv
<1>5. /\ outVariableMapping' \in [Name -> Id \cup {NoId}]
      /\ \A k \in Name : outVariableMapping'[k] =
           IF k = n THEN id ELSE outVariableMapping[k]
      /\ n \in Name => outVariableMapping[n] = NoId
  BY <1>1 DEF RegisterOut, NameFree, OwnerInv
<1>6. OwnerNumbers'
  <2>1. index' \in [Var -> Id] /\ index'[v] = id
        /\ \A w \in Var : w # v => index'[w] = index[w]
    BY <1>1 DEF OwnerInv
  <2>2. \A i \in 1..Len(outVariables') : index'[outVariables'[i]] = i - 1
    BY <1>1, <1>2, <2>1 DEF OwnerInv, OwnerNumbers
  <2>3. \A i, j \in 1..Len(outVariables') :
          outVariables'[i] = outVariables'[j] => i = j
    BY <1>1, <1>2 DEF OwnerInv, OwnerNumbers
  <2>4. \A k \in Name : outVariableMapping'[k] < Len(outVariables')
    <3> TAKE k \in Name
    <3>1. outVariableMapping[k] \in Int /\ outVariableMapping[k] < id
      BY VariableSyncAssumption DEF OwnerInv, OwnerNumbers, Id, NoId
    <3>2. id \in Nat
      BY DEF OwnerInv
    <3> HIDE DEF id
    <3> QED BY <1>2, <1>5, <3>1, <3>2
  <2> QED BY <2>2, <2>3, <2>4 DEF OwnerNumbers
<1>7. NamesFirst(log, published, outVariableMapping')
  <2> SUFFICES ASSUME NEW i \in 1..Len(log), log[i].kind = "mapping"
               PROVE  outVariableMapping'[log[i].name] = log[i].id
    BY DEF NamesFirst, OwnerInv, LogApplied
  <2>1. log[i] \in Message
    BY DEF OwnerInv
  <2>2. log[i].name \in Name /\ log[i].id \in Id
    BY <2>1 DEF Message
  <2>3. outVariableMapping[log[i].name] = log[i].id
    BY DEF OwnerInv, LogApplied, NamesFirst
  <2>4. log[i].id # NoId
    BY <2>2 DEF Id, NoId
  <2> QED BY <1>5, <2>2, <2>3, <2>4
<1>8. Applied(log, published) /\ published[Len(published)] = Current
      /\ Len(published) = Len(log) + 1 /\ Current \in Seq(Value)
      /\ Len(Current) = id /\ log \in Seq(Message) /\ published \in Seq(Seq(Value))
  BY CurrentType DEF OwnerInv, LogApplied, Applied
<1>9. CASE n = NoName
  <2>1. FirstMessages(v, n, id) = <<u>>
    BY <1>9 DEF FirstMessages
  <2>2. log' = Append(log, u) /\ published' = Append(published, Current')
    BY <2>1, <1>4, <1>8 DEF RegisterOut, Sent
  <2>3. Current' = After(Current, u)
    BY <1>3, <1>4, <1>8 DEF After
  <2>4. /\ Applied(log', published')
        /\ log' \in Seq(Message) /\ published' \in Seq(Seq(Value))
    BY <2>2, <2>3, <1>3, <1>4, <1>8, OneMore
  <2>5. NamesFirst(log', published', outVariableMapping')
    BY <2>2, <1>4, <1>7, <1>8, OneMoreName
  <2>6. published'[Len(published')] = Current' /\ Extended
    BY <2>2, <1>3, <1>8 DEF Extended
  <2> QED BY <1>1, <1>2, <1>5, <1>6, <2>4, <2>5, <2>6 DEF OwnerInv, LogApplied
<1>10. CASE n # NoName
  <2> DEFINE l1 == Append(log, m)
             p1 == Append(published, Current)
  <2>1. FirstMessages(v, n, id) = <<m, u>>
    BY <1>10, TwoOne DEF FirstMessages
  <2>2. log' = Append(l1, u) /\ published' = Append(p1, Current')
    <3>1. log' = log \o <<m, u>>
      BY <2>1 DEF RegisterOut, Sent
    <3>2. published' = published \o <<Current, Current'>>
      <4>1. published' = published
              \o [i \in 1..Len(<<m, u>>) |-> IF <<m, u>>[i].kind = "value"
                                              THEN Current' ELSE Current]
        BY <2>1 DEF RegisterOut
      <4>2. [i \in 1..Len(<<m, u>>) |-> IF <<m, u>>[i].kind = "value"
                                        THEN Current' ELSE Current]
            = <<Current, Current'>>
        BY <1>4, <1>10
      <4> QED BY <4>1, <4>2
    <3> HIDE DEF u, m
    <3> QED BY <3>1, <3>2, <1>3, <1>4, <1>8, <1>10, TwoAppended
  <2>3. Current = After(Current, m)
    BY <1>4, <1>10 DEF After
  <2>4. /\ Applied(l1, p1)
        /\ l1 \in Seq(Message) /\ p1 \in Seq(Seq(Value))
    BY <2>3, <1>4, <1>8, <1>10, OneMore
  <2>5. p1[Len(p1)] = Current /\ Len(p1) = Len(l1) + 1
    BY <1>8
  <2>6. NamesFirst(l1, p1, outVariableMapping')
    BY <1>4, <1>5, <1>7, <1>8, <1>10, OneMoreName
  <2>7. Extended
    BY <2>2, <1>3, <1>8, <1>4, <1>10 DEF Extended
  <2> HIDE DEF l1, p1
  <2>8. Current' = After(Current, u)
    BY <1>3, <1>4, <1>8 DEF After
  <2>9. /\ Applied(log', published')
        /\ log' \in Seq(Message) /\ published' \in Seq(Seq(Value))
    BY <2>2, <2>4, <2>5, <2>8, <1>3, <1>4, OneMore
  <2>10. NamesFirst(log', published', outVariableMapping')
    BY <2>2, <2>4, <2>5, <2>6, <1>4, OneMoreName
  <2>11. published'[Len(published')] = Current'
    BY <2>2, <2>4, <1>3
  <2> QED BY <1>1, <1>2, <1>5, <1>6, <2>7, <2>9, <2>10, <2>11 DEF OwnerInv, LogApplied
<1> QED BY <1>9, <1>10

(* An assignment changes one registered variable and says so, or none.     *)
LEMMA AssignKeeps ==
  ASSUME OwnerInv, NEW v \in Var, NEW x \in Value, Assign(v, x)
  PROVE  OwnerInv' /\ Extended
<1> DEFINE k == index[v]
           w == outVariables[k + 1]
           u == Update(index[w], value'[w])
<1>1. /\ index' = index /\ outVariables' = outVariables
      /\ outVariableMapping' = outVariableMapping
      /\ value' = [value EXCEPT ![v] = x] /\ value' \in [Var -> Value]
      /\ k \in Nat
  BY VariableSyncAssumption DEF Assign, OwnerInv, Id
<1>2. Applied(log, published) /\ published[Len(published)] = Current
      /\ Len(published) = Len(log) + 1 /\ Current \in Seq(Value)
      /\ Len(Current) = Len(outVariables)
      /\ log \in Seq(Message) /\ published \in Seq(Seq(Value))
      /\ outVariables \in Seq(Var)
  BY CurrentType DEF OwnerInv, LogApplied, Applied
<1>3. \A i \in 1..Len(outVariables) : i # k + 1 =>
        value'[outVariables[i]] = value[outVariables[i]]
  BY <1>1, <1>2 DEF OwnerInv, OwnerNumbers
<1>4. NamesFirst(log, published, outVariableMapping') /\ OwnerNumbers'
  BY <1>1 DEF OwnerInv, LogApplied, OwnerNumbers
<1>5. CASE k < Len(outVariables)
  <2>1. k + 1 \in 1..Len(outVariables) /\ w \in Var /\ index[w] = k
    BY <1>1, <1>2, <1>5 DEF OwnerInv, OwnerNumbers
  <2>2. NotifyOut(k) = <<u>>
    BY <1>5 DEF NotifyOut
  <2>3. u \in Message /\ u.kind = "value" /\ u.id = k /\ u.value = value'[w]
    BY <1>1, <2>1 DEF Message, Update, OwnerInv
  <2>4. Current' = [Current EXCEPT ![k + 1] = value'[w]] /\ Current' \in Seq(Value)
    <3>1. Current' = [i \in 1..Len(outVariables) |-> value'[outVariables[i]]]
      BY <1>1 DEF Current
    <3>2. Current = [i \in 1..Len(outVariables) |-> value[outVariables[i]]]
      BY DEF Current
    <3>3. value'[w] \in Value
      BY <1>1, <2>1
    <3> HIDE DEF k
    <3>4. Current' = [Current EXCEPT ![k + 1] = value'[w]]
      BY <1>3, <2>1, <3>1, <3>2
    <3> QED BY <1>2, <2>1, <3>3, <3>4
  <2>5. log' = Append(log, u) /\ published' = Append(published, Current')
    <3>1. log' = log \o <<u>>
          /\ published' = published \o [i \in 1..1 |-> Current']
      BY <2>2 DEF Assign, Sent
    <3>2. [i \in 1..1 |-> Current'] = <<Current'>>
      OBVIOUS
    <3> HIDE DEF u
    <3> QED BY <1>2, <2>3, <2>4, <3>1, <3>2, AppendIsConcat
  <2> HIDE DEF u, k, w
  <2>6. Current' = After(Current, u)
    <3>1. ~(u.id >= Len(Current)) /\ u.kind # "mapping"
      BY <1>1, <1>2, <1>5, <2>3
    <3> QED BY <3>1, <2>3, <2>4 DEF After
  <2>7. /\ Applied(log', published')
        /\ log' \in Seq(Message) /\ published' \in Seq(Seq(Value))
    BY <1>2, <2>3, <2>4, <2>5, <2>6, OneMore
  <2>8. NamesFirst(log', published', outVariableMapping')
    BY <1>2, <1>4, <2>3, <2>5, OneMoreName
  <2>9. published'[Len(published')] = Current' /\ Extended
    BY <1>2, <2>4, <2>5 DEF Extended
  <2> QED BY <1>1, <1>4, <2>7, <2>8, <2>9 DEF OwnerInv, LogApplied
<1>6. CASE ~(k < Len(outVariables))
  <2>1. NotifyOut(k) = <<>>
    BY <1>6 DEF NotifyOut
  <2>2. log' = log \o <<>> /\ published' = published \o [i \in 1..0 |-> Current']
    BY <2>1 DEF Assign, Sent
  <2>3. [i \in 1..0 |-> Current'] = <<>>
    OBVIOUS
  <2>4. log' = log /\ published' = published
    BY <1>2, <2>2, <2>3, ConcatEmptySeq
  <2>5. Current' = Current
    BY <1>1, <1>2, <1>3, <1>6 DEF Current
  <2> QED BY <1>1, <1>2, <1>4, <2>4, <2>5 DEF OwnerInv, LogApplied, Extended
<1> QED BY <1>5, <1>6

-----------------------------------------------------------------------------
(* The whole invariant holds of the initial state.                         *)
LEMMA InitInv == Init => IInv
<1> SUFFICES ASSUME Init PROVE IInv
  OBVIOUS
<1> USE DEF Init
<1>1. TypeOK
  BY VariableSyncAssumption DEF TypeOK, Id, NoId
<1>2. OwnerNumbers
  BY DEF OwnerNumbers, NoId
<1>3. LogApplied
  BY DEF LogApplied, Applied, NamesFirst, Current
<1>4. ReaderAtLog /\ NamesOnTheirWay
  BY DEF ReaderAtLog, NamesOnTheirWay
<1>5. OneList
  BY DEF OneList
<1>6. Informed
  BY DEF Informed
<1> QED BY <1>1, <1>2, <1>3, <1>4, <1>5, <1>6 DEF IInv

(* The owner's part follows from the whole.                                *)
LEMMA OwnerPart == IInv => OwnerInv
BY DEF IInv, TypeOK, OwnerInv

(* The rest of the invariant after a step of the owner.                    *)
LEMMA OwnerStep ==
  ASSUME IInv, OwnerInv', Extended, UNCHANGED reader, NamesOnTheirWay'
  PROVE  IInv'
<1>1. /\ handled' = handled /\ inVariables' = inVariables
      /\ inVariableMapping' = inVariableMapping /\ callbacks' = callbacks
      /\ nameCallbackCache' = nameCallbackCache /\ byName' = byName
      /\ known' = known
  BY DEF reader
<1>2. TypeOK'
  BY <1>1 DEF IInv, TypeOK, OwnerInv, Extended
<1>3. ReaderAtLog'
  <2>1. handled + 1 \in 1..Len(published)
    BY DEF IInv, TypeOK, LogApplied, Applied
  <2> QED BY <2>1, <1>1 DEF IInv, ReaderAtLog, Extended
<1>4. OneList'
  BY <1>1 DEF IInv, OneList
<1>5. Informed'
  BY <1>1 DEF IInv, Informed
<1> QED BY <1>2, <1>3, <1>4, <1>5 DEF IInv, OwnerInv

(* A registration preserves the invariant.                                 *)
LEMMA RegisterOutStep ==
  ASSUME IInv, NEW v \in Var, NEW n \in Name \cup {NoName}, RegisterOut(v, n)
  PROVE  IInv' /\ Extended
<1>1. OwnerInv' /\ Extended
  BY OwnerPart, RegisterOutKeeps
<1>2. UNCHANGED reader
  BY DEF RegisterOut
<1>3. NamesOnTheirWay'
  <2> SUFFICES ASSUME NEW k \in Name
               PROVE  \/ inVariableMapping[k] = outVariableMapping'[k]
                      \/ /\ inVariableMapping[k] = NoId
                         /\ \E i \in (handled + 1)..Len(log') :
                              log'[i] = Mapping(k, outVariableMapping'[k])
    BY <1>2 DEF NamesOnTheirWay, reader
  <2>1. outVariableMapping'[k] = IF k = n THEN Len(outVariables)
                                 ELSE outVariableMapping[k]
    BY DEF RegisterOut
  <2>2. handled \in 0..Len(log) /\ Len(log) \in Nat /\ Len(log') \in Nat
        /\ log \in Seq(Message)
    BY <1>1 DEF IInv, TypeOK, OwnerInv
  <2>3. CASE k # n
    BY <2>1, <2>2, <2>3, <1>1 DEF IInv, NamesOnTheirWay, Extended
  <2>4. CASE k = n
    <3>1. outVariableMapping[k] = NoId
      BY <2>4 DEF RegisterOut, NameFree
    <3>2. inVariableMapping[k] = NoId
      <4> SUFFICES ASSUME NEW i \in (handled + 1)..Len(log),
                          log[i] = Mapping(k, NoId)
                   PROVE  FALSE
        BY <3>1 DEF IInv, NamesOnTheirWay
      <4>1. log[i] \in Message
        BY <2>2
      <4> QED BY <4>1, VariableSyncAssumption DEF Message, Mapping, Id, NoId
    <3>3. log' = log \o FirstMessages(v, n, Len(outVariables))
      BY DEF RegisterOut, Sent
    <3>4. FirstMessages(v, n, Len(outVariables))
            = <<Mapping(n, Len(outVariables)), Update(Len(outVariables), value[v])>>
      BY <2>4, VariableSyncAssumption, TwoOne DEF FirstMessages
    <3>5. log'[Len(log) + 1] = Mapping(n, Len(outVariables)) /\ Len(log') = Len(log) + 2
      <4> DEFINE m == Mapping(n, Len(outVariables))
                 u == Update(Len(outVariables), value[v])
      <4>1. m \in Message /\ u \in Message
        BY <2>4 DEF RegisterOut, Message, Mapping, Update, IInv, TypeOK, Id
      <4>2. log' = log \o <<m, u>>
        BY <3>3, <3>4
      <4> HIDE DEF m, u
      <4>3. log' = Append(Append(log, m), u)
        BY <2>2, <4>1, <4>2, TwoAppended
      <4>4. log'[Len(log) + 1] = m /\ Len(log') = Len(log) + 2
        BY <2>2, <4>1, <4>3
      <4> QED BY <4>4 DEF m
    <3> QED BY <2>1, <2>2, <2>4, <3>2, <3>5
  <2> QED BY <2>3, <2>4
<1> QED BY <1>1, <1>2, <1>3, OwnerStep

(* So does an assignment.                                                  *)
LEMMA AssignStep ==
  ASSUME IInv, NEW v \in Var, NEW x \in Value, Assign(v, x)
  PROVE  IInv' /\ Extended
<1>1. OwnerInv' /\ Extended
  BY OwnerPart, AssignKeeps
<1>2. UNCHANGED reader /\ outVariableMapping' = outVariableMapping
  BY DEF Assign
<1>3. NamesOnTheirWay'
  <2>1. handled \in 0..Len(log) /\ Len(log) \in Nat /\ Len(log') \in Nat
    BY <1>1 DEF IInv, TypeOK, OwnerInv
  <2> QED BY <1>1, <1>2, <2>1 DEF IInv, NamesOnTheirWay, Extended, reader
<1> QED BY <1>1, <1>2, <1>3, OwnerStep

-----------------------------------------------------------------------------
(* What the reader's next message does to the owner's variables as of it.  *)
LEMMA NextState ==
  ASSUME IInv, NEW m, NEW kind, Arrived(m, kind)
  PROVE  /\ m \in Message /\ m.kind = kind
         /\ handled + 1 \in 1..Len(log) /\ handled' = handled + 1
         /\ published[handled + 2] = After(inVariables, m)
         /\ m.kind = "mapping" => /\ m.id = Len(inVariables)
                                  /\ outVariableMapping[m.name] = m.id
<1>1. handled + 1 \in 1..Len(log) /\ m = log[handled + 1] /\ log \in Seq(Message)
  BY DEF Arrived, IInv, TypeOK
<1>2. published[handled + 2] = After(published[handled + 1], log[handled + 1])
  <2>1. \A i \in 1..Len(log) : published[i + 1] = After(published[i], log[i])
    BY DEF IInv, LogApplied, Applied
  <2>2. (handled + 1) + 1 = handled + 2
    BY <1>1 DEF IInv, TypeOK
  <2> QED BY <1>1, <2>1, <2>2
<1> QED BY <1>1, <1>2 DEF Arrived, IInv, ReaderAtLog, LogApplied, NamesFirst

(* The parts that a message with a value leaves alone.                     *)
LEMMA ValueArrived ==
  ASSUME IInv, NEW m, Arrived(m, "value"), UNCHANGED owner,
         UNCHANGED <<inVariableMapping, callbacks, nameCallbackCache, byName>>
  PROVE  /\ handled' \in 0..Len(log')
         /\ OwnerInv' /\ NamesOnTheirWay' /\ OneList'
<1>1. OwnerInv'
  <2> USE DEF OwnerInv, OwnerNumbers, LogApplied, Applied, NamesFirst, Current, owner
  <2> QED BY OwnerPart
<1>2. handled' = handled + 1 /\ handled + 1 \in 1..Len(log) /\ m = log[handled + 1]
      /\ log' = log /\ outVariableMapping' = outVariableMapping
  BY DEF Arrived, IInv, TypeOK, owner
<1>3. NamesOnTheirWay'
  <2> SUFFICES ASSUME NEW n \in Name, NEW i \in (handled + 1)..Len(log),
                      log[i] = Mapping(n, outVariableMapping[n])
               PROVE  i \in (handled' + 1)..Len(log')
    BY <1>2 DEF IInv, NamesOnTheirWay
  <2>1. log[i].kind = "mapping"
    BY DEF Mapping
  <2>2. i # handled + 1
    BY <2>1 DEF Arrived
  <2> QED BY <1>2, <2>2 DEF IInv, TypeOK
<1>4. OneList'
  BY DEF IInv, OneList
<1> QED BY <1>1, <1>2, <1>3, <1>4

(* A new variable of the reader: whoever waits for its id is told.         *)
LEMMA RegisterInStep ==
  ASSUME IInv, NEW m, RegisterIn(m)
  PROVE  IInv' /\ inVariables' = published[handled + 2]
<1> DEFINE k == Len(inVariables)
<1>1. Arrived(m, "value") /\ UNCHANGED owner
      /\ UNCHANGED <<inVariableMapping, callbacks, nameCallbackCache, byName>>
      /\ m.id >= k /\ inVariables' = Append(inVariables, m.value)
  BY DEF RegisterIn
<1>2. m \in Message /\ m.kind = "value" /\ m.id \in Id /\ m.value \in Value
      /\ published[handled + 2] = After(inVariables, m)
  BY <1>1, NextState DEF Message
<1>3. inVariables' = published[handled + 2]
  BY <1>1, <1>2 DEF After
<1>4. OwnerInv' /\ handled' \in 0..Len(log') /\ NamesOnTheirWay' /\ OneList'
  BY <1>1, ValueArrived
<1>5. k \in Id /\ inVariables \in Seq(Value)
  BY <1>1, <1>2, VariableSyncAssumption DEF Id, IInv, TypeOK
<1>6. known' = [cb \in Callback |-> IF cb \in callbacks[k] THEN m.value
                                    ELSE known[cb]]
  BY DEF RegisterIn, NotifyIn
<1>7. TypeOK'
  BY <1>1, <1>2, <1>4, <1>5, <1>6 DEF IInv, TypeOK, OwnerInv
<1>8. ReaderAtLog'
  BY <1>1, <1>3, NextState DEF ReaderAtLog, owner, IInv, TypeOK
<1>9. Informed'
  <2>1. ASSUME NEW i \in Id, NEW cb \in Callback, cb \in callbacks[i],
               i < Len(inVariables')
        PROVE  known'[cb] = inVariables'[i + 1]
    <3>1. Len(inVariables') = k + 1 /\ i \in Nat /\ k \in Nat
      BY <1>1, <1>2, <1>5, VariableSyncAssumption DEF Id
    <3>2. CASE i = k
      BY <1>1, <1>2, <1>5, <1>6, <2>1, <3>2
    <3>3. CASE i < k
      <4>1. cb \notin callbacks[k]
        BY <1>5, <2>1, <3>1, <3>3 DEF IInv, OneList
      <4>2. inVariables'[i + 1] = inVariables[i + 1]
        BY <1>1, <1>5, <3>1, <3>3
      <4> QED BY <1>6, <2>1, <3>3, <4>1, <4>2 DEF IInv, Informed
    <3> QED BY <2>1, <3>1, <3>2, <3>3
  <2> QED BY <1>1, <2>1 DEF IInv, Informed
<1> QED BY <1>3, <1>4, <1>7, <1>8, <1>9 DEF IInv, OwnerInv

(* A new value of one it has: its callbacks are told, if it changed.       *)
LEMMA SetStep ==
  ASSUME IInv, NEW m, Set(m)
  PROVE  IInv' /\ inVariables' = published[handled + 2]
<1>1. Arrived(m, "value") /\ UNCHANGED owner
      /\ UNCHANGED <<inVariableMapping, callbacks, nameCallbackCache, byName>>
      /\ m.id < Len(inVariables)
      /\ inVariables' = [inVariables EXCEPT ![m.id + 1] = m.value]
  BY DEF Set
<1>2. m \in Message /\ m.kind = "value" /\ m.id \in Id /\ m.value \in Value
      /\ published[handled + 2] = After(inVariables, m)
      /\ m.id \in Nat /\ inVariables \in Seq(Value)
  BY <1>1, NextState, VariableSyncAssumption DEF Message, Id, IInv, TypeOK
<1>3. inVariables' = published[handled + 2]
  BY <1>1, <1>2 DEF After
<1>4. OwnerInv' /\ handled' \in 0..Len(log') /\ NamesOnTheirWay' /\ OneList'
  BY <1>1, ValueArrived
<1>5. known' = [cb \in Callback |->
                  IF inVariables[m.id + 1] # m.value /\ cb \in callbacks[m.id]
                  THEN m.value ELSE known[cb]]
  <2>1. CASE inVariables[m.id + 1] = m.value
    BY <2>1 DEF Set, IInv, TypeOK
  <2>2. CASE inVariables[m.id + 1] # m.value
    BY <2>2 DEF Set, NotifyIn
  <2> QED BY <2>1, <2>2
<1>6. inVariables' \in Seq(Value) /\ Len(inVariables') = Len(inVariables)
  BY <1>1, <1>2
<1>7. TypeOK'
  BY <1>1, <1>2, <1>4, <1>5, <1>6 DEF IInv, TypeOK, OwnerInv
<1>8. ReaderAtLog'
  BY <1>1, <1>3, NextState DEF ReaderAtLog, owner, IInv, TypeOK
<1>9. Informed'
  <2>1. ASSUME NEW i \in Id, NEW cb \in Callback, cb \in callbacks[i],
               i < Len(inVariables')
        PROVE  known'[cb] = inVariables'[i + 1]
    <3>1. i \in Nat /\ known[cb] = inVariables[i + 1]
      BY <1>6, <2>1, VariableSyncAssumption DEF IInv, Informed, Id
    <3>2. CASE i = m.id
      BY <1>1, <1>2, <1>5, <2>1, <3>1, <3>2
    <3>3. CASE i # m.id
      <4>1. cb \notin callbacks[m.id]
        BY <1>2, <2>1, <3>3 DEF IInv, OneList
      <4> QED BY <1>1, <1>2, <1>5, <1>6, <2>1, <3>1, <3>3, <4>1
    <3> QED BY <3>2, <3>3
  <2> QED BY <1>1, <2>1 DEF IInv, Informed
<1> QED BY <1>3, <1>4, <1>7, <1>8, <1>9 DEF IInv, OwnerInv

(* A name: callbacks that waited for it wait for its variable, which the   *)
(* reader does not have yet.                                               *)
LEMMA RegisterMappingStep ==
  ASSUME IInv, NEW m, RegisterMapping(m)
  PROVE  IInv' /\ inVariables' = published[handled + 2]
<1>1. Arrived(m, "mapping") /\ UNCHANGED owner
      /\ UNCHANGED <<inVariables, byName, known>>
  BY DEF RegisterMapping
<1>2. m \in Message /\ m.kind = "mapping" /\ m.id \in Id /\ m.name \in Name
      /\ handled + 1 \in 1..Len(log) /\ handled' = handled + 1
      /\ published[handled + 2] = After(inVariables, m)
      /\ m.id = Len(inVariables) /\ outVariableMapping[m.name] = m.id
  BY <1>1, NextState DEF Message
<1>3. inVariables' = published[handled + 2]
  BY <1>1, <1>2 DEF After
<1>4. m.id # NoId
  BY <1>2, VariableSyncAssumption DEF Id, NoId
<1>5. OwnerInv'
  <2> USE DEF OwnerInv, OwnerNumbers, LogApplied, Applied, NamesFirst, Current, owner
  <2> QED BY <1>1, OwnerPart
<1>6. /\ \A n \in Name : inVariableMapping'[n] =
           IF n = m.name /\ inVariableMapping[n] = NoId THEN m.id
           ELSE inVariableMapping[n]
      /\ \A i \in Id : callbacks[i] \subseteq callbacks'[i]
      /\ \A i \in Id : i # m.id => callbacks'[i] = callbacks[i]
      /\ \A n \in Name : n # m.name => nameCallbackCache'[n] = nameCallbackCache[n]
      /\ inVariableMapping[m.name] = NoId =>
           /\ callbacks'[m.id] = callbacks[m.id] \cup nameCallbackCache[m.name]
           /\ nameCallbackCache'[m.name] = {}
      /\ inVariableMapping[m.name] # NoId =>
           callbacks' = callbacks /\ nameCallbackCache' = nameCallbackCache
  BY <1>2 DEF RegisterMapping, Moved, IInv, TypeOK
<1>7. TypeOK'
  <2>1. /\ inVariableMapping' \in [Name -> Id \cup {NoId}]
        /\ callbacks' \in [Id -> SUBSET Callback]
        /\ nameCallbackCache' \in [Name -> SUBSET Callback]
    <3>1. Moved(m.name, m.id) \in SUBSET Callback
      BY <1>2 DEF Moved, IInv, TypeOK
    <3>2. CASE inVariableMapping[m.name] = NoId
      BY <1>2, <3>1, <3>2 DEF RegisterMapping, IInv, TypeOK
    <3>3. CASE inVariableMapping[m.name] # NoId
      BY <3>3 DEF RegisterMapping, IInv, TypeOK
    <3> QED BY <3>2, <3>3
  <2>2. handled' \in 0..Len(log')
    BY <1>1, <1>2 DEF owner, IInv, TypeOK
  <2> QED BY <1>1, <1>5, <2>1, <2>2 DEF IInv, TypeOK, OwnerInv
<1>8. ReaderAtLog'
  BY <1>1, <1>2, <1>3 DEF ReaderAtLog, owner, IInv, TypeOK
<1>9. NamesOnTheirWay'
  <2> SUFFICES ASSUME NEW n \in Name
               PROVE  \/ inVariableMapping'[n] = outVariableMapping[n]
                      \/ /\ inVariableMapping'[n] = NoId
                         /\ \E i \in (handled' + 1)..Len(log) :
                              log[i] = Mapping(n, outVariableMapping[n])
    BY <1>1 DEF NamesOnTheirWay, owner
  <2>1. CASE n = m.name
    BY <1>2, <1>6, <2>1 DEF IInv, NamesOnTheirWay
  <2>2. CASE n # m.name
    <3>1. inVariableMapping'[n] = inVariableMapping[n]
      BY <1>6, <2>2
    <3>2. \A i \in (handled + 1)..Len(log) :
            log[i] = Mapping(n, outVariableMapping[n]) => i \in (handled' + 1)..Len(log)
      <4> SUFFICES ASSUME NEW i \in (handled + 1)..Len(log),
                          log[i] = Mapping(n, outVariableMapping[n])
                   PROVE  i # handled + 1
        BY <1>2 DEF IInv, TypeOK
      <4>1. log[i].name = n
        BY DEF Mapping
      <4>2. log[handled + 1] = m
        BY <1>1 DEF Arrived
      <4> QED BY <2>2, <4>1, <4>2
    <3> QED BY <3>1, <3>2 DEF IInv, NamesOnTheirWay
  <2> QED BY <2>1, <2>2
<1>10. OneList'
  BY <1>1, <1>2, <1>6 DEF IInv, OneList
<1>11. Informed'
  <2>1. ASSUME NEW i \in Id, NEW cb \in Callback, cb \in callbacks'[i],
               i < Len(inVariables)
        PROVE  known[cb] = inVariables[i + 1]
    <3>1. i # m.id
      BY <1>2, <2>1
    <3> QED BY <1>6, <2>1, <3>1 DEF IInv, Informed
  <2>2. ASSUME NEW cb \in Callback, byName[cb] # NoName
        PROVE  IF inVariableMapping'[byName[cb]] = NoId
               THEN cb \in nameCallbackCache'[byName[cb]]
               ELSE cb \in callbacks'[inVariableMapping'[byName[cb]]]
    <3>1. byName[cb] \in Name
      BY <2>2 DEF IInv, TypeOK
    <3>2. /\ inVariableMapping[byName[cb]] = NoId =>
               cb \in nameCallbackCache[byName[cb]]
          /\ inVariableMapping[byName[cb]] # NoId =>
               cb \in callbacks[inVariableMapping[byName[cb]]]
          /\ inVariableMapping[byName[cb]] \in Id \cup {NoId}
      BY <2>2, <3>1 DEF IInv, Informed, TypeOK
    <3> QED BY <1>2, <1>4, <1>6, <3>1, <3>2
  <2> QED BY <1>1, <2>1, <2>2 DEF Informed
<1> QED BY <1>3, <1>5, <1>7, <1>8, <1>9, <1>10, <1>11 DEF IInv, OwnerInv

(* What a new subscription leaves alone.                                   *)
LEMMA Subscribed ==
  ASSUME IInv,
         UNCHANGED <<handled, inVariables, inVariableMapping, owner>>,
         callbacks' \in [Id -> SUBSET Callback],
         nameCallbackCache' \in [Name -> SUBSET Callback],
         byName' \in [Callback -> Name \cup {NoName}],
         known' \in [Callback -> Value \cup {NoValue}],
         OneList', Informed'
  PROVE  IInv'
<1>1. OwnerInv'
  <2> USE DEF OwnerInv, OwnerNumbers, LogApplied, Applied, NamesFirst, Current, owner
  <2> QED BY OwnerPart
<1>2. TypeOK'
  BY <1>1 DEF IInv, TypeOK, OwnerInv, owner
<1>3. ReaderAtLog' /\ NamesOnTheirWay'
  BY DEF IInv, ReaderAtLog, NamesOnTheirWay, owner
<1> QED BY <1>1, <1>2, <1>3 DEF IInv, OwnerInv

(* What a subscriber can read is a value, or there is none.                *)
LEMMA ReadableType ==
  ASSUME IInv, NEW i \in Id
  PROVE  /\ Readable(i) \in Value \cup {NoValue}
         /\ i < Len(inVariables) => Readable(i) = inVariables[i + 1]
BY VariableSyncAssumption DEF Readable, IInv, TypeOK, Id

(* A subscription to an id.                                                *)
LEMMA SubscribeIdStep ==
  ASSUME IInv, NEW cb \in Callback, NEW i \in Id, SubscribeId(cb, i)
  PROVE  IInv'
<1>1. /\ UNCHANGED <<handled, inVariables, inVariableMapping, nameCallbackCache,
                     byName, owner>>
      /\ callbacks' = [callbacks EXCEPT ![i] = @ \cup {cb}]
      /\ known' = [known EXCEPT ![cb] = Readable(i)]
      /\ byName[cb] = NoName
      /\ \A j \in Id : cb \notin callbacks[j]
  BY DEF SubscribeId, Unused
<1>2. callbacks' \in [Id -> SUBSET Callback]
      /\ known' \in [Callback -> Value \cup {NoValue}]
  BY <1>1, ReadableType DEF IInv, TypeOK
<1>3. OneList'
  <2>1. \A n \in Name : cb \notin nameCallbackCache[n]
    BY <1>1, VariableSyncAssumption DEF IInv, OneList
  <2> QED BY <1>1, <2>1 DEF IInv, OneList, TypeOK
<1>4. Informed'
  <2>1. \A j \in Id : i < Len(inVariables) => Readable(i) = inVariables[i + 1]
    BY ReadableType
  <2> QED BY <1>1, <2>1 DEF IInv, Informed, TypeOK
<1> QED BY <1>1, <1>2, <1>3, <1>4, Subscribed DEF IInv, TypeOK

(* A subscription to a name.                                               *)
LEMMA SubscribeNameStep ==
  ASSUME IInv, NEW cb \in Callback, NEW n \in Name, SubscribeName(cb, n)
  PROVE  IInv'
<1>1. /\ UNCHANGED <<handled, inVariables, inVariableMapping, owner>>
      /\ byName' = [byName EXCEPT ![cb] = n]
      /\ byName[cb] = NoName /\ n # NoName
      /\ \A j \in Id : cb \notin callbacks[j]
  BY VariableSyncAssumption DEF SubscribeName, Unused
<1>2. \A k \in Name : cb \notin nameCallbackCache[k]
  BY <1>1, VariableSyncAssumption DEF IInv, OneList
<1>3. byName' \in [Callback -> Name \cup {NoName}]
  BY <1>1 DEF IInv, TypeOK
<1>4. CASE inVariableMapping[n] = NoId
  <2>1. /\ nameCallbackCache' = [nameCallbackCache EXCEPT ![n] = @ \cup {cb}]
        /\ callbacks' = callbacks /\ known' = known
    BY <1>4 DEF SubscribeName
  <2>2. nameCallbackCache' \in [Name -> SUBSET Callback]
    BY <2>1 DEF IInv, TypeOK
  <2>3. OneList'
    BY <1>1, <1>2, <2>1 DEF IInv, OneList, TypeOK
  <2>4. Informed'
    BY <1>1, <1>4, <2>1 DEF IInv, Informed, TypeOK
  <2> QED BY <1>1, <1>3, <2>1, <2>2, <2>3, <2>4, Subscribed DEF IInv, TypeOK
<1>5. CASE inVariableMapping[n] # NoId
  <2> DEFINE i == inVariableMapping[n]
  <2>1. /\ callbacks' = [callbacks EXCEPT ![i] = @ \cup {cb}]
        /\ known' = [known EXCEPT ![cb] = Readable(i)]
        /\ nameCallbackCache' = nameCallbackCache
        /\ i \in Id
    BY <1>5 DEF SubscribeName, IInv, TypeOK
  <2>2. callbacks' \in [Id -> SUBSET Callback]
        /\ known' \in [Callback -> Value \cup {NoValue}]
    BY <2>1, ReadableType DEF IInv, TypeOK
  <2>3. OneList'
    BY <1>1, <1>2, <2>1 DEF IInv, OneList, TypeOK
  <2>4. i < Len(inVariables) => Readable(i) = inVariables[i + 1]
    BY <2>1, ReadableType
  <2> HIDE DEF i
  <2>5. \A j \in Id, b \in Callback :
          (b \in callbacks'[j] /\ j < Len(inVariables'))
            => known'[b] = inVariables'[j + 1]
    BY <1>1, <2>1, <2>4 DEF IInv, Informed, TypeOK
  <2>6. \A b \in Callback :
          byName'[b] # NoName =>
            IF inVariableMapping'[byName'[b]] = NoId
            THEN b \in nameCallbackCache'[byName'[b]]
            ELSE b \in callbacks'[inVariableMapping'[byName'[b]]]
    <3> SUFFICES ASSUME NEW b \in Callback, byName'[b] # NoName
                 PROVE  IF inVariableMapping[byName'[b]] = NoId
                        THEN b \in nameCallbackCache[byName'[b]]
                        ELSE b \in callbacks'[inVariableMapping[byName'[b]]]
      BY <1>1, <2>1
    <3>1. CASE b = cb
      BY <1>1, <1>5, <2>1, <3>1 DEF IInv, TypeOK, i
    <3>2. CASE b # cb
      <4>1. byName'[b] = byName[b] /\ byName[b] \in Name
        BY <1>1, <3>2 DEF IInv, TypeOK
      <4>2. \A j \in Id : callbacks[j] \subseteq callbacks'[j]
        BY <2>1 DEF IInv, TypeOK
      <4> QED BY <4>1, <4>2 DEF IInv, Informed, TypeOK
    <3> QED BY <3>1, <3>2
  <2>7. Informed'
    BY <2>5, <2>6 DEF Informed
  <2> QED BY <1>1, <1>3, <2>1, <2>2, <2>3, <2>7, Subscribed DEF IInv, TypeOK
<1> QED BY <1>4, <1>5

-----------------------------------------------------------------------------
(* Whatever extends what was published is a publication, or nothing.       *)
LEMMA ExtendedPublishes ==
  ASSUME IInv, IInv', Extended, handled' = handled, inVariables' = inVariables
  PROVE  [Snapshot!Next]_(Snapshot!vars)
<1>1. published \in Seq(Seq(Value)) /\ published' \in Seq(Seq(Value))
  BY DEF IInv, TypeOK
<1>2. CASE Len(published') > Len(published)
  BY <1>1, <1>2 DEF Extended, Snapshot!Next, Snapshot!Publish
<1>3. CASE Len(published') = Len(published)
  <2>1. published' = published
    BY <1>1, <1>3, SeqEqual DEF Extended
  <2> QED BY <2>1 DEF Snapshot!vars
<1> QED BY <1>1, <1>2, <1>3 DEF Extended

(* A step of the owner publishes, a message handled is a state observed and*)
(* a subscription is a stutter.                                            *)
LEMMA NextInv ==
  ASSUME IInv, [Next]_vars
  PROVE  IInv' /\ [Snapshot!Next]_(Snapshot!vars)
<1>1. ASSUME NEW v \in Var, NEW n \in Name \cup {NoName}, RegisterOut(v, n)
      PROVE  IInv' /\ [Snapshot!Next]_(Snapshot!vars)
  <2>1. IInv' /\ Extended /\ handled' = handled /\ inVariables' = inVariables
    BY <1>1, RegisterOutStep DEF RegisterOut, reader
  <2> QED BY <2>1, ExtendedPublishes
<1>2. ASSUME NEW v \in Var, NEW x \in Value, Assign(v, x)
      PROVE  IInv' /\ [Snapshot!Next]_(Snapshot!vars)
  <2>1. IInv' /\ Extended /\ handled' = handled /\ inVariables' = inVariables
    BY <1>2, AssignStep DEF Assign, reader
  <2> QED BY <2>1, ExtendedPublishes
<1>3. ASSUME NEW m, Handle(m)
      PROVE  IInv' /\ [Snapshot!Next]_(Snapshot!vars)
  <2>1. IInv' /\ inVariables' = published[handled + 2]
    BY <1>3, RegisterInStep, SetStep, RegisterMappingStep DEF Handle
  <2>2. published' = published /\ \E kind : Arrived(m, kind)
    BY <1>3 DEF Handle, RegisterIn, Set, RegisterMapping, owner
  <2>3. handled' = handled + 1 /\ handled + 1 \in 1..Len(log)
        /\ Len(published) = Len(log) + 1
    BY <2>2, NextState DEF IInv, LogApplied, Applied
  <2>4. Snapshot!Observe
    BY <2>1, <2>2, <2>3 DEF Snapshot!Observe, IInv, TypeOK
  <2> QED BY <2>1, <2>4 DEF Snapshot!Next
<1>4. ASSUME NEW cb \in Callback, NEW i \in Id, SubscribeId(cb, i)
      PROVE  IInv' /\ [Snapshot!Next]_(Snapshot!vars)
  BY <1>4, SubscribeIdStep DEF SubscribeId, owner, Snapshot!vars
<1>5. ASSUME NEW cb \in Callback, NEW n \in Name, SubscribeName(cb, n)
      PROVE  IInv' /\ [Snapshot!Next]_(Snapshot!vars)
  BY <1>5, SubscribeNameStep DEF SubscribeName, owner, Snapshot!vars
<1>6. CASE UNCHANGED vars
  <2>1. OneList' /\ Informed'
    BY <1>6 DEF IInv, OneList, Informed, vars, reader
  <2>2. IInv'
    BY <1>6, <2>1, Subscribed DEF IInv, TypeOK, vars, reader
  <2> QED BY <1>6, <2>2 DEF vars, owner, reader, Snapshot!vars
<1> QED BY <1>1, <1>2, <1>3, <1>4, <1>5, <1>6 DEF Next

(* The strengthened invariant of the two contexts is inductive.            *)
THEOREM VariableInvariant == Spec => []IInv
<1>1. IInv /\ [Next]_vars => IInv'
  BY NextInv
<1> QED BY <1>1, InitInv, PTL DEF Spec

(* The reader's variables are always the owner's as of an earlier message, *)
(* in order: the contexts implement a reader of snapshots.                 *)
THEOREM SnapshotImplemented == Spec => ImplementsSnapshot
<1>1. Init => Snapshot!Init
  BY DEF Init, Snapshot!Init
<1>2. IInv /\ [Next]_vars => [Snapshot!Next]_(Snapshot!vars)
  BY NextInv
<1> QED BY <1>1, <1>2, VariableInvariant, PTL DEF Spec, ImplementsSnapshot, Snapshot!Spec

(* No subscriber is behind the variable it subscribed to.                  *)
THEOREM SubscribersInformed == Spec => []Informed
<1>1. IInv => Informed
  BY DEF IInv
<1> QED BY <1>1, VariableInvariant, PTL

(* A name leads to the variable its owner gave it to, and all arrive.      *)
THEOREM NamesLead == Spec => []NamesAgree
<1>1. IInv => NamesAgree
  <2> SUFFICES ASSUME IInv PROVE NamesAgree
    OBVIOUS
  <2>1. \A n \in Name : inVariableMapping[n] \in {NoId, outVariableMapping[n]}
    BY DEF IInv, NamesOnTheirWay
  <2>2. ASSUME handled = Len(log)
        PROVE  inVariableMapping = outVariableMapping
    <3>1. \A n \in Name : inVariableMapping[n] = outVariableMapping[n]
      BY <2>2 DEF IInv, NamesOnTheirWay, TypeOK
    <3> QED BY <3>1 DEF IInv, TypeOK
  <2> QED BY <2>1, <2>2 DEF NamesAgree
<1> QED BY <1>1, VariableInvariant, PTL

(* Every variable of the two contexts keeps its type.                      *)
THEOREM VariablesTypeCorrect == Spec => []TypeOK
<1>1. IInv => TypeOK
  BY DEF IInv
<1> QED BY <1>1, VariableInvariant, PTL

-----------------------------------------------------------------------------
(* Names without a variable.                                               *)

(* The two messages of a named registration stay together.                 *)
NamesFollowed ==
  \A i \in 1..Len(log) : log[i].kind = "mapping" =>
    i < Len(log) /\ log[i + 1] \in {Update(log[i].id, x) : x \in Value}

ReadInv == IInv /\ NamesFollowed /\ ReadableSoon

(* What the owner sends in one step is a value, a name with its value, or  *)
(* nothing.                                                                *)
LEMMA FollowedKept ==
  ASSUME IInv, NamesFollowed, NEW ms \in Seq(Message), log' = log \o ms,
         \A i \in 1..Len(ms) : ms[i].kind = "mapping" =>
           i < Len(ms) /\ ms[i + 1] \in {Update(ms[i].id, x) : x \in Value}
  PROVE  NamesFollowed'
<1>1. log \in Seq(Message)
  BY DEF IInv, TypeOK
<1>2. /\ Len(log') = Len(log) + Len(ms)
      /\ \A i \in 1..Len(log) : log'[i] = log[i]
      /\ \A i \in (Len(log) + 1)..Len(log') : log'[i] = ms[i - Len(log)]
  BY <1>1
<1> SUFFICES ASSUME NEW i \in 1..Len(log'), log'[i].kind = "mapping"
             PROVE  /\ i < Len(log')
                    /\ log'[i + 1] \in {Update(log'[i].id, x) : x \in Value}
  BY DEF NamesFollowed
<1>3. CASE i \in 1..Len(log)
  <2>1. i < Len(log) /\ log[i + 1] \in {Update(log[i].id, x) : x \in Value}
    BY <1>2, <1>3 DEF NamesFollowed
  <2>2. i + 1 \in 1..Len(log)
    BY <1>1, <1>3, <2>1
  <2> QED BY <1>1, <1>2, <1>3, <2>1, <2>2
<1>4. CASE i \in (Len(log) + 1)..Len(log')
  <2> DEFINE j == i - Len(log)
  <2>1. j \in 1..Len(ms) /\ log'[i] = ms[j]
    BY <1>1, <1>2, <1>4
  <2>2. j < Len(ms) /\ ms[j + 1] \in {Update(ms[j].id, x) : x \in Value}
    BY <2>1
  <2>3. i + 1 \in (Len(log) + 1)..Len(log') /\ log'[i + 1] = ms[j + 1]
    BY <1>1, <1>2, <1>4, <2>2
  <2> QED BY <1>1, <1>2, <2>1, <2>2, <2>3
<1> QED BY <1>1, <1>2, <1>3, <1>4

(* Steps of the owner leave what the reader will read next.                *)
LEMMA OwnerReadable ==
  ASSUME IInv, ReadableSoon, Extended, UNCHANGED reader
  PROVE  ReadableSoon'
<1> SUFFICES ASSUME NEW n \in Name, inVariableMapping[n] >= Len(inVariables)
             PROVE  /\ handled < Len(log')
                    /\ log'[handled + 1] \in {Update(Len(inVariables), x) : x \in Value}
                    /\ inVariableMapping[n] = Len(inVariables)
  BY DEF ReadableSoon, reader
<1>1. /\ handled < Len(log)
      /\ log[handled + 1] \in {Update(Len(inVariables), x) : x \in Value}
      /\ inVariableMapping[n] = Len(inVariables)
  BY DEF ReadableSoon
<1>2. handled + 1 \in 1..Len(log) /\ Len(log') >= Len(log) /\ Len(log) \in Nat
      /\ Len(log') \in Nat
  BY <1>1 DEF IInv, TypeOK, Extended
<1> QED BY <1>1, <1>2 DEF Extended, IInv, TypeOK

LEMMA ReadStep == ReadInv /\ [Next]_vars => ReadInv'
<1> SUFFICES ASSUME IInv, NamesFollowed, ReadableSoon, [Next]_vars
             PROVE  NamesFollowed' /\ ReadableSoon'
  BY NextInv DEF ReadInv
<1>0. log \in Seq(Message) /\ handled \in 0..Len(log) /\ inVariables \in Seq(Value)
      /\ inVariableMapping \in [Name -> Id \cup {NoId}]
  BY DEF IInv, TypeOK
<1>1. ASSUME NEW v \in Var, NEW n \in Name \cup {NoName}, RegisterOut(v, n)
      PROVE  NamesFollowed' /\ ReadableSoon'
  <2> DEFINE id == Len(outVariables)
             ms == FirstMessages(v, n, id)
  <2>1. log' = log \o ms /\ id \in Id /\ value[v] \in Value
    BY <1>1 DEF RegisterOut, Sent, IInv, TypeOK, Id
  <2>2. ms = IF n = NoName THEN <<Update(id, value[v])>>
             ELSE <<Mapping(n, id), Update(id, value[v])>>
    <3>1. CASE n = NoName
      BY <3>1 DEF FirstMessages
    <3>2. CASE n # NoName
      BY <3>2, TwoOne DEF FirstMessages
    <3> QED BY <3>1, <3>2
  <2>3. /\ ms \in Seq(Message)
        /\ \A i \in 1..Len(ms) : ms[i].kind = "mapping" =>
             i < Len(ms) /\ ms[i + 1] \in {Update(ms[i].id, x) : x \in Value}
    <3>1. Update(id, value[v]) \in Message
      BY <2>1 DEF Update, Message
    <3>2. n # NoName => Mapping(n, id) \in Message
      BY <2>1 DEF Mapping, Message
    <3> HIDE DEF ms
    <3>3. ms \in Seq(Message)
      BY <2>2, <3>1, <3>2
    <3>4. CASE n = NoName
      <4>1. Len(ms) = 1 /\ ms[1] = Update(id, value[v])
        BY <2>2, <3>4
      <4> QED BY <3>3, <4>1 DEF Update
    <3>5. CASE n # NoName
      <4>1. Len(ms) = 2 /\ ms[1] = Mapping(n, id) /\ ms[2] = Update(id, value[v])
        BY <2>2, <3>5
      <4>2. ms[1].id = id /\ ms[2].kind # "mapping"
        BY <4>1 DEF Mapping, Update
      <4> QED BY <2>1, <3>3, <4>1, <4>2
    <3> QED BY <3>4, <3>5
  <2> HIDE DEF ms
  <2> QED BY <1>1, <2>1, <2>3, FollowedKept, OwnerReadable, RegisterOutStep
          DEF RegisterOut
<1>2. ASSUME NEW v \in Var, NEW x \in Value, Assign(v, x)
      PROVE  NamesFollowed' /\ ReadableSoon'
  <2> DEFINE ms == NotifyOut(index[v])
  <2>1. log' = log \o ms
    BY <1>2 DEF Assign, Sent
  <2>2. ms = <<>> \/ \E i \in Id, y \in Value : ms = <<Update(i, y)>>
    BY <1>2 DEF NotifyOut, Assign, IInv, TypeOK, Id
  <2> HIDE DEF ms
  <2>3. /\ ms \in Seq(Message)
        /\ \A i \in 1..Len(ms) : ms[i].kind # "mapping"
    <3>1. CASE ms = <<>>
      BY <3>1
    <3>2. ASSUME NEW i \in Id, NEW y \in Value, ms = <<Update(i, y)>>
          PROVE  ms \in Seq(Message) /\ \A j \in 1..Len(ms) : ms[j].kind # "mapping"
      <4>1. Update(i, y) \in Message /\ Update(i, y).kind # "mapping"
        BY DEF Update, Message
      <4> QED BY <3>2, <4>1
    <3> QED BY <2>2, <3>1, <3>2
  <2> QED BY <1>2, <2>1, <2>3, FollowedKept, OwnerReadable, AssignStep
          DEF Assign
<1>3. ASSUME NEW m, RegisterIn(m) PROVE NamesFollowed' /\ ReadableSoon'
  <2>1. UNCHANGED <<log, inVariableMapping>>
        /\ inVariables' = Append(inVariables, m.value)
        /\ m.value \in Value
    BY <1>3, NextState DEF RegisterIn, owner, Arrived, Message
  <2>2. Len(inVariables') = Len(inVariables) + 1
    BY <1>0, <2>1
  <2>3. \A n \in Name : ~(inVariableMapping'[n] >= Len(inVariables'))
    BY <1>0, <2>1, <2>2 DEF ReadableSoon, Id, NoId
  <2> QED BY <2>1, <2>3 DEF NamesFollowed, ReadableSoon
<1>4. ASSUME NEW m, Set(m) PROVE NamesFollowed' /\ ReadableSoon'
  <2>1. /\ UNCHANGED <<log, inVariableMapping>>
        /\ Len(inVariables') = Len(inVariables)
        /\ m = log[handled + 1] /\ m.id < Len(inVariables)
    BY <1>0, <1>4 DEF Set, owner, Arrived
  <2>2. \A n \in Name : ~(inVariableMapping'[n] >= Len(inVariables'))
    <3> SUFFICES ASSUME NEW n \in Name, inVariableMapping[n] >= Len(inVariables)
                 PROVE  FALSE
      BY <2>1
    <3>1. PICK x \in Value : m = Update(Len(inVariables), x)
      BY <2>1 DEF ReadableSoon
    <3>2. m.id = Len(inVariables)
      BY <3>1 DEF Update
    <3> QED BY <1>0, <2>1, <3>2
  <2> QED BY <2>1, <2>2 DEF NamesFollowed, ReadableSoon
<1>5. ASSUME NEW m, RegisterMapping(m) PROVE NamesFollowed' /\ ReadableSoon'
  <2>1. /\ UNCHANGED <<log, inVariables>>
        /\ m = log[handled + 1] /\ m.kind = "mapping"
        /\ handled' = handled + 1 /\ handled + 1 \in 1..Len(log)
    BY <1>5, NextState DEF RegisterMapping, owner, Arrived
  <2>2. \A n \in Name : n # m.name => inVariableMapping'[n] = inVariableMapping[n]
    BY <1>0, <1>5 DEF RegisterMapping
  <2>3. \A n \in Name : ~(inVariableMapping[n] >= Len(inVariables))
    <3> SUFFICES ASSUME NEW n \in Name, inVariableMapping[n] >= Len(inVariables)
                 PROVE  FALSE
      OBVIOUS
    <3>1. PICK x \in Value : m = Update(Len(inVariables), x)
      BY <2>1 DEF ReadableSoon
    <3> QED BY <2>1, <3>1 DEF Update
  <2>4. m.id = Len(inVariables)
    BY <2>1 DEF IInv, LogApplied, NamesFirst, ReaderAtLog
  <2>5. inVariableMapping'[m.name] \in {m.id, inVariableMapping[m.name]}
    BY <1>0, <1>5, NextState DEF RegisterMapping, Message
  <2>6. handled' < Len(log') /\ log'[handled' + 1] \in {Update(m.id, x) : x \in Value}
    BY <2>1 DEF NamesFollowed
  <2>7. ReadableSoon'
    BY <2>1, <2>2, <2>3, <2>4, <2>5, <2>6 DEF ReadableSoon
  <2> QED BY <2>1, <2>7 DEF NamesFollowed
<1>6. ASSUME NEW cb \in Callback, (\E i \in Id : SubscribeId(cb, i))
                                  \/ \E n \in Name : SubscribeName(cb, n)
      PROVE  NamesFollowed' /\ ReadableSoon'
  <2>1. UNCHANGED <<log, handled, inVariables, inVariableMapping>>
    BY <1>6 DEF SubscribeId, SubscribeName, owner
  <2> QED BY <2>1 DEF NamesFollowed, ReadableSoon
<1>7. CASE UNCHANGED vars
  <2>1. UNCHANGED <<log, handled, inVariables, inVariableMapping>>
    BY <1>7 DEF vars, owner, reader
  <2> QED BY <2>1 DEF NamesFollowed, ReadableSoon
<1> QED BY <1>1, <1>2, <1>3, <1>4, <1>5, <1>6, <1>7 DEF Next, Handle

(* A name that get(name) cannot find a variable for is known only until    *)
(* the very next message, which is there already and makes the variable.   *)
THEOREM ReadableAtOnce == Spec => []ReadableSoon
<1>1. Init => NamesFollowed /\ ReadableSoon
  BY DEF Init, NamesFollowed, ReadableSoon, NoId
<1>2. ReadInv /\ [Next]_vars => ReadInv'
  BY ReadStep
<1>3. ReadInv => ReadableSoon
  BY DEF ReadInv
<1>4. Init => ReadInv
  BY <1>1, InitInv DEF ReadInv
<1> QED BY <1>2, <1>3, <1>4, PTL DEF Spec

-----------------------------------------------------------------------------
(* The owner's variable of a name.                                         *)
Named(n) == outVariables[outVariableMapping[n] + 1]

(* Once the reader has handled every message it has exactly the owner's    *)
(* variables with their present values, also those that were assigned      *)
(* before they were registered or whose assignments were not sent because  *)
(* they changed nothing; and whoever subscribed to a name that the owner   *)
(* gave was told, or could read, the present value of that very variable.  *)
CaughtUp ==
  handled = Len(log) =>
    /\ inVariables = Current
    /\ \A cb \in Callback :
         (byName[cb] # NoName /\ outVariableMapping[byName[cb]] # NoId)
           => known[cb] = value[Named(byName[cb])]

(* From the owner's assignment to the reader's callback: nothing is left   *)
(* out once the messages are handled (Variable::operator=, notifyOut,      *)
(* VariableHandler::handle, notifyIn, moveCallbacksFromCache).             *)
THEOREM CaughtUpReaderAgrees == Spec => []CaughtUp
<1>1. IInv => CaughtUp
  <2> SUFFICES ASSUME IInv, handled = Len(log)
               PROVE  /\ inVariables = Current
                      /\ \A cb \in Callback :
                           (byName[cb] # NoName /\ outVariableMapping[byName[cb]] # NoId)
                             => known[cb] = value[Named(byName[cb])]
    BY DEF CaughtUp
  <2>1. inVariables = Current
    BY DEF IInv, ReaderAtLog, LogApplied, Applied
  <2>2. ASSUME NEW cb \in Callback, byName[cb] # NoName,
               outVariableMapping[byName[cb]] # NoId
        PROVE  known[cb] = value[Named(byName[cb])]
    <3> DEFINE n == byName[cb]
               i == outVariableMapping[n]
    <3>1. n \in Name /\ i \in Id
      BY <2>2 DEF IInv, TypeOK
    <3>2. inVariableMapping[n] = i
      BY <3>1 DEF IInv, NamesOnTheirWay, TypeOK
    <3>3. cb \in callbacks[i]
      BY <2>2, <3>2 DEF IInv, Informed
    <3>4. i \in Nat /\ i < Len(outVariables) /\ Len(outVariables) \in Nat
      BY <3>1, VariableSyncAssumption DEF IInv, OwnerNumbers, TypeOK, Id
    <3>5. Len(inVariables) = Len(outVariables) /\ i + 1 \in 1..Len(outVariables)
      BY <2>1, <3>4 DEF Current
    <3>6. known[cb] = inVariables[i + 1]
      BY <3>1, <3>3, <3>4, <3>5 DEF IInv, Informed
    <3> QED BY <2>1, <3>5, <3>6 DEF Current, Named
  <2> QED BY <2>1, <2>2
<1> QED BY <1>1, VariableInvariant, PTL
=============================================================================
