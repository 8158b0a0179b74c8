---------------------------- MODULE VariableSync ----------------------------
(***************************************************************************)
(* Variables shared by two devices: the out side of one ContextImpl, the   *)
(* owner, and the in side of the ContextImpl at the other end of the       *)
(* socket, the reader.  (A context has both sides; they share no state.)   *)
(*                                                                         *)
(* Ids are positions in outVariables and in inVariables, from 0.  The owner*)
(* sends them, and the reader numbers what it receives by itself: nothing  *)
(* but the order of the messages makes the two agree.                      *)
(*                                                                         *)
(* The socket keeps the order, so the stream is the log of everything sent *)
(* and the number of messages the reader has handled.  Each context is     *)
(* used by one thread.  A value stands for its type too.                   *)
(***************************************************************************)
EXTENDS Integers, Sequences

CONSTANTS
  Var,        \* the owner's variables
  Value,      \* what a variable may hold
  NoValue,    \* no value so far
  UniqueOnly, \* variables built with sendUniqueOnly
  Name,       \* names of variables
  NoName,     \* the empty name
  Callback,   \* the reader's callbacks
  MaxId,      \* the largest id
  MaxSent     \* bound: messages the owner sends

ASSUME VariableSyncAssumption ==
  /\ NoValue \notin Value
  /\ UniqueOnly \subseteq Var
  /\ NoName \notin Name
  /\ MaxId \in Nat /\ MaxSent \in Nat

VARIABLES
  value,              \* owner: Variable::value
  index,              \* owner: VariableBase::index
  outVariables,       \* owner: registered variables, by id
  outVariableMapping, \* owner: the id of each name, or NoId
  log,                \* the messages sent
  handled,            \* how many of them the reader has handled
  inVariables,        \* reader: values of the variables it has built
  inVariableMapping,  \* reader: the id of each name, or NoId
  callbacks,          \* reader: the callbacks of each id
  nameCallbackCache,  \* reader: callbacks of names without an id
  byName,             \* history: the name each callback subscribed to
  known,              \* history: the value its subscriber was last told, or
                      \* could read when it subscribed
  published           \* history: the owner's variables after each message

owner == <<value, index, outVariables, outVariableMapping, log, published>>
reader == <<handled, inVariables, inVariableMapping, callbacks,
            nameCallbackCache, byName, known>>
vars == <<owner, reader>>

NoId == -1
Id == 0..MaxId
Update(i, x)  == [kind |-> "value", id |-> i, value |-> x]
Mapping(n, i) == [kind |-> "mapping", id |-> i, name |-> n]
Message == [kind : {"value"}, id : Id, value : Value]
           \cup [kind : {"mapping"}, id : Id, name : Name]

TypeOK ==
  /\ value \in [Var -> Value]
  /\ index \in [Var -> Id]
  /\ outVariables \in Seq(Var)
  /\ outVariableMapping \in [Name -> Id \cup {NoId}]
  /\ log \in Seq(Message)
  /\ handled \in 0..Len(log)
  /\ inVariables \in Seq(Value)
  /\ inVariableMapping \in [Name -> Id \cup {NoId}]
  /\ callbacks \in [Id -> SUBSET Callback]
  /\ nameCallbackCache \in [Name -> SUBSET Callback]
  /\ byName \in [Callback -> Name \cup {NoName}]
  /\ known \in [Callback -> Value \cup {NoValue}]
  /\ published \in Seq(Seq(Value))

Init ==
  /\ value \in [Var -> Value]
  /\ index = [v \in Var |-> 0]
  /\ outVariables = <<>>
  /\ outVariableMapping = [n \in Name |-> NoId]
  /\ log = <<>> /\ handled = 0
  /\ inVariables = <<>>
  /\ inVariableMapping = [n \in Name |-> NoId]
  /\ callbacks = [i \in Id |-> {}]
  /\ nameCallbackCache = [n \in Name |-> {}]
  /\ byName = [cb \in Callback |-> NoName]
  /\ known = [cb \in Callback |-> NoValue]
  /\ published = <<<<>>>>

-----------------------------------------------------------------------------
(* The owner.                                                              *)

(* The owner's variables, as the reader should see them.                   *)
Current == [i \in 1..Len(outVariables) |-> value[outVariables[i]]]

(* sendBytes.                                                              *)
Sent(ms) ==
  /\ Len(log) + Len(ms) <= MaxSent
  /\ log' = log \o ms

(* notifyOut(i): VariableBase::serialize writes the variable's own index.  *)
NotifyOut(i) ==
  IF i < Len(outVariables)
  THEN LET v == outVariables[i + 1] IN <<Update(index[v], value'[v])>>
  ELSE <<>>

(* registerOutVariable refuses a name that is taken.                       *)
AnyName(n) == TRUE                                                    \* mutant
NameFree(n) == n \in Name => outVariableMapping[n] = NoId

(* The messages of a registration: the name, if any, then the first value. *)
FirstMessagesUnnamed(v, n, i) == <<Mapping(n, i), Update(i, value[v])>> \* mutant
FirstMessagesLate(v, n, i) ==                                         \* mutant
  IF n = NoName THEN <<>> ELSE <<Mapping(n, i)>>
FirstMessages(v, n, i) ==
  (IF n = NoName THEN <<>> ELSE <<Mapping(n, i)>>) \o <<Update(i, value[v])>>

RegisterOut(v, n) ==
  LET id == Len(outVariables)
      ms == FirstMessages(v, n, id)
  IN  /\ \A i \in 1..Len(outVariables) : outVariables[i] # v
      /\ id <= MaxId
      /\ NameFree(n)
      /\ UNCHANGED value
      /\ outVariableMapping' =
           [m \in Name |-> IF m = n THEN id ELSE outVariableMapping[m]]
      /\ outVariables' = Append(outVariables, v)
      /\ index' = [index EXCEPT ![v] = id]
      /\ Sent(ms)
      /\ published' = published
           \o [i \in 1..Len(ms) |-> IF ms[i].kind = "value" THEN Current'
                                    ELSE Current]
      /\ UNCHANGED reader

(* Variable::operator=.  A variable that is not registered has index 0, and*)
(* its assignment sends the variable with id 0, if there is one.           *)
Assign(v, x) ==
  /\ ~(v \in UniqueOnly /\ value[v] = x)
  /\ value' = [value EXCEPT ![v] = x]
  /\ UNCHANGED <<index, outVariables, outVariableMapping, reader>>
  /\ LET ms == NotifyOut(index[v])
     IN  /\ Sent(ms)
         /\ published' = published \o [i \in 1..Len(ms) |-> Current']

-----------------------------------------------------------------------------
(* The reader.                                                             *)

Arrived(m, kind) ==
  /\ handled < Len(log)
  /\ m = log[handled + 1]
  /\ m.kind = kind
  /\ handled' = handled + 1

(* notifyIn(i).                                                            *)
NotifyIn(i, x) ==
  known' = [cb \in Callback |-> IF cb \in callbacks[i] THEN x ELSE known[cb]]

(* A value of an id the reader has no variable for makes one, whose id is  *)
(* the number of variables there are.                                      *)
RegisterIn(m) ==
  /\ Arrived(m, "value")
  /\ m.id >= Len(inVariables)
  /\ inVariables' = Append(inVariables, m.value)
  /\ NotifyIn(Len(inVariables), m.value)
  /\ UNCHANGED <<inVariableMapping, callbacks, nameCallbackCache, byName, owner>>

(* Variable::set.                                                          *)
Set(m) ==
  /\ Arrived(m, "value")
  /\ m.id < Len(inVariables)
  /\ inVariables' = [inVariables EXCEPT ![m.id + 1] = m.value]
  /\ IF inVariables[m.id + 1] = m.value THEN UNCHANGED known
     ELSE NotifyIn(m.id, m.value)
  /\ UNCHANGED <<inVariableMapping, callbacks, nameCallbackCache, byName, owner>>

(* moveCallbacksFromCache: behind those the id has already.                *)
MovedIfNone(n, i) ==                                                  \* mutant
  IF callbacks[i] = {} THEN nameCallbackCache[n] ELSE callbacks[i]
Moved(n, i) == callbacks[i] \cup nameCallbackCache[n]

(* registerMapping: the first mapping of a name counts.                    *)
RegisterMapping(m) ==
  /\ Arrived(m, "mapping")
  /\ IF inVariableMapping[m.name] = NoId
     THEN /\ inVariableMapping' = [inVariableMapping EXCEPT ![m.name] = m.id]
          /\ callbacks' = [callbacks EXCEPT ![m.id] = Moved(m.name, m.id)]
          /\ nameCallbackCache' = [nameCallbackCache EXCEPT ![m.name] = {}]
     ELSE UNCHANGED <<inVariableMapping, callbacks, nameCallbackCache>>
  /\ UNCHANGED <<inVariables, byName, known, owner>>

(* get(id), by the one who subscribes.                                     *)
Readable(i) == IF i < Len(inVariables) THEN inVariables[i + 1] ELSE NoValue

Unused(cb) ==
  /\ byName[cb] = NoName
  /\ \A i \in Id : cb \notin callbacks[i]

(* subscribe(id, callback).                                                *)
SubscribeId(cb, i) ==
  /\ Unused(cb)
  /\ callbacks' = [callbacks EXCEPT ![i] = @ \cup {cb}]
  /\ known' = [known EXCEPT ![cb] = Readable(i)]
  /\ UNCHANGED <<handled, inVariables, inVariableMapping, nameCallbackCache,
                 byName, owner>>

(* subscribe(name, callback): the callback waits in the cache for the name.*)
SubscribeName(cb, n) ==
  /\ Unused(cb)
  /\ byName' = [byName EXCEPT ![cb] = n]
  /\ IF inVariableMapping[n] = NoId
     THEN /\ nameCallbackCache' = [nameCallbackCache EXCEPT ![n] = @ \cup {cb}]
          /\ UNCHANGED <<callbacks, known>>
     ELSE LET i == inVariableMapping[n]
          IN  /\ callbacks' = [callbacks EXCEPT ![i] = @ \cup {cb}]
              /\ known' = [known EXCEPT ![cb] = Readable(i)]
              /\ UNCHANGED nameCallbackCache
  /\ UNCHANGED <<handled, inVariables, inVariableMapping, owner>>

-----------------------------------------------------------------------------
Handle(m) == RegisterIn(m) \/ Set(m) \/ RegisterMapping(m)

Next ==
  \/ \E v \in Var, n \in Name \cup {NoName} : RegisterOut(v, n)
  \/ \E v \in Var, x \in Value : Assign(v, x)
  \/ \E m \in {log[i] : i \in 1..Len(log)} : Handle(m)
  \/ \E cb \in Callback, i \in Id : SubscribeId(cb, i)
  \/ \E cb \in Callback, n \in Name : SubscribeName(cb, n)

Spec == Init /\ [][Next]_vars

-----------------------------------------------------------------------------
(* The reader's variables are at every moment the owner's as of an earlier *)
(* message, in order, although each side numbers them for itself           *)
(* (ContextImpl::internalRegisterOut, internalRegisterIn,                  *)
(* VariableHandler::handle).                                               *)
Snapshot == INSTANCE SnapshotReader
              WITH State <- Seq(Value), seen <- handled + 1, view <- inVariables
ImplementsSnapshot == Snapshot!Spec

(* A subscriber is never behind its variable: what a callback was last told*)
(* (or what its subscriber could read when it subscribed) is what the      *)
(* variable holds, whether it subscribed by id or by name, before or after *)
(* the name and the value arrived (notifyIn, moveCallbacksFromCache).      *)
Informed ==
  /\ \A i \in Id, cb \in Callback :
       (cb \in callbacks[i] /\ i < Len(inVariables))
         => known[cb] = inVariables[i + 1]
  /\ \A cb \in Callback :
       LET n == byName[cb]
       IN  n # NoName => IF inVariableMapping[n] = NoId
                         THEN cb \in nameCallbackCache[n]
                         ELSE cb \in callbacks[inVariableMapping[n]]

(* A name leads the reader to the variable the owner gave it to, and once  *)
(* the reader has handled everything it knows every name (registerMapping).*)
NamesAgree ==
  /\ \A n \in Name : inVariableMapping[n] \in {NoId, outVariableMapping[n]}
  /\ handled = Len(log) => inVariableMapping = outVariableMapping

(* get(name) indexes inVariables without a check, although Context.h:63    *)
(* promises an empty handle: a name without a variable is known only until *)
(* the very next message, which is the variable's first value.             *)
ReadableSoon ==
  \A n \in Name :
    inVariableMapping[n] >= Len(inVariables) =>
      /\ handled < Len(log)
      /\ log[handled + 1] \in {Update(Len(inVariables), x) : x \in Value}
      /\ inVariableMapping[n] = Len(inVariables)
=============================================================================
