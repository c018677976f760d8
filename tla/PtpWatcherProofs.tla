-------------------------- MODULE PtpWatcherProofs --------------------------
(***************************************************************************)
(* Theorems about PtpWatcher, for any number of RPC workers, of changes of *)
(* the lock state and of outages.                                          *)
(***************************************************************************)
EXTENDS PtpWatcher, TLAPS

USE PtpWatcherAssumption DEF None

-----------------------------------------------------------------------------
(***************************************************************************)
(* Types.                                                                  *)
(***************************************************************************)

\* Types hold initially.
LEMMA TypeInit == Init => TypeOK
<1> SUFFICES ASSUME Init PROVE TypeOK
  OBVIOUS
<1>1. measured \in [state: 0 .. MaxEvents, class: Class]
  BY DEF Init
<1>2. context \in [state: 0 .. MaxEvents, time: 0 .. MaxEvents, class: Class]
  BY DEF Init, Class
<1> QED  BY <1>1, <1>2 DEF Init, TypeOK

\* Every step keeps them.
LEMMA TypeNext == TypeOK /\ [Next]_vars => TypeOK'
<1> SUFFICES ASSUME TypeOK, [Next]_vars PROVE TypeOK'
  OBVIOUS
<1> USE DEF mainVars, Goto, Move
<1> DEFINE Places == {"idle", "state", "time", "class", "answered", "signal"}
<1>a. ASSUME NEW w \in Workers, NEW step \in Places, worker' = [worker EXCEPT ![w] = step]
      PROVE  worker' \in [Workers -> Places]
  BY <1>a DEF TypeOK
<1>1. CASE Main
  <2> USE <1>1 DEF TypeOK
  <2>1. CASE Poll
    <3>1. PICK changed \in BOOLEAN, class \in {measured.class, "6"} :
            /\ changed => measured.state < MaxEvents
            /\ measured' = [state |-> measured.state + (IF changed THEN 1 ELSE 0),
                            class |-> class]
            /\ freshClass' = (class # measured.class)
            /\ pc' = IF changed \/ forced THEN "state" ELSE "class"
      BY <2>1 DEF Poll
    <3>2. measured.state + (IF changed THEN 1 ELSE 0) \in 0 .. MaxEvents
      BY <3>1
    <3>3. class \in Class
      BY <3>1 DEF Class
    <3>4. measured' \in [state: 0 .. MaxEvents, class: Class]
      BY <3>1, <3>2, <3>3
    <3>5. freshClass' \in BOOLEAN /\ pc' \in {"state", "class"}
      BY <3>1, Zenon
    <3> QED  BY <2>1, <3>4, <3>5 DEF Poll
  <2>2. CASE Top \/ ClearForced
    BY <2>2 DEF Top, ClearForced
  <2>3. CASE TakeForState \/ WriteTime \/ WriteClass
    BY <2>3 DEF TakeForState, WriteTime, WriteClass
  <2>4. CASE PublishV1 \/ SkipClass \/ Publish \/ Woken
    BY <2>4 DEF PublishV1, SkipClass, Publish, Woken
  <2>5. CASE ClearEvent \/ TimedOut \/ Leave \/ Stop
    BY <2>5 DEF ClearEvent, TimedOut, Leave, Stop
  <2> QED  BY <2>1, <2>2, <2>3, <2>4, <2>5 DEF Main
<1>2. CASE CastRaises
  BY <1>2 DEF TypeOK, CastRaises
<1>3. ASSUME NEW w \in Workers, Ask(w) \/ Trigger(w) \/ Serve(w) PROVE TypeOK'
  <2>1. CASE Ask(w)
    BY <1>a, <2>1 DEF TypeOK, Ask
  <2>2. CASE Trigger(w)
    BY <1>a, <2>2 DEF TypeOK, Trigger
  <2>3. CASE ReadState(w) \/ ReadTime(w)
    BY <1>a, <2>3 DEF TypeOK, ReadState, ReadTime
  <2>4. CASE ReadClass(w)
    BY <1>a, <2>4 DEF TypeOK, ReadClass
  <2>5. CASE Answer(w) \/ Signal(w)
    BY <1>a, <2>5 DEF TypeOK, Answer, Signal
  <2> QED  BY <1>3, <2>1, <2>2, <2>3, <2>4, <2>5 DEF Serve
<1>4. CASE RequestReload \/ Outage \/ BrokersBack
  BY <1>4 DEF TypeOK, RequestReload, Outage, BrokersBack
<1>5. CASE UNCHANGED vars
  BY <1>5 DEF TypeOK, vars
<1> QED  BY <1>1, <1>2, <1>3, <1>4, <1>5 DEF Next

-----------------------------------------------------------------------------
(***************************************************************************)
(* The lock excludes: whoever is in a critical section holds it.           *)
(***************************************************************************)
Excluded ==
  /\ pc \in {"time", "v1"} => lock = "main"
  /\ \A w \in Workers : worker[w] = "time" => lock = w

\* At most one thread is inside each critical section, whatever step is taken.
LEMMA ExcludedNext == TypeOK /\ Excluded /\ [Next]_vars => Excluded'
<1> SUFFICES ASSUME TypeOK, Excluded, [Next]_vars PROVE Excluded'
  OBVIOUS
<1> USE DEF mainVars, Goto, Move, Excluded
<1>1. CASE Main
  BY <1>1 DEF Main, Top, ClearForced, Poll, TakeForState, WriteTime, PublishV1, SkipClass,
     WriteClass, Publish, Woken, ClearEvent, TimedOut, Leave, Stop
<1>2. CASE CastRaises
  BY <1>2 DEF CastRaises
<1>3. ASSUME NEW w \in Workers, Ask(w) \/ Trigger(w) \/ Serve(w) PROVE Excluded'
  <2>1. CASE Ask(w) \/ Trigger(w) \/ Answer(w) \/ Signal(w)
    BY <2>1 DEF TypeOK, Ask, Trigger, Answer, Signal
  <2>2. CASE ReadState(w) \/ ReadTime(w)
    BY <2>2 DEF TypeOK, ReadState, ReadTime, MayRead
  <2>3. CASE ReadClass(w)
    BY <2>3 DEF TypeOK, ReadClass, MayRead
  <2> QED  BY <1>3, <2>1, <2>2, <2>3 DEF Serve
<1>4. CASE RequestReload \/ Outage \/ BrokersBack
  BY <1>4 DEF RequestReload, Outage, BrokersBack
<1>5. CASE UNCHANGED vars
  BY <1>5 DEF vars
<1> QED  BY <1>1, <1>2, <1>3, <1>4, <1>5 DEF Next

-----------------------------------------------------------------------------
(***************************************************************************)
(* What is in the context, and what a worker has read of it.               *)
(***************************************************************************)

\* The state and the time in the context are those of one event unless the loop is
\* between writing them; nothing newer was measured once it writes the time or publishes;
\* clients know nothing that is not in the context.
Written ==
  /\ pc # "time" => context.state = context.time
  /\ pc \in {"time", "v1"} => context.state = measured.state
  /\ delivered \in Nat /\ delivered <= context.state /\ context.state <= measured.state

\* What the loop has written of a context is of one event.
LEMMA WrittenNext == TypeOK /\ Written /\ [Next]_vars => Written'
<1> SUFFICES ASSUME TypeOK, Written, [Next]_vars PROVE Written'
  OBVIOUS
<1> USE DEF mainVars, Goto, Move, Written, TypeOK
<1>1. CASE Main
  <2>1. CASE Poll
    BY <2>1 DEF Poll
  <2>2. CASE TakeForState
    BY <2>2 DEF TakeForState
  <2>3. CASE WriteTime
    BY <2>3 DEF WriteTime
  <2>4. CASE PublishV1
    BY <2>4 DEF PublishV1
  <2>5. CASE WriteClass
    BY <2>5 DEF WriteClass
  <2>6. CASE Top \/ ClearForced \/ SkipClass \/ Publish \/ Woken
    BY <2>6 DEF Top, ClearForced, SkipClass, Publish, Woken
  <2>7. CASE ClearEvent \/ TimedOut \/ Leave \/ Stop
    BY <2>7 DEF ClearEvent, TimedOut, Leave, Stop
  <2> QED  BY <1>1, <2>1, <2>2, <2>3, <2>4, <2>5, <2>6, <2>7 DEF Main
<1>2. CASE CastRaises
  BY <1>2 DEF CastRaises
<1>3. CASE UNCHANGED mainVars
  BY <1>3
<1> QED
  BY <1>1, <1>2, <1>3 DEF Next, Ask, Trigger, Serve, ReadState, ReadTime, ReadClass, Answer,
     Signal, RequestReload, Outage, BrokersBack, vars

\* A query remembers what clients were told when it was asked; the state it has read is
\* no older, is still the one in the context while it holds the lock, and comes with the
\* time of its event.
ReadBy(w) ==
  /\ worker[w] \in {"state", "time", "answered"} =>
       answer[w].seen \in Nat /\ answer[w].seen <= delivered
  /\ worker[w] = "time" => answer[w].state = context.state
  /\ worker[w] = "answered" =>
       answer[w].state = answer[w].time /\ answer[w].state >= answer[w].seen

Answers == [seen : Nat, state : Nat, time : Nat]

Read == answer \in [Workers -> Answers] /\ \A w \in Workers : ReadBy(w)

\* What a worker has read of a context is of one event.
LEMMA ReadNext ==
  TypeOK /\ Excluded /\ Written /\ Read /\ [Next]_vars => Read'
<1> SUFFICES ASSUME TypeOK, Excluded, Written, Read, [Next]_vars PROVE Read'
  OBVIOUS
<1> USE DEF mainVars, Goto, Move
\* The loop leaves a state alone that a worker has read and goes on reading.
<1>a. ASSUME UNCHANGED <<worker, answer>>, delivered' \in Nat, delivered <= delivered',
             context'.state = context.state \/ lock = None
      PROVE  Read'
  <2> SUFFICES ASSUME NEW w \in Workers PROVE ReadBy(w)'
    BY <1>a DEF Read
  <2>1. ReadBy(w) /\ answer[w] \in Answers
    BY DEF Read
  <2>2. worker[w] = "time" => context'.state = context.state
    BY <1>a DEF Excluded
  <2> QED  BY <1>a, <2>1, <2>2 DEF ReadBy, Answers, Written
\* A worker's step leaves the others' answers alone.
<1>b. ASSUME NEW w \in Workers, NEW a \in Answers, NEW step,
             worker' = [worker EXCEPT ![w] = step], answer' = [answer EXCEPT ![w] = a],
             UNCHANGED mainVars, ReadBy(w)'
      PROVE  Read'
  <2>1. answer' \in [Workers -> Answers]
    BY <1>b DEF Read
  <2>2. ASSUME NEW v \in Workers, v # w PROVE ReadBy(v)'
    BY <1>b, <2>2 DEF Read, ReadBy, TypeOK
  <2> QED  BY <1>b, <2>1, <2>2 DEF Read
<1>c. /\ context.state \in Nat /\ context.time \in Nat /\ measured.state \in Nat
      /\ delivered \in Nat /\ delivered <= context.state
  BY DEF TypeOK, Written
<1>1. CASE Main \/ CastRaises
  <2>1. CASE TakeForState
    BY <1>a, <1>c, <2>1 DEF TakeForState
  <2>2. CASE WriteTime \/ WriteClass
    <3>1. context'.state = context.state
      BY <2>2 DEF WriteTime, WriteClass, TypeOK
    <3> QED  BY <1>a, <1>c, <2>2, <3>1 DEF WriteTime, WriteClass
  <2>3. CASE PublishV1
    <3>1. delivered' = measured.state /\ delivered <= measured.state
      BY <1>c, <2>3 DEF PublishV1, Written, TypeOK
    <3> QED  BY <1>a, <1>c, <2>3, <3>1 DEF PublishV1
  <2>4. CASE UNCHANGED <<worker, answer, delivered, context>>
    BY <1>a, <1>c, <2>4
  <2> QED
    BY <1>1, <2>1, <2>2, <2>3, <2>4 DEF Main, Top, ClearForced, Poll, SkipClass, Publish,
       Woken, ClearEvent, TimedOut, Leave, Stop, CastRaises
<1>2. ASSUME NEW w \in Workers, Ask(w) \/ Trigger(w) \/ Serve(w) PROVE Read'
  <2>0. ReadBy(w) /\ answer[w] \in Answers /\ worker = [v \in Workers |-> worker[v]]
    BY DEF Read, TypeOK
  <2>1. CASE Ask(w)
    <3>1. PICK query \in {"state", "class"} : worker' = [worker EXCEPT ![w] = query]
      BY <2>1 DEF Ask
    <3> DEFINE a == [seen |-> delivered, state |-> 0, time |-> 0]
    <3>0. [NoAnswer EXCEPT !.seen = delivered] = a
      BY DEF NoAnswer
    <3>2. a \in Answers /\ answer' = [answer EXCEPT ![w] = a]
      BY <1>c, <2>1, <3>0 DEF Ask, Answers
    <3>3. ReadBy(w)'
      BY <1>c, <2>0, <2>1, <3>1, <3>2 DEF Ask, ReadBy, Read
    <3> HIDE DEF a
    <3> QED  BY <1>b, <2>1, <3>1, <3>2, <3>3 DEF Ask
  <2>2. CASE Trigger(w) \/ Signal(w) \/ ReadClass(w)
    <3>1. PICK step \in {"signal", "idle"} : worker' = [worker EXCEPT ![w] = step]
      BY <2>2 DEF Trigger, Signal, ReadClass
    <3>2. answer' = [answer EXCEPT ![w] = answer[w]]
      BY <2>2 DEF Trigger, Signal, ReadClass, Read
    <3>3. ReadBy(w)'
      BY <2>0, <3>1 DEF ReadBy
    <3> QED  BY <1>b, <2>0, <2>2, <3>1, <3>2, <3>3 DEF Trigger, Signal, ReadClass
  <2>3. CASE ReadState(w)
    <3> DEFINE a == [answer[w] EXCEPT !.state = context.state]
    <3>1. a \in Answers /\ answer' = [answer EXCEPT ![w] = a]
      BY <1>c, <2>0, <2>3 DEF ReadState, Answers
    <3>2. ReadBy(w)'
      BY <2>0, <2>3 DEF ReadState, ReadBy, Read, Answers
    <3> HIDE DEF a
    <3> QED  BY <1>b, <2>3, <3>1, <3>2 DEF ReadState
  <2>4. CASE ReadTime(w)
    <3> DEFINE a == [answer[w] EXCEPT !.time = context.time]
    <3>1. a \in Answers /\ answer' = [answer EXCEPT ![w] = a]
      BY <1>c, <2>0, <2>4 DEF ReadTime, Answers
    <3>2. context.time = context.state
      BY <2>4 DEF ReadTime, Excluded, Written
    <3>3. ReadBy(w)'
      BY <1>c, <2>0, <2>4, <3>2 DEF ReadTime, ReadBy, Read, Answers
    <3> HIDE DEF a
    <3> QED  BY <1>b, <2>4, <3>1, <3>3 DEF ReadTime
  <2>5. CASE Answer(w)
    <3>1. NoAnswer \in Answers
      BY DEF NoAnswer, Answers
    <3>2. ReadBy(w)'
      BY <2>0, <2>5 DEF Answer, ReadBy
    <3> QED  BY <1>b, <2>5, <3>1, <3>2 DEF Answer
  <2> QED  BY <1>2, <2>1, <2>2, <2>3, <2>4, <2>5 DEF Serve
<1>3. CASE UNCHANGED <<worker, answer, delivered, context>>
  BY <1>a, <1>c, <1>3
<1> QED
  BY <1>1, <1>2, <1>3 DEF Next, RequestReload, Outage, BrokersBack, vars

-----------------------------------------------------------------------------
(***************************************************************************)
(* The theorems.                                                           *)
(***************************************************************************)
IInv == TypeOK /\ Excluded /\ Written /\ Read

\* The three invariants are inductive together with the types.
LEMMA Inductive == Spec => []IInv
<1>1. Init => IInv
  BY TypeInit DEF Init, IInv, Excluded, Written, Read, ReadBy, Answers, NoAnswer
<1>2. IInv /\ [Next]_vars => IInv'
  BY TypeNext, ExcludedNext, WrittenNext, ReadNext DEF IInv
<1> QED  BY <1>1, <1>2, PTL DEF Spec

\* A pull is answered with the state and the time of one event, however the loop and the
\* other workers come between its reads.
THEOREM AnswerIsOfOneEventHolds == Spec => []AnswerIsOfOneEvent
<1>1. IInv => AnswerIsOfOneEvent
  BY DEF IInv, Read, ReadBy, AnswerIsOfOneEvent
<1> QED  BY <1>1, Inductive, PTL

\* A client that was notified of a state before it asked is not answered with an older one.
THEOREM AnswerIsNotOlderHolds == Spec => []AnswerIsNotOlder
<1>1. IInv => AnswerIsNotOlder
  BY DEF IInv, Read, ReadBy, AnswerIsNotOlder
<1> QED  BY <1>1, Inductive, PTL

\* With a clock class from the start, whoever holds the lock is inside its critical
\* section, or is a loop that died there. (Without one a worker leaves it behind.)
THEOREM LockIsGivenBackHolds ==
  ASSUME ClassAtStart # None PROVE Spec => []LockIsGivenBack
<1> DEFINE Inv == TypeOK /\ measured.class # None /\ context.class # None /\ LockIsGivenBack
<1>1. Init => Inv
  BY TypeInit DEF Init, LockIsGivenBack
<1>2. Inv /\ [Next]_vars => Inv'
  <2> SUFFICES ASSUME Inv, [Next]_vars PROVE Inv'
    OBVIOUS
  <2>0. TypeOK'
    BY TypeNext
  <2> USE <2>0 DEF mainVars, Goto, Move, LockIsGivenBack
  <2>1. CASE Main
    <3>1. CASE Poll
      BY <3>1 DEF Poll, TypeOK
    <3>2. CASE TakeForState
      BY <3>2 DEF TakeForState, TypeOK
    <3>3. CASE WriteTime
      BY <3>3 DEF WriteTime, TypeOK
    <3>4. CASE PublishV1 \/ WriteClass
      BY <3>4 DEF PublishV1, WriteClass, TypeOK
    <3>5. CASE Top \/ ClearForced \/ SkipClass \/ Publish \/ Woken
      BY <3>5 DEF Top, ClearForced, SkipClass, Publish, Woken
    <3>6. CASE ClearEvent \/ TimedOut \/ Leave \/ Stop
      BY <3>6 DEF ClearEvent, TimedOut, Leave, Stop
    <3> QED  BY <2>1, <3>1, <3>2, <3>3, <3>4, <3>5, <3>6 DEF Main
  <2>2. CASE CastRaises
    BY <2>2 DEF CastRaises
  <2>3. ASSUME NEW w \in Workers, Ask(w) \/ Trigger(w) \/ Serve(w) PROVE Inv'
    <3>1. CASE Ask(w) \/ Trigger(w) \/ Answer(w) \/ Signal(w)
      BY <3>1 DEF TypeOK, Ask, Trigger, Answer, Signal
    <3>2. CASE ReadState(w) \/ ReadTime(w) \/ ReadClass(w)
      BY <3>2 DEF TypeOK, ReadState, ReadTime, ReadClass, MayRead
    <3> QED  BY <2>3, <3>1, <3>2 DEF Serve
  <2>4. CASE RequestReload \/ Outage \/ BrokersBack
    BY <2>4 DEF RequestReload, Outage, BrokersBack
  <2>5. CASE UNCHANGED vars
    BY <2>5 DEF vars
  <2> QED  BY <2>1, <2>2, <2>3, <2>4, <2>5 DEF Next
<1>3. Inv => LockIsGivenBack
  OBVIOUS
<1> QED  BY <1>1, <1>2, <1>3, PTL DEF Spec

-----------------------------------------------------------------------------
(***************************************************************************)
(* The threads implement an atomic service.  A query takes effect when the *)
(* worker reads the time: it still holds the lock, so that the state it    *)
(* has read is the one the context holds, and the loop is not in between   *)
(* writing the two.                                                        *)
(***************************************************************************)
SeenQueries == [w \in Workers |-> QueryOf(w)]

\* What every step of the threads is to the service.
LEMMA StepIsAtomic == IInv /\ [Next]_vars => [Pulls!Next]_Pulls!vars
<1> SUFFICES ASSUME IInv, [Next]_vars PROVE Pulls!Next \/ UNCHANGED Pulls!vars
  OBVIOUS
<1> USE DEF mainVars, Goto, Move
<1>0. /\ context.state \in Nat /\ context.time \in Nat /\ measured.state \in Nat
      /\ context.state <= measured.state
  BY DEF IInv, TypeOK, Written
\* The loop and the surroundings leave the queries alone.
<1>a. ASSUME UNCHANGED <<worker, answer>> PROVE SeenQueries' = SeenQueries
  BY <1>a DEF SeenQueries, QueryOf
\* A worker's step changes its own query only.
<1>b. ASSUME NEW w \in Workers, NEW step, NEW a,
             worker' = [worker EXCEPT ![w] = step], answer' = [answer EXCEPT ![w] = a]
      PROVE  SeenQueries' = [SeenQueries EXCEPT ![w] = QueryOf(w)']
  <2>1. ASSUME NEW v \in Workers, v # w PROVE QueryOf(v)' = QueryOf(v)
    BY <1>b, <2>1 DEF QueryOf, IInv, TypeOK, Read
  <2> QED  BY <2>1 DEF SeenQueries
<1>1. CASE Main
  <2>1. CASE TakeForState
    <3>1. context'.state = measured.state /\ UNCHANGED <<worker, answer, delivered>>
      BY <2>1 DEF TakeForState, IInv, TypeOK
    <3> QED  BY <1>0, <1>a, <3>1 DEF SeenQueries, Pulls!Next, Pulls!Advance, Pulls!vars
  <2>2. CASE PublishV1
    <3>1. delivered' = context.state /\ UNCHANGED <<worker, answer, context>>
      BY <2>2 DEF PublishV1, IInv, Written
    <3> QED  BY <1>a, <3>1 DEF SeenQueries, Pulls!Next, Pulls!Notify
  <2>3. CASE WriteTime \/ WriteClass
    <3>1. context'.state = context.state /\ UNCHANGED <<worker, answer, delivered>>
      BY <2>3 DEF WriteTime, WriteClass, IInv, TypeOK
    <3> QED  BY <1>a, <3>1 DEF SeenQueries, Pulls!vars
  <2>4. CASE UNCHANGED <<worker, answer, delivered, context>>
    BY <1>a, <2>4 DEF SeenQueries, Pulls!vars
  <2> QED
    BY <1>1, <2>1, <2>2, <2>3, <2>4 DEF Main, Top, ClearForced, Poll, SkipClass, Publish,
       Woken, ClearEvent, TimedOut, Leave, Stop
<1>2. ASSUME NEW w \in Workers, Ask(w) \/ Trigger(w) \/ Serve(w)
      PROVE  Pulls!Next \/ UNCHANGED Pulls!vars
  <2>0. /\ worker \in [Workers -> {"idle", "state", "time", "class", "answered", "signal"}]
        /\ ReadBy(w) /\ answer[w] \in Answers
        /\ answer = [v \in Workers |-> answer[v]]
    BY DEF IInv, Read, TypeOK
  <2>1. CASE Ask(w)
    <3>1. PICK asked \in {"state", "class"} :
            worker[w] = "idle" /\ worker' = [worker EXCEPT ![w] = asked]
      BY <2>1 DEF Ask
    <3>2. SeenQueries' = [SeenQueries EXCEPT ![w] = QueryOf(w)']
      BY <1>b, <2>1, <3>1 DEF Ask
    <3>3. SeenQueries[w] = Pulls!Idle /\ SeenQueries = [v \in Workers |-> SeenQueries[v]]
      BY <3>1 DEF SeenQueries, QueryOf, Pulls!Idle
    <3>4. UNCHANGED <<context, delivered>>
      BY <2>1 DEF Ask
    <3>5. CASE asked = "state"
      <4>1. QueryOf(w)' = Pulls!Asked
        BY <2>0, <3>1, <3>5 DEF QueryOf, Pulls!Asked, Pulls!Idle
      <4> QED  BY <3>2, <3>3, <3>4, <4>1 DEF SeenQueries, Pulls!Next, Pulls!Ask
    <3>6. CASE asked = "class"
      <4>1. QueryOf(w)' = Pulls!Idle
        BY <2>0, <3>1, <3>6 DEF QueryOf, Pulls!Idle
      <4> QED  BY <3>2, <3>3, <3>4, <4>1 DEF SeenQueries, Pulls!vars
    <3> QED  BY <3>1, <3>5, <3>6
  <2>2. CASE Trigger(w) \/ Signal(w) \/ ReadClass(w)
    <3>1. PICK step \in {"signal", "idle"} :
            worker[w] \notin {"state", "time", "answered"} /\ worker' = [worker EXCEPT ![w] = step]
      BY <2>2 DEF Trigger, Signal, ReadClass
    <3>2. UNCHANGED <<context, delivered, answer>>
      BY <2>2 DEF Trigger, Signal, ReadClass
    <3>3. SeenQueries' = SeenQueries
      BY <2>0, <3>1, <3>2 DEF SeenQueries, QueryOf
    <3> QED  BY <3>2, <3>3 DEF SeenQueries, Pulls!vars
  <2>3. CASE ReadState(w)
    <3>1. UNCHANGED <<context, delivered>>
      BY <2>3 DEF ReadState
    <3>2. SeenQueries' = SeenQueries
      BY <2>0, <2>3 DEF ReadState, SeenQueries, QueryOf, Read, IInv
    <3> QED  BY <3>1, <3>2 DEF SeenQueries, Pulls!vars
  <2>4. CASE ReadTime(w)
    <3>1. worker[w] = "time" /\ context.time = context.state /\ answer[w].state = context.state
      BY <2>0, <2>4 DEF ReadTime, IInv, Excluded, Written, ReadBy
    <3>2. answer'[w].state = context.state /\ answer'[w].time = context.state
      BY <2>0, <2>4, <3>1 DEF ReadTime, IInv, Read, Answers
    <3>3. QueryOf(w)' = Pulls!Answered(context.state, context.state)
      BY <2>0, <2>4, <3>2 DEF ReadTime, QueryOf, Pulls!Answered
    <3>4. SeenQueries[w] = Pulls!Asked
      BY <3>1 DEF SeenQueries, QueryOf, Pulls!Asked, Pulls!Idle
    <3>5. SeenQueries' = [SeenQueries EXCEPT ![w] = QueryOf(w)']
      BY <1>b, <2>4 DEF ReadTime
    <3>6. UNCHANGED <<context, delivered>>
      BY <2>4 DEF ReadTime
    <3> QED  BY <3>3, <3>4, <3>5, <3>6 DEF SeenQueries, Pulls!Next, Pulls!Take
  <2>5. CASE Answer(w)
    <3>1. SeenQueries[w].step = "answered"
      BY <2>5 DEF Answer, SeenQueries, QueryOf
    <3>2. QueryOf(w)' = Pulls!Idle
      BY <2>0, <2>5 DEF Answer, QueryOf, Pulls!Idle
    <3>3. SeenQueries' = [SeenQueries EXCEPT ![w] = QueryOf(w)']
      BY <1>b, <2>5 DEF Answer
    <3>4. UNCHANGED <<context, delivered>>
      BY <2>5 DEF Answer
    <3> QED  BY <3>1, <3>2, <3>3, <3>4 DEF SeenQueries, Pulls!Next, Pulls!Answer
  <2> QED  BY <1>2, <2>1, <2>2, <2>3, <2>4, <2>5 DEF Serve
<1>3. CASE CastRaises \/ RequestReload \/ Outage \/ BrokersBack \/ UNCHANGED vars
  <2>1. UNCHANGED <<worker, answer, delivered, context>>
    BY <1>3 DEF CastRaises, RequestReload, Outage, BrokersBack, vars
  <2> QED  BY <1>a, <2>1 DEF SeenQueries, Pulls!vars
<1> QED  BY <1>1, <1>2, <1>3 DEF Next

\* Pulls are linearizable: the loop, the workers and their lock answer each as if state and
\* time were read, whole and current, in one step between the question and the answer.
THEOREM ImplementsPullServiceHolds == Spec => ImplementsPullService
<1>1. Init => Pulls!Init
  BY DEF Init, Pulls!Init, QueryOf, Pulls!Idle
<1>2. IInv /\ [Next]_vars => [Pulls!Next]_Pulls!vars
  BY StepIsAtomic
<1> QED  BY <1>1, <1>2, Inductive, PTL DEF Spec, ImplementsPullService, Pulls!Spec
-----------------------------------------------------------------------------
(***************************************************************************)
(* No request is slept over.  The event is cleared before the flags are    *)
(* looked at, and each flag is set before the event.                       *)
(***************************************************************************)

\* A loop that has yet to see a requested reload, or a requested publication, will not wait
\* for its time-out before it does: it is on its way to the flag, or its event is set, or
\* the worker that set the flag is about to set it.
NoRequestIsSleptOver ==
  /\ reload => event \/ pc \in {"top", "stopping", "stopped", "dead"}
  /\ forcedPublishing =>
       \/ event \/ pc \in {"top", "clear", "stopping", "stopped", "dead"}
       \/ \E w \in Workers : worker[w] = "signal"

\* Whatever the loop is at when it is asked to reload, or to publish everything, it does not
\* then sit out a whole wait before it turns to that (daemon.py:654-677).
THEOREM NoRequestIsSleptOverHolds == Spec => []NoRequestIsSleptOver
<1>1. Init => NoRequestIsSleptOver
  BY DEF Init, NoRequestIsSleptOver
<1>2. TypeOK /\ NoRequestIsSleptOver /\ [Next]_vars => NoRequestIsSleptOver'
  <2> SUFFICES ASSUME TypeOK, NoRequestIsSleptOver, [Next]_vars PROVE NoRequestIsSleptOver'
    OBVIOUS
  <2> USE DEF mainVars, Goto, Move, NoRequestIsSleptOver
  <2>1. CASE Main
    <3>1. CASE Top \/ ClearForced
      BY <3>1 DEF Top, ClearForced, ReloadSeen
    <3>2. CASE Poll \/ TakeForState \/ WriteTime \/ PublishV1 \/ SkipClass \/ WriteClass
      BY <3>2 DEF Poll, TakeForState, WriteTime, PublishV1, SkipClass, WriteClass
    <3>3. CASE Publish \/ Woken \/ ClearEvent \/ TimedOut \/ Leave \/ Stop
      BY <3>3 DEF Publish, Woken, ClearEvent, TimedOut, Leave, Stop
    <3> QED  BY <2>1, <3>1, <3>2, <3>3 DEF Main
  <2>2. ASSUME NEW w \in Workers, Ask(w) \/ Trigger(w) \/ Serve(w)
        PROVE  NoRequestIsSleptOver'
    <3>1. CASE Signal(w)
      BY <3>1 DEF Signal
    <3>2. CASE Trigger(w)
      <4>1. worker'[w] = "signal"
        BY <3>2 DEF Trigger, TypeOK
      <4> QED  BY <3>2, <4>1 DEF Trigger
    <3>3. CASE Ask(w) \/ ReadState(w) \/ ReadTime(w) \/ ReadClass(w) \/ Answer(w)
      <4>1. \A v \in Workers : worker[v] = "signal" => worker'[v] = "signal"
        BY <3>3 DEF Ask, ReadState, ReadTime, ReadClass, Answer, TypeOK
      <4>2. UNCHANGED <<mainVars, event, reload, forcedPublishing>>
        BY <3>3 DEF Ask, ReadState, ReadTime, ReadClass, Answer
      <4> QED  BY <4>1, <4>2
    <3> QED  BY <2>2, <3>1, <3>2, <3>3 DEF Serve
  <2>3. CASE CastRaises \/ RequestReload \/ Outage \/ BrokersBack \/ UNCHANGED vars
    BY <2>3 DEF CastRaises, RequestReload, Outage, BrokersBack, vars
  <2> QED  BY <2>1, <2>2, <2>3 DEF Next
<1> QED  BY <1>1, <1>2, TypeInit, TypeNext, PTL DEF Spec
=============================================================================
