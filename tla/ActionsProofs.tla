---------------------------- MODULE ActionsProofs ----------------------------
(***************************************************************************)
(* Configured actions are read-only, and every tap is accounted for, for   *)
(* any names, workers and bounds.                                          *)
(***************************************************************************)
EXTENDS Actions, SequenceTheorems, TLAPS

\* What ConfigMirrored rests on: a PUT that has passed its check is for a name
\* that is not configured, and stays so until it writes, since the actions of the
\* file only change when the process and its requests end.
ConfigInv ==
  /\ sources \in [Names -> {"config", "db", None}]
  /\ checked \cap configured = {}
  /\ configured \subseteq Names
  /\ ConfigMirrored

\* At the start nobody edits and the table holds the configured actions.
LEMMA ConfigInit == Init => ConfigInv
BY ActionsAssumption DEF Init, ConfigInv, ConfigMirrored

\* Taps and workers leave the table and the requests about it alone.
LEMMA WorkStep ==
  ASSUME ConfigInv,
         \/ \E n \in Names : Submit(n)
         \/ \E w \in Workers : Work(w)
         \/ UNCHANGED vars
  PROVE  ConfigInv'
<1>1. UNCHANGED <<sources, checked, configured>>
  BY DEF Submit, Work, Take, Lookup, Finish, vars
<1> QED
  BY <1>1 DEF ConfigInv, ConfigMirrored

\* A write makes an action dynamic that is not configured.
LEMMA PutStep ==
  ASSUME ConfigInv, NEW n \in Names, CheckAction(n) \/ PutAction(n)
  PROVE  ConfigInv'
<1>1. CASE CheckAction(n)
  BY <1>1 DEF CheckAction, ConfigInv, ConfigMirrored
<1>2. CASE PutAction(n)
  <2>1. n \notin configured /\ configured' = configured /\ checked' \subseteq checked
    BY <1>2 DEF PutAction, ConfigInv
  <2>2. sources' \in [Names -> {"config", "db", None}]
    BY <1>2 DEF PutAction, ConfigInv
  <2>3. \A k \in Names : sources'[k] = IF k = n THEN "db" ELSE sources[k]
    BY <1>2 DEF PutAction, ConfigInv
  <2> QED
    BY <2>1, <2>2, <2>3 DEF ConfigInv, ConfigMirrored
<1> QED
  BY <1>1, <1>2

\* A DELETE only finds dynamic actions.
LEMMA DeleteStep ==
  ASSUME ConfigInv, NEW n \in Names, DeleteAction(n)
  PROVE  ConfigInv'
<1>1. sources' \in [Names -> {"config", "db", None}] /\ UNCHANGED <<checked, configured>>
  BY DEF DeleteAction, ConfigInv
<1>2. \A k \in Names : sources'[k] = IF k = n THEN None ELSE sources[k]
  BY DEF DeleteAction, ConfigInv
<1>3. sources[n] = "db"
  BY DEF DeleteAction
<1> QED
  BY <1>1, <1>2, <1>3, ActionsAssumption DEF ConfigInv, ConfigMirrored

\* Start-up makes exactly the actions of the new file configured, whatever the
\* table held.
LEMMA RestartStep ==
  ASSUME ConfigInv, Restart
  PROVE  ConfigInv'
<1>1. configured' \subseteq Names /\ checked' = {} /\ sources' = Reconciled(configured')
  BY DEF Restart
<1>2. sources' \in [Names -> {"config", "db", None}]
  BY <1>1 DEF Reconciled, ConfigInv
<1>3. \A n \in Names : sources'[n] = "config" <=> n \in configured'
  BY <1>1, ActionsAssumption DEF Reconciled
<1> QED
  BY <1>1, <1>2, <1>3 DEF ConfigInv, ConfigMirrored

\* Actions of the TOML file are read-only: whatever the API is asked, however
\* requests interleave and however often the process starts again, the actions
\* marked as configured are those of the file it was started with.
THEOREM ConfigMirroredAlways == Spec => []ConfigMirrored
<1>1. ConfigInv /\ [Next]_vars => ConfigInv'
  BY WorkStep, PutStep, DeleteStep, RestartStep DEF Next
<1>2. ConfigInv => ConfigMirrored
  BY DEF ConfigInv
<1> QED
  BY ConfigInit, <1>1, <1>2, PTL DEF Spec
-----------------------------------------------------------------------------
(* Where an invocation is. *)

Carries(w, i) == running[w] # None /\ running[w].invocation.number = i

\* What waits has a story that has not begun, waits at one place, and no worker
\* has it.
WaitsOnce ==
  \A p \in DOMAIN queue :
    /\ queue[p].number \in DOMAIN story /\ story[queue[p].number] = <<>>
    /\ \A q \in DOMAIN queue : queue[q].number = queue[p].number => q = p
    /\ \A w \in Workers : ~Carries(w, queue[p].number)

\* What a worker has, no other worker has, and its story has begun when the
\* webhook is being called.
RunsOnce ==
  \A w \in Workers : running[w] # None =>
    /\ running[w].invocation.number \in DOMAIN story
    /\ story[running[w].invocation.number] = IF running[w].calling THEN <<"started">> ELSE <<>>
    /\ \A v \in Workers : Carries(v, running[w].invocation.number) => v = w

\* Whatever has not ended waits, or a worker has it.
NoneForgotten ==
  \A i \in DOMAIN story :
    \/ story[i] \in Stories
    \/ \E p \in DOMAIN queue : queue[p].number = i
    \/ \E w \in Workers : Carries(w, i)

PlacesInv == WaitsOnce /\ RunsOnce /\ NoneForgotten

\* What a channel does to a sequence: one more at the end, or the first gone.
LEMMA AppendFacts ==
  ASSUME NEW S, NEW s \in Seq(S), NEW e \in S
  PROVE  /\ Append(s, e) \in Seq(S) /\ Len(Append(s, e)) = Len(s) + 1
         /\ DOMAIN Append(s, e) = DOMAIN s \cup {Len(s) + 1}
         /\ DOMAIN s = 1..Len(s) /\ Len(s) \in Nat
         /\ \A i \in DOMAIN s : Append(s, e)[i] = s[i]
         /\ Append(s, e)[Len(s) + 1] = e
OBVIOUS

\* What is left when the first is taken.
LEMMA TailFacts ==
  ASSUME NEW S, NEW s \in Seq(S), s # <<>>
  PROVE  /\ Head(s) = s[1] /\ Head(s) \in S /\ 1 \in DOMAIN s
         /\ Tail(s) \in Seq(S) /\ Len(Tail(s)) = Len(s) - 1 /\ Len(s) \in Nat
         /\ \A p \in DOMAIN Tail(s) : p + 1 \in DOMAIN s /\ Tail(s)[p] = s[p + 1] /\ p \in Nat /\ p + 1 # 1
         /\ \A p \in DOMAIN s : p # 1 => \E q \in DOMAIN Tail(s) : p = q + 1
<1>1. Len(s) \in Nat /\ Len(s) # 0 /\ DOMAIN s = 1..Len(s)
  OBVIOUS
<1>2. /\ Head(s) = s[1] /\ Tail(s) \in Seq(S) /\ Len(Tail(s)) = Len(s) - 1
      /\ \A p \in 1..Len(s) - 1 : Tail(s)[p] = s[p + 1]
  BY <1>1
<1>3. DOMAIN Tail(s) = 1..Len(s) - 1
  BY <1>2
<1>4. s[1] \in S
  BY <1>1
<1>5. \A p \in DOMAIN s : p # 1 => p - 1 \in DOMAIN Tail(s) /\ p = (p - 1) + 1
  BY <1>1, <1>3
<1> QED
  BY <1>1, <1>2, <1>3, <1>4, <1>5

\* A finished story is neither empty nor just begun.
LEMMA StoriesEnd == <<>> \notin Stories /\ <<"started">> \notin Stories
BY DEF Stories

\* The fields of a job.
LEMMA JobFacts ==
  ASSUME NEW i \in Invocation, NEW b \in BOOLEAN
  PROVE  /\ [invocation |-> i, calling |-> b] \in Job
         /\ [invocation |-> i, calling |-> b] # None
         /\ [invocation |-> i, calling |-> b].invocation = i
         /\ [invocation |-> i, calling |-> b].calling = b
         /\ i.number \in Nat /\ i.name \in Names
BY ActionsAssumption DEF Job, Invocation

\* The fields of what a worker has.
LEMMA HeldFacts ==
  ASSUME NEW job \in Job
  PROVE  job.invocation \in Invocation /\ job.calling \in BOOLEAN
BY DEF Job

\* At the start nothing has been submitted.
LEMMA PlacesInit == Init => TypeOK /\ PlacesInv
<1> SUFFICES ASSUME Init PROVE TypeOK /\ PlacesInv
  OBVIOUS
<1>1. queue = <<>> /\ story = <<>> /\ \A w \in Workers : running[w] = None
  BY DEF Init
<1>2. sources \in [Names -> {"config", "db", None}] /\ configured \subseteq Names
  BY DEF Init
<1>3. checked = {} /\ edits = 0 /\ running \in [Workers -> {None} \cup Job]
  BY DEF Init
<1>4. TypeOK
  BY <1>1, <1>2, <1>3, ActionsAssumption DEF TypeOK
<1> QED
  BY <1>1, <1>4 DEF PlacesInv, WaitsOnce, RunsOnce, NoneForgotten

\* What a tap does when it is told the end at once.
LEMMA ToldAtOnce ==
  ASSUME TypeOK, PlacesInv, NEW event \in Event, <<event>> \in Stories,
         Begin(<<event>>), Len(story) < MaxTaps,
         UNCHANGED <<sources, configured, checked, queue, running, edits>>
  PROVE  TypeOK' /\ PlacesInv'
<1> DEFINE n == Len(story) + 1
<1>1. /\ story' \in Seq(Seq(Event)) /\ Len(story') = n /\ Len(story) \in Nat
      /\ DOMAIN story' = DOMAIN story \cup {n}
      /\ \A i \in DOMAIN story : story'[i] = story[i]
      /\ story'[n] = <<event>>
  <2>1. story \in Seq(Seq(Event)) /\ <<event>> \in Seq(Event)
    BY DEF TypeOK
  <2> QED
    BY <2>1, AppendFacts DEF Begin
<1>2. TypeOK'
  BY <1>1, ActionsAssumption DEF TypeOK
<1>3. \A w : \A i : Carries(w, i)' = Carries(w, i)
  BY DEF Carries
<1>4. WaitsOnce'
  BY <1>1, <1>3 DEF PlacesInv, WaitsOnce
<1>5. RunsOnce'
  BY <1>1, <1>3 DEF PlacesInv, RunsOnce
<1>6. NoneForgotten'
  BY <1>1, <1>3 DEF PlacesInv, NoneForgotten
<1> QED
  BY <1>2, <1>4, <1>5, <1>6 DEF PlacesInv

\* A tap that waits has a number of its own.
LEMMA EnqueueStep ==
  ASSUME TypeOK, PlacesInv, NEW name \in Names, Enqueue(name),
         Len(story) < MaxTaps, Len(queue) < QueueSize,
         UNCHANGED <<sources, configured, checked, running, edits>>
  PROVE  TypeOK' /\ PlacesInv'
<1> DEFINE n == Len(story) + 1
           last == Len(queue) + 1
<1>1. /\ story' \in Seq(Seq(Event)) /\ Len(story') = n /\ Len(story) \in Nat
      /\ DOMAIN story' = DOMAIN story \cup {n} /\ n \notin DOMAIN story
      /\ \A i \in DOMAIN story : story'[i] = story[i]
      /\ story'[n] = <<>>
  <2>1. story \in Seq(Seq(Event)) /\ <<>> \in Seq(Event)
    BY DEF TypeOK
  <2>2. story' = Append(story, <<>>)
    BY DEF Enqueue, Begin
  <2> QED
    BY <2>1, <2>2, AppendFacts
<1>2. PICK one : one = [number |-> n, name |-> name]
  OBVIOUS
<1>3. one \in Invocation /\ one.number = n
  BY <1>1, <1>2 DEF Invocation
<1>4. /\ queue' \in Seq(Invocation) /\ Len(queue') = last /\ Len(queue) \in Nat
      /\ DOMAIN queue' = DOMAIN queue \cup {last} /\ last \notin DOMAIN queue
      /\ \A p \in DOMAIN queue : queue'[p] = queue[p]
      /\ queue'[last] = one
  <2>1. queue \in Seq(Invocation) /\ queue' = Append(queue, one)
    BY <1>2 DEF TypeOK, Enqueue
  <2> QED
    BY <2>1, <1>3, AppendFacts
<1>5. TypeOK'
  BY <1>1, <1>4, ActionsAssumption DEF TypeOK
<1>6. \A w : \A i : Carries(w, i)' = Carries(w, i)
  BY DEF Carries
<1>7. \A p \in DOMAIN queue : queue[p].number # n
  BY <1>1 DEF PlacesInv, WaitsOnce
<1>8. \A w \in Workers : ~Carries(w, n)
  BY <1>1 DEF PlacesInv, RunsOnce, Carries
<1>9. WaitsOnce'
  <2> SUFFICES ASSUME NEW p \in DOMAIN queue'
      PROVE /\ queue'[p].number \in DOMAIN story' /\ story'[queue'[p].number] = <<>>
            /\ \A q \in DOMAIN queue' : queue'[q].number = queue'[p].number => q = p
            /\ \A w \in Workers : ~Carries(w, queue'[p].number)
    BY <1>6 DEF WaitsOnce
  <2>1. CASE p = last
    BY <2>1, <1>1, <1>3, <1>4, <1>7, <1>8
  <2>2. CASE p \in DOMAIN queue
    <3>1. queue'[p] = queue[p] /\ queue[p].number # n
      BY <2>2, <1>4, <1>7
    <3>2. /\ queue[p].number \in DOMAIN story /\ story[queue[p].number] = <<>>
          /\ \A q \in DOMAIN queue : queue[q].number = queue[p].number => q = p
          /\ \A w \in Workers : ~Carries(w, queue[p].number)
      BY <2>2 DEF PlacesInv, WaitsOnce
    <3> QED
      BY <3>1, <3>2, <1>1, <1>3, <1>4
  <2> QED
    BY <2>1, <2>2, <1>4
<1>10. RunsOnce'
  BY <1>1, <1>6 DEF PlacesInv, RunsOnce
<1>11. NoneForgotten'
  BY <1>1, <1>3, <1>4, <1>6 DEF PlacesInv, NoneForgotten
<1> QED
  BY <1>5, <1>9, <1>10, <1>11 DEF PlacesInv

\* A tap: reported at once, or in the channel.
LEMMA SubmitStep ==
  ASSUME TypeOK, PlacesInv, NEW n \in Names, Submit(n)
  PROVE  TypeOK' /\ PlacesInv'
<1>1. <<"unresolved">> \in Stories /\ <<"failed">> \in Stories
  BY DEF Stories
<1>2. "unresolved" \in Event /\ "failed" \in Event
  BY DEF Event
<1>3. CASE Begin(<<"unresolved">>) /\ UNCHANGED queue
  BY <1>1, <1>2, <1>3, ToldAtOnce DEF Submit
<1>4. CASE Begin(<<"failed">>) /\ UNCHANGED queue
  BY <1>1, <1>2, <1>4, ToldAtOnce DEF Submit
<1>5. CASE Len(queue) < QueueSize /\ Enqueue(n)
  BY <1>5, EnqueueStep DEF Submit
<1> QED
  BY <1>3, <1>4, <1>5 DEF Submit

\* A worker takes the first that waits: it is there no more.
LEMMA TakeStep ==
  ASSUME TypeOK, PlacesInv, NEW w \in Workers, Take(w)
  PROVE  TypeOK' /\ PlacesInv'
<1>1. queue \in Seq(Invocation) /\ queue # <<>> /\ running \in [Workers -> {None} \cup Job]
  BY DEF TypeOK, Take
<1>2. /\ Head(queue) = queue[1] /\ Head(queue) \in Invocation /\ 1 \in DOMAIN queue
      /\ queue' \in Seq(Invocation) /\ Len(queue') = Len(queue) - 1 /\ Len(queue) \in Nat
      /\ \A p \in DOMAIN queue' : p + 1 \in DOMAIN queue /\ queue'[p] = queue[p + 1]
                                  /\ p \in Nat /\ p + 1 # 1
      /\ \A p \in DOMAIN queue : p # 1 => \E q \in DOMAIN queue' : p = q + 1
  BY <1>1, TailFacts DEF Take
<1>3. PICK job : job = [invocation |-> Head(queue), calling |-> FALSE]
  OBVIOUS
<1>4. /\ job \in Job /\ job # None /\ job.invocation = queue[1] /\ job.calling = FALSE
  BY <1>2, <1>3, JobFacts
<1>5. running' = [running EXCEPT ![w] = job] /\ running[w] = None
  BY <1>3 DEF Take
<1>6. /\ running' \in [Workers -> {None} \cup Job] /\ running'[w] = job
      /\ \A v \in Workers : v # w => running'[v] = running[v]
  BY <1>1, <1>4, <1>5
<1>7. UNCHANGED <<sources, configured, checked, story, edits>>
  BY DEF Take
<1>8. TypeOK'
  <2>1. QueueSize \in Nat /\ Len(queue) <= QueueSize
    BY ActionsAssumption DEF TypeOK
  <2>2. Len(queue') <= QueueSize
    BY <1>2, <2>1
  <2> QED
    BY <1>2, <1>6, <1>7, <2>2 DEF TypeOK
<1>9. \A i : \A v \in Workers :
        running'[v] # None /\ running'[v].invocation.number = i
          <=> Carries(v, i) \/ (v = w /\ i = queue[1].number)
  BY <1>4, <1>5, <1>6 DEF Carries
<1>10. /\ queue[1].number \in DOMAIN story /\ story[queue[1].number] = <<>>
       /\ \A q \in DOMAIN queue : queue[q].number = queue[1].number => q = 1
       /\ \A v \in Workers : ~Carries(v, queue[1].number)
  BY <1>2 DEF PlacesInv, WaitsOnce
<1>11. WaitsOnce'
  <2> SUFFICES ASSUME NEW p \in DOMAIN queue'
      PROVE /\ queue'[p].number \in DOMAIN story' /\ story'[queue'[p].number] = <<>>
            /\ \A q \in DOMAIN queue' : queue'[q].number = queue'[p].number => q = p
            /\ \A v \in Workers :
                 ~(running'[v] # None /\ running'[v].invocation.number = queue'[p].number)
    BY DEF WaitsOnce, Carries
  <2>1. p + 1 \in DOMAIN queue /\ queue'[p] = queue[p + 1] /\ p + 1 # 1 /\ p \in Nat
    BY <1>2
  <2>2. /\ queue[p + 1].number \in DOMAIN story /\ story[queue[p + 1].number] = <<>>
        /\ \A q \in DOMAIN queue : queue[q].number = queue[p + 1].number => q = p + 1
        /\ \A v \in Workers : ~Carries(v, queue[p + 1].number)
    BY <2>1 DEF PlacesInv, WaitsOnce
  <2>3. \A q \in DOMAIN queue' : queue'[q].number = queue'[p].number => q = p
    <3> TAKE q \in DOMAIN queue'
    <3>1. q \in Nat /\ q + 1 \in DOMAIN queue /\ queue'[q] = queue[q + 1]
      BY <1>2
    <3>2. ASSUME queue'[q].number = queue'[p].number PROVE q + 1 = p + 1
      BY <3>1, <3>2, <2>1, <2>2
    <3> QED
      BY <3>1, <3>2, <2>1
  <2>4. queue[p + 1].number # queue[1].number
    BY <2>1, <1>10
  <2> QED
    BY <2>1, <2>2, <2>3, <2>4, <1>7, <1>9
<1>12. RunsOnce'
  <2> SUFFICES ASSUME NEW v \in Workers, running'[v] # None
      PROVE /\ running'[v].invocation.number \in DOMAIN story'
            /\ story'[running'[v].invocation.number]
                 = IF running'[v].calling THEN <<"started">> ELSE <<>>
            /\ \A u \in Workers :
                 running'[u] # None /\ running'[u].invocation.number = running'[v].invocation.number
                   => u = v
    BY DEF RunsOnce, Carries
  <2>1. CASE v = w
    BY <2>1, <1>4, <1>6, <1>7, <1>9, <1>10
  <2>2. CASE v # w
    <3>1. running'[v] = running[v] /\ running[v] # None
      BY <2>2, <1>6
    <3>2. /\ running[v].invocation.number \in DOMAIN story
          /\ story[running[v].invocation.number]
               = IF running[v].calling THEN <<"started">> ELSE <<>>
          /\ \A u \in Workers : Carries(u, running[v].invocation.number) => u = v
      BY <3>1 DEF PlacesInv, RunsOnce
    <3>3. running[v].invocation.number # queue[1].number
      BY <3>1, <1>10 DEF Carries
    <3> QED
      BY <3>1, <3>2, <3>3, <1>7, <1>9
  <2> QED
    BY <2>1, <2>2
<1>13. NoneForgotten'
  <2> SUFFICES ASSUME NEW i \in DOMAIN story, story[i] \notin Stories
      PROVE \/ \E p \in DOMAIN queue' : queue'[p].number = i
            \/ \E v \in Workers : running'[v] # None /\ running'[v].invocation.number = i
    BY <1>7 DEF NoneForgotten, Carries
  <2>1. CASE \E v \in Workers : Carries(v, i)
    BY <2>1, <1>9
  <2>2. CASE \E p \in DOMAIN queue : queue[p].number = i
    <3>1. PICK p \in DOMAIN queue : queue[p].number = i
      BY <2>2
    <3>2. CASE p = 1
      BY <3>1, <3>2, <1>9
    <3>3. CASE p # 1
      <4>1. PICK q \in DOMAIN queue' : p = q + 1
        BY <3>3, <1>2
      <4>2. queue'[q] = queue[p]
        BY <4>1, <1>2
      <4> QED
        BY <3>1, <4>2
    <3> QED
      BY <3>2, <3>3
  <2> QED
    BY <2>1, <2>2 DEF PlacesInv, NoneForgotten
<1> QED
  BY <1>8, <1>11, <1>12, <1>13 DEF PlacesInv

\* A story of two events, told one after the other.
LEMMA TwoEvents ==
  ASSUME NEW a, NEW b
  PROVE  Append(<<a>>, b) = <<a, b>>
<1> DEFINE S == {a, b}
<1>1. <<a>> \in Seq(S) /\ b \in S /\ Len(<<a>>) = 1 /\ <<a>>[1] = a /\ 1 \in DOMAIN <<a>>
  OBVIOUS
<1>2. PICK t : t = Append(<<a>>, b)
  OBVIOUS
<1>3. t \in Seq(S) /\ Len(t) = 2 /\ t[1] = a /\ t[2] = b
  BY <1>1, <1>2, AppendFacts
<1>4. <<a, b>> \in Seq(S) /\ Len(<<a, b>>) = 2 /\ \A p \in 1..2 : t[p] = <<a, b>>[p]
  BY <1>3
<1> QED
  BY <1>2, <1>3, <1>4, SeqEqual

\* An event is the next one of one story.
LEMMA EmitStep ==
  ASSUME TypeOK, NEW i \in DOMAIN story, NEW event \in Event, Emit(i, event)
  PROVE  /\ story' \in Seq(Seq(Event)) /\ Len(story') = Len(story)
         /\ DOMAIN story' = DOMAIN story
         /\ story'[i] = Append(story[i], event)
         /\ \A k \in DOMAIN story : k # i => story'[k] = story[k]
<1>1. story \in Seq(Seq(Event)) /\ story[i] \in Seq(Event)
  BY DEF TypeOK
<1>2. PICK longer \in Seq(Event) : longer = Append(story[i], event)
  BY <1>1, AppendFacts
<1>3. story' = [story EXCEPT ![i] = longer]
  BY <1>2 DEF Emit
<1> QED
  BY <1>1, <1>2, <1>3

\* What a worker has, as the invariant tells it.
LEMMA HeldOnce ==
  ASSUME TypeOK, PlacesInv, NEW w \in Workers, running[w] # None
  PROVE  /\ running[w] \in Job /\ running[w].invocation.number \in DOMAIN story
         /\ running[w].calling \in BOOLEAN
         /\ story[running[w].invocation.number]
              = IF running[w].calling THEN <<"started">> ELSE <<>>
         /\ \A v \in Workers : running[v] # None
              /\ running[v].invocation.number = running[w].invocation.number => v = w
         /\ \A p \in DOMAIN queue : queue[p].number # running[w].invocation.number
<1>1. running[w] \in Job
  BY DEF TypeOK
<1> QED
  BY <1>1, HeldFacts DEF PlacesInv, RunsOnce, WaitsOnce, Carries

\* The last event of a story: the worker is free and the invocation has ended.
LEMMA EndStep ==
  ASSUME TypeOK, PlacesInv, NEW w \in Workers, running[w] # None, NEW event \in Event,
         Emit(running[w].invocation.number, event),
         Append(story[running[w].invocation.number], event) \in Stories,
         running' = [running EXCEPT ![w] = None],
         UNCHANGED <<sources, configured, checked, queue, edits>>
  PROVE  TypeOK' /\ PlacesInv'
<1> DEFINE i == running[w].invocation.number
<1>1. /\ i \in DOMAIN story
      /\ \A v \in Workers : running[v] # None /\ running[v].invocation.number = i => v = w
      /\ \A p \in DOMAIN queue : queue[p].number # i
  BY HeldOnce
<1>2. /\ story' \in Seq(Seq(Event)) /\ Len(story') = Len(story) /\ DOMAIN story' = DOMAIN story
      /\ story'[i] \in Stories
      /\ \A k \in DOMAIN story : k # i => story'[k] = story[k]
  BY <1>1, EmitStep
<1>3. /\ running' \in [Workers -> {None} \cup Job] /\ running'[w] = None
      /\ \A v \in Workers : v # w => running'[v] = running[v]
  BY DEF TypeOK
<1>4. TypeOK'
  BY <1>2, <1>3 DEF TypeOK
<1>5. WaitsOnce'
  BY <1>1, <1>2, <1>3 DEF PlacesInv, WaitsOnce, Carries
<1>6. RunsOnce'
  BY <1>1, <1>2, <1>3 DEF PlacesInv, RunsOnce, Carries
<1>7. NoneForgotten'
  BY <1>2, <1>3 DEF PlacesInv, NoneForgotten, Carries
<1> QED
  BY <1>4, <1>5, <1>6, <1>7 DEF PlacesInv

\* The webhook is being called: the story has begun.
LEMMA StartStep ==
  ASSUME TypeOK, PlacesInv, NEW w \in Workers, running[w] # None, ~running[w].calling,
         Emit(running[w].invocation.number, "started"),
         running' = [running EXCEPT ![w].calling = TRUE],
         UNCHANGED <<sources, configured, checked, queue, edits>>
  PROVE  TypeOK' /\ PlacesInv'
<1> DEFINE i == running[w].invocation.number
<1>1. /\ running[w] \in Job /\ i \in DOMAIN story /\ story[i] = <<>>
      /\ \A v \in Workers : running[v] # None /\ running[v].invocation.number = i => v = w
      /\ \A p \in DOMAIN queue : queue[p].number # i
  BY HeldOnce
<1>2. "started" \in Event
  BY DEF Event
<1>3. /\ story' \in Seq(Seq(Event)) /\ Len(story') = Len(story) /\ DOMAIN story' = DOMAIN story
      /\ story'[i] = <<"started">>
      /\ \A k \in DOMAIN story : k # i => story'[k] = story[k]
  <2>1. Append(<<>>, "started") = <<"started">>
    OBVIOUS
  <2> QED
    BY <1>1, <1>2, <2>1, EmitStep
<1>4. PICK job : job = [running[w] EXCEPT !.calling = TRUE]
  OBVIOUS
<1>5. job = [invocation |-> running[w].invocation, calling |-> TRUE]
  BY <1>1, <1>4 DEF Job
<1>6. job \in Job /\ job # None /\ job.invocation.number = i /\ job.calling = TRUE
  BY <1>1, <1>5, JobFacts, HeldFacts
<1>7. /\ running' \in [Workers -> {None} \cup Job] /\ running'[w] = job
      /\ \A v \in Workers : v # w => running'[v] = running[v]
  BY <1>4, <1>6 DEF TypeOK
<1>8. TypeOK'
  BY <1>3, <1>7 DEF TypeOK
<1>9. WaitsOnce'
  BY <1>1, <1>3, <1>6, <1>7 DEF PlacesInv, WaitsOnce, Carries
<1>10. RunsOnce'
  <2> SUFFICES ASSUME NEW v \in Workers, running'[v] # None
      PROVE /\ running'[v].invocation.number \in DOMAIN story'
            /\ story'[running'[v].invocation.number]
                 = IF running'[v].calling THEN <<"started">> ELSE <<>>
            /\ \A u \in Workers :
                 running'[u] # None /\ running'[u].invocation.number = running'[v].invocation.number
                   => u = v
    BY DEF RunsOnce, Carries
  <2>1. CASE v = w
    BY <2>1, <1>1, <1>3, <1>6, <1>7
  <2>2. CASE v # w
    <3>1. running'[v] = running[v] /\ running[v] # None
      BY <2>2, <1>7
    <3>2. /\ running[v].invocation.number \in DOMAIN story
          /\ story[running[v].invocation.number]
               = IF running[v].calling THEN <<"started">> ELSE <<>>
          /\ \A u \in Workers : running[u] # None
               /\ running[u].invocation.number = running[v].invocation.number => u = v
      BY <3>1, HeldOnce
    <3>3. running[v].invocation.number # i
      BY <3>1, <2>2, <1>1
    <3> QED
      BY <3>1, <3>2, <3>3, <1>3, <1>6, <1>7
  <2> QED
    BY <2>1, <2>2
<1>11. NoneForgotten'
  <2> SUFFICES ASSUME NEW k \in DOMAIN story, story'[k] \notin Stories
      PROVE \/ \E p \in DOMAIN queue : queue[p].number = k
            \/ \E v \in Workers : running'[v] # None /\ running'[v].invocation.number = k
    BY <1>3 DEF NoneForgotten, Carries
  <2>1. CASE k = i
    BY <2>1, <1>6, <1>7
  <2>2. CASE k # i
    <3>1. \/ \E p \in DOMAIN queue : queue[p].number = k
          \/ \E v \in Workers : running[v] # None /\ running[v].invocation.number = k
      BY <2>2, <1>3 DEF PlacesInv, NoneForgotten, Carries
    <3> QED
      BY <3>1, <2>2, <1>7
  <2> QED
    BY <2>1, <2>2
<1> QED
  BY <1>8, <1>9, <1>10, <1>11 DEF PlacesInv

\* The worker's second look at the table.
LEMMA LookupStep ==
  ASSUME TypeOK, PlacesInv, NEW w \in Workers, Lookup(w)
  PROVE  TypeOK' /\ PlacesInv'
<1> DEFINE i == running[w].invocation.number
<1>1. running[w] # None /\ ~running[w].calling /\ UNCHANGED <<sources, configured, checked, queue, edits>>
  BY DEF Lookup
<1>2. CASE Emit(i, "failed") /\ running' = [running EXCEPT ![w] = None]
  <2>1. story[i] = <<>> /\ Append(<<>>, "failed") = <<"failed">>
    BY <1>1, HeldOnce
  <2>2. <<"failed">> \in Stories /\ "failed" \in Event
    BY DEF Stories, Event
  <2> QED
    BY <1>1, <1>2, <2>1, <2>2, EndStep
<1>3. CASE Emit(i, "started") /\ running' = [running EXCEPT ![w].calling = TRUE]
  BY <1>1, <1>3, StartStep
<1> QED
  BY <1>2, <1>3 DEF Lookup

\* The end of the call.
LEMMA FinishStep ==
  ASSUME TypeOK, PlacesInv, NEW w \in Workers, Finish(w)
  PROVE  TypeOK' /\ PlacesInv'
<1>1. /\ running[w] # None /\ running[w].calling
      /\ running' = [running EXCEPT ![w] = None]
      /\ UNCHANGED <<sources, configured, checked, queue, edits>>
  BY DEF Finish
<1>2. PICK event \in {"succeeded", "failed"} : Emit(running[w].invocation.number, event)
  BY DEF Finish
<1>3. story[running[w].invocation.number] = <<"started">>
  BY <1>1, HeldOnce
<1>4. event \in Event
  BY DEF Event
<1>5. Append(<<"started">>, event) \in Stories
  <2>1. Append(<<"started">>, "succeeded") = <<"started", "succeeded">>
    BY TwoEvents
  <2>2. Append(<<"started">>, "failed") = <<"started", "failed">>
    BY TwoEvents
  <2> QED
    BY <2>1, <2>2 DEF Stories
<1> QED
  BY <1>1, <1>2, <1>3, <1>4, <1>5, EndStep

\* Requests about actions leave invocations alone.
LEMMA RequestStep ==
  ASSUME TypeOK, PlacesInv, NEW n \in Names,
         CheckAction(n) \/ PutAction(n) \/ DeleteAction(n)
  PROVE  TypeOK' /\ PlacesInv'
<1>1. UNCHANGED <<configured, queue, running, story>>
  BY DEF CheckAction, PutAction, DeleteAction
<1>2. checked' \subseteq Names /\ sources' \in [Names -> {"config", "db", None}]
  BY DEF CheckAction, PutAction, DeleteAction, TypeOK
<1>3. edits' \in 0..MaxEdits
  BY ActionsAssumption DEF CheckAction, PutAction, DeleteAction, Edit, TypeOK
<1>4. TypeOK'
  BY <1>1, <1>2, <1>3 DEF TypeOK
<1> QED
  BY <1>1, <1>4 DEF PlacesInv, WaitsOnce, RunsOnce, NoneForgotten, Carries

\* A function from the first numbers is a sequence.
LEMMA FunctionIsSequence ==
  ASSUME NEW S, NEW n \in Nat, NEW f \in [1..n -> S]
  PROVE  f \in Seq(S) /\ Len(f) = n
<1>1. f \in Seq(S)
  BY SeqDef
<1>2. DOMAIN f = 1..n
  OBVIOUS
<1> QED
  BY <1>1, <1>2, LenProperties

\* A restart ends the story of whatever waits or runs.
LEMMA RestartEnds ==
  ASSUME TypeOK, PlacesInv, Restart
  PROVE  TypeOK' /\ PlacesInv'
<1>1. /\ configured' \subseteq Names /\ checked' = {} /\ queue' = <<>>
      /\ running' = [w \in Workers |-> None]
      /\ sources' = Reconciled(configured')
  BY DEF Restart
<1>2. sources' \in [Names -> {"config", "db", None}]
  BY <1>1 DEF Reconciled, TypeOK
<1>3. edits' \in 0..MaxEdits
  BY ActionsAssumption DEF Restart, Edit, TypeOK
<1>4. story \in Seq(Seq(Event)) /\ DOMAIN story = 1..Len(story) /\ Len(story) \in Nat
  BY DEF TypeOK
<1>5. /\ DOMAIN story' = DOMAIN story
      /\ \A i \in DOMAIN story :
           story'[i] = IF Waiting(i) THEN Append(story[i], "lost") ELSE story[i]
  BY DEF Restart
<1>6. \A i \in DOMAIN story : story'[i] \in Seq(Event)
  <2> TAKE i \in DOMAIN story
  <2>1. story[i] \in Seq(Event) /\ "lost" \in Event
    BY <1>4 DEF Event
  <2> QED
    BY <2>1, <1>5, AppendFacts
<1>7. story' \in Seq(Seq(Event)) /\ Len(story') = Len(story)
  <2>1. story' \in [1..Len(story) -> Seq(Event)]
    BY <1>4, <1>5, <1>6 DEF Restart
  <2> QED
    BY <2>1, <1>4, FunctionIsSequence
<1>8. TypeOK'
  <2>1. queue' \in Seq(Invocation) /\ Len(queue') <= QueueSize
    BY <1>1, ActionsAssumption
  <2> QED
    BY <2>1, <1>1, <1>2, <1>3, <1>7 DEF TypeOK
<1>9. \A i \in DOMAIN story : story'[i] \in Stories
  <2> TAKE i \in DOMAIN story
  <2>1. CASE Waiting(i)
    <3>1. CASE \E p \in DOMAIN queue : queue[p].number = i
      <4>1. story[i] = <<>> /\ Append(<<>>, "lost") = <<"lost">>
        BY <3>1 DEF PlacesInv, WaitsOnce
      <4> QED
        BY <4>1, <2>1, <1>5 DEF Stories
    <3>2. CASE \E w \in Workers : running[w] # None /\ running[w].invocation.number = i
      <4>1. story[i] = <<>> \/ story[i] = <<"started">>
        BY <3>2, HeldOnce
      <4>2. Append(<<>>, "lost") = <<"lost">> /\ Append(<<"started">>, "lost") = <<"started", "lost">>
        BY TwoEvents
      <4> QED
        BY <4>1, <4>2, <2>1, <1>5 DEF Stories
    <3> QED
      BY <2>1, <3>1, <3>2 DEF Waiting, Range
  <2>2. CASE ~Waiting(i)
    <3>1. story[i] \in Stories
      BY <2>2 DEF PlacesInv, NoneForgotten, Carries, Waiting, Range
    <3> QED
      BY <2>2, <3>1, <1>5
  <2> QED
    BY <2>1, <2>2
<1>10. \A w \in Workers : running'[w] = None
  BY <1>1
<1> QED
  BY <1>1, <1>5, <1>8, <1>9, <1>10 DEF PlacesInv, WaitsOnce, RunsOnce, NoneForgotten

\* Every step keeps the types and the places of invocations.
LEMMA PlacesStep == TypeOK /\ PlacesInv /\ [Next]_vars => TypeOK' /\ PlacesInv'
<1> SUFFICES ASSUME TypeOK, PlacesInv, [Next]_vars PROVE TypeOK' /\ PlacesInv'
  OBVIOUS
<1>1. ASSUME NEW n \in Names, Submit(n) PROVE TypeOK' /\ PlacesInv'
  BY <1>1, SubmitStep
<1>2. ASSUME NEW n \in Names, CheckAction(n) \/ PutAction(n) \/ DeleteAction(n)
      PROVE TypeOK' /\ PlacesInv'
  BY <1>2, RequestStep
<1>3. ASSUME NEW w \in Workers, Work(w) PROVE TypeOK' /\ PlacesInv'
  BY <1>3, TakeStep, LookupStep, FinishStep DEF Work
<1>4. CASE Restart
  BY <1>4, RestartEnds
<1>5. CASE UNCHANGED vars
  BY <1>5 DEF vars, TypeOK, PlacesInv, WaitsOnce, RunsOnce, NoneForgotten, Carries
<1> QED
  BY <1>1, <1>2, <1>3, <1>4, <1>5 DEF Next

\* At one place, and nowhere else: from the places of invocations to the sets
\* the property counts them with.
LEMMA PlacesAccounted == TypeOK /\ PlacesInv => Accounted
<1> SUFFICES ASSUME TypeOK, PlacesInv, NEW i \in DOMAIN story
    PROVE IF story[i] \in Stories
          THEN ~Waiting(i)
          ELSE \/ /\ story[i] = <<>> /\ Holders(i) = {}
                  /\ \E p \in DOMAIN queue : Positions(i) = {p}
               \/ /\ Positions(i) = {}
                  /\ \E w \in Workers :
                       /\ Holders(i) = {w}
                       /\ story[i] = IF running[w].calling THEN <<"started">> ELSE <<>>
  BY DEF Accounted
<1>1. ASSUME NEW p \in DOMAIN queue, queue[p].number = i
      PROVE  story[i] = <<>> /\ Holders(i) = {} /\ Positions(i) = {p}
  BY <1>1 DEF PlacesInv, WaitsOnce, Carries, Holders, Positions
<1>2. ASSUME NEW w \in Workers, running[w] # None, running[w].invocation.number = i
      PROVE  /\ Positions(i) = {} /\ Holders(i) = {w}
             /\ story[i] = IF running[w].calling THEN <<"started">> ELSE <<>>
  BY <1>2, HeldOnce DEF Holders, Positions
<1>3. CASE story[i] \in Stories
  <2>1. story[i] # <<>> /\ story[i] # <<"started">>
    BY <1>3, StoriesEnd
  <2> QED
    BY <2>1, <1>1, <1>2, <1>3 DEF Waiting, Range
<1>4. CASE story[i] \notin Stories
  <2>1. \/ \E p \in DOMAIN queue : queue[p].number = i
        \/ \E w \in Workers : running[w] # None /\ running[w].invocation.number = i
    BY <1>4 DEF PlacesInv, NoneForgotten, Carries
  <2> QED
    BY <2>1, <1>1, <1>2, <1>4
<1> QED
  BY <1>3, <1>4

\* The types of the runner's state and of the table, and the channel's bound.
THEOREM ActionTypes == Spec => []TypeOK
<1> QED
  BY PlacesInit, PlacesStep, PTL DEF Spec

\* Every tap on a webhook region ends in exactly one of the ways the events tell a
\* listener about; until then it waits at one place in the channel and no worker
\* has it, or exactly one worker has it and it does not wait: through any number of
\* taps and workers, any size of the channel, and restarts.
THEOREM AccountedAlways == Spec => []Accounted
<1> QED
  BY PlacesInit, PlacesStep, PlacesAccounted, PTL DEF Spec
=============================================================================
