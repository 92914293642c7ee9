------------------------- MODULE EventStreamProofs -------------------------
(* What a client of the event stream sees, for any emitters, clients, buffer, *)
(* page and limit: each event once and in order, and every event since it     *)
(* connected unless its channel was full, a newer event overtook it or the    *)
(* query of its replay failed.                                                *)
EXTENDS EventStream, SequenceTheorems, TLAPS

-----------------------------------------------------------------------------
(* The operators of the handler *)

\* A page holds stored, unpruned events after the given one, in order and without
\* a gap; the last page ends with the newest event.
LEMMA EventsAfterFacts ==
  ASSUME stored \in 0..MaxEvents, pruned \in 0..stored, NEW id \in 0..stored,
         NEW items, items = EventsAfter(id)
  PROVE  /\ items \in Seq(Ids)
         /\ DOMAIN items = 1..Len(items) /\ Len(items) \in Nat
         /\ \A i \in DOMAIN items : items[i] \in id + 1..stored /\ items[i] > pruned
         /\ \A i, j \in DOMAIN items : i < j => items[i] < items[j]
         /\ items # <<>> => /\ Len(items) \in DOMAIN items
                            /\ \A y \in id + 1..items[Len(items)] :
                                 y > pruned => \E i \in DOMAIN items : items[i] = y
         /\ ReplayDone(items) =>
              \A y \in id + 1..stored :
                y > pruned => \E i \in DOMAIN items : items[i] = y
<1> DEFINE first == IF id > pruned THEN id + 1 ELSE pruned + 1
           count == IF first > stored THEN 0
                    ELSE IF stored - first + 1 > Page THEN Page
                    ELSE stored - first + 1
<1>1. first \in Nat /\ first > id /\ first > pruned /\ count \in Nat
  BY SizesAssumption
<1>2. items = [i \in 1..count |-> first + i - 1]
  BY DEF EventsAfter
<1>3. count > 0 => first + count - 1 <= stored
  BY SizesAssumption
<1>4. \A y \in id + 1..stored : y > pruned => first <= y
  OBVIOUS
<1>5. count < Page => \A y \in id + 1..stored : y > pruned => y - first + 1 <= count
  BY SizesAssumption
<1>6. MaxEvents \in Nat /\ Page \in Nat
  BY SizesAssumption
<1> HIDE DEF first, count
<1>7. /\ \A i \in 1..count : items[i] = first + i - 1 /\ items[i] \in id + 1..stored
                            /\ items[i] > pruned /\ items[i] \in Ids
      /\ DOMAIN items = 1..count
  BY <1>1, <1>2, <1>3, <1>6 DEF Ids
<1>8. items \in Seq(Ids) /\ Len(items) = count
  <2>1. items \in [1..count -> Ids]
    BY <1>2, <1>7
  <2> QED
    BY <1>1, <2>1, LenProperties
<1>9. \A y \in Nat : y >= first /\ y - first + 1 <= count =>
        y - first + 1 \in DOMAIN items /\ items[y - first + 1] = y
  BY <1>1, <1>7
<1>10. \A i, j \in DOMAIN items : i < j => items[i] < items[j]
  BY <1>1, <1>7
<1>11. ASSUME items # <<>>
       PROVE  /\ Len(items) \in DOMAIN items
              /\ \A y \in id + 1..items[Len(items)] :
                   y > pruned => \E i \in DOMAIN items : items[i] = y
  <2>1. count > 0
    BY <1>1, <1>8, <1>11
  <2>2. count \in 1..count /\ items[count] = first + count - 1 /\ items[count] \in id + 1..stored
    BY <1>1, <1>7, <2>1
  <2>3. ASSUME NEW y \in id + 1..items[count], y > pruned
        PROVE  \E i \in DOMAIN items : items[i] = y
    <3>1. y \in Nat /\ y >= first /\ y - first + 1 <= count
      BY <1>1, <1>4, <2>2, <2>3
    <3> QED
      BY <1>9, <3>1
  <2> QED
    BY <1>7, <1>8, <2>2, <2>3
<1>12. ASSUME ReplayDone(items), NEW y \in id + 1..stored, y > pruned
       PROVE  \E i \in DOMAIN items : items[i] = y
  <2>1. y - first + 1 <= count /\ y >= first /\ y \in Nat
    BY <1>4, <1>5, <1>8, <1>12 DEF ReplayDone
  <2> QED
    BY <1>9, <2>1
<1> QED
  BY <1>1, <1>7, <1>8, <1>10, <1>11, <1>12

\* Sending adds the events at the end of what was sent and remembers the last.
LEMMA SendFacts ==
  ASSUME NEW x \in Streams, NEW events \in Seq(Ids)
  PROVE  /\ Send(x, events) \in Streams
         /\ Send(x, events).pc = x.pc /\ Send(x, events).channel = x.channel
         /\ Send(x, events).from = x.from /\ Send(x, events).dropped = x.dropped
         /\ Send(x, events).sent = x.sent \o events
         /\ Send(x, events).lastID = IF events = <<>> THEN x.lastID ELSE events[Len(events)]
<1>1. events # <<>> => events[Len(events)] \in Ids
  OBVIOUS
<1>2. events # <<>> => events[Len(events)] \in Nat
  BY <1>1 DEF Ids
<1>3. x.sent \o events \in Seq(Ids)
  BY DEF Streams
<1> QED
  BY <1>2, <1>3 DEF Send, Streams

\* What is in two sequences one after the other.
LEMMA ConcatFacts ==
  ASSUME NEW s \in Seq(Ids), NEW t \in Seq(Ids)
  PROVE  /\ DOMAIN (s \o t) = 1..(Len(s) + Len(t)) /\ Len(s) \in Nat /\ Len(t) \in Nat
         /\ \A i \in DOMAIN (s \o t) :
              \/ i \in DOMAIN s /\ (s \o t)[i] = s[i]
              \/ i > Len(s) /\ i - Len(s) \in DOMAIN t /\ (s \o t)[i] = t[i - Len(s)]
         /\ \A i \in DOMAIN s : i \in DOMAIN (s \o t) /\ (s \o t)[i] = s[i]
         /\ \A i \in DOMAIN t : i + Len(s) \in DOMAIN (s \o t) /\ (s \o t)[i + Len(s)] = t[i]
         /\ DOMAIN s = 1..Len(s)
OBVIOUS

\* Event IDs are numbers.
LEMMA IdFacts ==
  ASSUME NEW s \in Seq(Ids)
  PROVE  \A i \in DOMAIN s : s[i] \in Ids /\ s[i] \in Nat
<1>1. \A id \in Ids : id \in Nat
  BY SizesAssumption DEF Ids
<1>2. \A i \in DOMAIN s : s[i] \in Ids
  OBVIOUS
<1> QED
  BY <1>1, <1>2

\* One event more.
LEMMA AppendFacts ==
  ASSUME NEW s \in Seq(Ids), NEW event \in Ids
  PROVE  /\ DOMAIN Append(s, event) = 1..Len(s) + 1 /\ DOMAIN s = 1..Len(s) /\ Len(s) \in Nat
         /\ \A i \in DOMAIN s : Append(s, event)[i] = s[i]
         /\ Append(s, event)[Len(s) + 1] = event
         /\ \A i \in DOMAIN Append(s, event) : i \in DOMAIN s \/ i = Len(s) + 1
OBVIOUS

\* What each local of a stream handler is.
LEMMA StreamFields ==
  ASSUME NEW x \in Streams
  PROVE  /\ x.channel \in Seq(Ids) /\ x.sent \in Seq(Ids)
         /\ x.lastID \in Nat /\ x.from \in Nat
         /\ \A i \in DOMAIN x.channel : x.channel[i] \in Ids /\ x.channel[i] \in Nat
         /\ \A i \in DOMAIN x.sent : x.sent[i] \in Ids /\ x.sent[i] \in Nat
<1>1. x.channel \in Seq(Ids) /\ x.sent \in Seq(Ids) /\ x.lastID \in Nat /\ x.from \in Nat
  BY DEF Streams
<1> QED
  BY <1>1, IdFacts

-----------------------------------------------------------------------------
(* Types *)

\* No handler is ahead of the events table.
Bounded ==
  /\ \A e \in Emitters : emitting[e] <= stored
  /\ \A c \in Clients :
       /\ \A i \in DOMAIN stream[c].channel : stream[c].channel[i] <= stored
       /\ \A i \in DOMAIN stream[c].sent : stream[c].sent[i] <= stream[c].lastID

TypeInv == TypeOK /\ Bounded

\* At the start nothing is stored and nobody is connected.
LEMMA InitTypes == Init => TypeInv
<1> SUFFICES ASSUME Init PROVE TypeInv
  OBVIOUS
<1>1. MaxEvents \in Nat /\ Off \in Streams
  BY SizesAssumption DEF Off, Streams
<1>2. Off.channel = <<>> /\ Off.sent = <<>> /\ Off.lastID = 0
  BY DEF Off
<1>3. stream = [c \in Clients |-> Off]
  BY DEF Init
<1>4. TypeOK
  BY <1>1, <1>2, <1>3 DEF Init, TypeOK
<1>5. Bounded
  BY <1>1, <1>2, <1>3 DEF Init, Bounded, NoEvent
<1> QED
  BY <1>4, <1>5 DEF TypeInv

\* A channel only ever gets the offered event.
LEMMA OfferFacts ==
  ASSUME NEW x \in Streams, NEW event \in Ids, NEW z, z = Offer(x, event)
  PROVE  /\ z \in Streams
         /\ z.pc = x.pc /\ z.lastID = x.lastID /\ z.sent = x.sent /\ z.from = x.from
         /\ x.dropped \subseteq z.dropped
         /\ \/ z.channel = x.channel
            \/ z.channel = Append(x.channel, event)
         /\ x.pc # "off" => \/ z.channel = Append(x.channel, event)
                            \/ event \in z.dropped
<1>1. CASE x.pc = "off"
  BY <1>1 DEF Offer
<1>2. CASE x.pc # "off" /\ Len(x.channel) < Buffer
  <2>1. PICK channel \in Seq(Ids) : channel = Append(x.channel, event)
    <3>1. x.channel \in Seq(Ids)
      BY DEF Streams
    <3> QED
      BY <3>1, AppendProperties
  <2>2. z = [x EXCEPT !.channel = channel]
    BY <1>2, <2>1 DEF Offer
  <2> QED
    BY <2>1, <2>2 DEF Streams
<1>3. CASE x.pc # "off" /\ ~(Len(x.channel) < Buffer)
  BY <1>3 DEF Offer, Streams
<1> QED
  BY <1>1, <1>2, <1>3

\* A new stream replays after the last event its client has, or follows from now.
LEMMA SubscribeFacts ==
  ASSUME stored \in Nat, NEW c \in Clients, resume[c] \in 0..stored
  PROVE  /\ Subscribe(c) \in Streams
         /\ Subscribe(c).channel = <<>> /\ Subscribe(c).sent = <<>>
         /\ Subscribe(c).lastID <= stored /\ Subscribe(c).lastID <= Subscribe(c).from
         /\ Subscribe(c).pc = "live" => Subscribe(c).from = stored
<1>1. CASE resume[c] > 0
  <2>1. Subscribe(c) = [pc |-> "replay", channel |-> <<>>, lastID |-> resume[c], sent |-> <<>>,
                        from |-> resume[c], dropped |-> {}]
    BY <1>1 DEF Subscribe, Off
  <2> QED
    BY <2>1 DEF Streams
<1>2. CASE ~(resume[c] > 0)
  <2>1. Subscribe(c) = [pc |-> "live", channel |-> <<>>, lastID |-> 0, sent |-> <<>>,
                        from |-> stored, dropped |-> {}]
    BY <1>2 DEF Subscribe, Off
  <2> QED
    BY <2>1 DEF Streams
<1> QED
  BY <1>1, <1>2

\* What publishing an event changes.
LEMMA PublishFacts ==
  ASSUME TypeInv, NEW e \in Emitters, Publish(e)
  PROVE  /\ emitting[e] \in Ids /\ emitting[e] <= stored
         /\ stored' = stored /\ pruned' = pruned /\ resume' = resume
         /\ emitting' = [emitting EXCEPT ![e] = NoEvent]
         /\ stream' = [c \in Clients |-> Offer(stream[c], emitting[e])]
         /\ \A c \in Clients : stream'[c] = Offer(stream[c], emitting[e]) /\ stream[c] \in Streams
         /\ late \subseteq late' /\ late' \subseteq late \cup {emitting[e]}
         /\ (\E newer \in Published : emitting[e] < newer) => emitting[e] \in late'
<1>1. stream' = [c \in Clients |-> Offer(stream[c], emitting[e])]
  BY DEF Publish
<1>2. \A c \in Clients : stream'[c] = Offer(stream[c], emitting[e])
  BY <1>1
<1>3. emitting[e] \in Ids /\ emitting[e] <= stored /\ \A c \in Clients : stream[c] \in Streams
  BY DEF TypeInv, TypeOK, Bounded, Publish
<1> QED
  BY <1>1, <1>2, <1>3 DEF Publish

\* What replaying a page changes.
LEMMA ReplayFacts ==
  ASSUME TypeInv, NEW c \in Clients, Replay(c),
         NEW items, items = EventsAfter(stream[c].lastID)
  PROVE  /\ stored' = stored /\ pruned' = pruned /\ emitting' = emitting
         /\ resume' = resume /\ late' = late
         /\ stream' \in [Clients -> Streams]
         /\ \A d \in Clients \ {c} : stream'[d] = stream[d]
         /\ stream[c].pc = "replay" /\ stream[c] \in Streams /\ stream[c].lastID \in 0..stored
         /\ stream'[c].pc = IF ReplayDone(items) THEN "live" ELSE "replay"
         /\ stream'[c].channel = stream[c].channel /\ stream'[c].from = stream[c].from
         /\ stream'[c].dropped = stream[c].dropped
         /\ stream'[c].sent = stream[c].sent \o items
         /\ stream'[c].lastID = IF items = <<>> THEN stream[c].lastID ELSE items[Len(items)]
<1>1. /\ stream \in [Clients -> Streams] /\ stream[c] \in Streams
      /\ stored \in 0..MaxEvents /\ pruned \in 0..stored /\ stream[c].lastID \in 0..stored
  BY SizesAssumption DEF TypeInv, TypeOK, Streams
<1>2. items \in Seq(Ids)
  BY <1>1, EventsAfterFacts
<1>3. PICK y : y = Send(stream[c], items)
  OBVIOUS
<1>4. /\ y \in Streams
      /\ y.channel = stream[c].channel /\ y.from = stream[c].from /\ y.dropped = stream[c].dropped
      /\ y.sent = stream[c].sent \o items
      /\ y.lastID = IF items = <<>> THEN stream[c].lastID ELSE items[Len(items)]
  <2>1. stream[c] \in Streams
    BY <1>1
  <2> QED
    BY <1>2, <1>3, <2>1, SendFacts
<1>5. PICK next \in {"live", "replay"} : next = IF ReplayDone(items) THEN "live" ELSE "replay"
  OBVIOUS
<1>6. PICK z : z = [y EXCEPT !.pc = next]
  OBVIOUS
<1>7. stream' = [stream EXCEPT ![c] = z]
  BY <1>3, <1>5, <1>6 DEF Replay
<1>8. /\ z \in Streams /\ z.pc = next
      /\ z.channel = y.channel /\ z.from = y.from /\ z.dropped = y.dropped
      /\ z.sent = y.sent /\ z.lastID = y.lastID
  BY <1>4, <1>6 DEF Streams
<1>9. stream'[c] = z /\ \A d \in Clients \ {c} : stream'[d] = stream[d]
  BY <1>1, <1>7
<1>10. stream' \in [Clients -> Streams]
  BY <1>1, <1>7, <1>8
<1> QED
  BY <1>1, <1>4, <1>5, <1>8, <1>9, <1>10 DEF Replay

\* What the failure of a query changes: the stream follows, and what was not
\* replayed is missing.
LEMMA ReplayFailsFacts ==
  ASSUME TypeInv, NEW c \in Clients, ReplayFails(c)
  PROVE  /\ stored' = stored /\ pruned' = pruned /\ emitting' = emitting
         /\ resume' = resume /\ late' = late
         /\ stream' \in [Clients -> Streams]
         /\ \A d \in Clients \ {c} : stream'[d] = stream[d]
         /\ stream[c] \in Streams /\ stream'[c].pc = "live"
         /\ stream'[c].channel = stream[c].channel /\ stream'[c].from = stream[c].from
         /\ stream'[c].sent = stream[c].sent /\ stream'[c].lastID = stream[c].lastID
         /\ stream'[c].dropped = stream[c].dropped \cup Unreplayed(c)
<1>1. /\ stream \in [Clients -> Streams] /\ stream[c] \in Streams
      /\ stored \in 0..MaxEvents /\ MaxEvents \in Nat
  BY SizesAssumption DEF TypeInv, TypeOK
<1>2. PICK missing : missing = Unreplayed(c)
  OBVIOUS
<1>3. missing \in SUBSET Ids
  BY <1>1, <1>2 DEF Unreplayed, Published, Ids
<1>4. PICK z : z = [stream[c] EXCEPT !.pc = "live", !.dropped = @ \cup missing]
  OBVIOUS
<1>5. /\ z \in Streams /\ z.pc = "live" /\ z.dropped = stream[c].dropped \cup missing
      /\ z.channel = stream[c].channel /\ z.from = stream[c].from
      /\ z.sent = stream[c].sent /\ z.lastID = stream[c].lastID
  BY <1>1, <1>3, <1>4 DEF Streams
<1>6. stream' = [stream EXCEPT ![c] = z]
  BY <1>1, <1>2, <1>4 DEF ReplayFails
<1>7. stream'[c] = z /\ (\A d \in Clients \ {c} : stream'[d] = stream[d])
      /\ stream' \in [Clients -> Streams]
  BY <1>1, <1>5, <1>6
<1> QED
  BY <1>1, <1>2, <1>5, <1>7 DEF ReplayFails

\* What following one event of the channel changes.
LEMMA LiveFacts ==
  ASSUME TypeInv, NEW c \in Clients, Live(c), NEW event, event = Head(stream[c].channel)
  PROVE  /\ stored' = stored /\ pruned' = pruned /\ emitting' = emitting
         /\ resume' = resume /\ late' = late
         /\ stream' \in [Clients -> Streams]
         /\ \A d \in Clients \ {c} : stream'[d] = stream[d]
         /\ stream[c].pc = "live" /\ stream[c] \in Streams /\ stream[c].lastID \in 0..stored
         /\ stream[c].channel # <<>> /\ event \in Ids
         /\ stream'[c].pc = "live"
         /\ stream'[c].channel = Tail(stream[c].channel) /\ stream'[c].from = stream[c].from
         /\ stream'[c].dropped = stream[c].dropped
         /\ \/ /\ event > stream[c].lastID
               /\ stream'[c].sent = stream[c].sent \o <<event>> /\ stream'[c].lastID = event
            \/ /\ event <= stream[c].lastID
               /\ stream'[c].sent = stream[c].sent /\ stream'[c].lastID = stream[c].lastID
<1>1. /\ stream \in [Clients -> Streams] /\ stream[c] \in Streams
      /\ stored \in 0..MaxEvents /\ stream[c].lastID \in 0..stored
  BY SizesAssumption DEF TypeInv, TypeOK, Streams
<1>2. stream[c].channel # <<>> /\ stream[c].channel \in Seq(Ids)
  BY <1>1 DEF Live, Streams
<1>3. event \in Ids /\ Tail(stream[c].channel) \in Seq(Ids)
  BY <1>2, HeadTailProperties
<1>4. PICK rest : rest = [stream[c] EXCEPT !.channel = Tail(stream[c].channel)]
  OBVIOUS
<1>5. /\ rest \in Streams /\ rest.channel = Tail(stream[c].channel)
      /\ rest.pc = stream[c].pc /\ rest.from = stream[c].from /\ rest.dropped = stream[c].dropped
      /\ rest.sent = stream[c].sent /\ rest.lastID = stream[c].lastID
  BY <1>1, <1>3, <1>4 DEF Streams
<1>6. PICK z : z = IF IsNew(stream[c], event) THEN Send(rest, <<event>>) ELSE rest
  OBVIOUS
<1>7. stream' = [stream EXCEPT ![c] = z]
  BY <1>4, <1>6 DEF Live
<1>8. stream'[c] = z /\ \A d \in Clients \ {c} : stream'[d] = stream[d]
  BY <1>1, <1>7
<1>9. CASE IsNew(stream[c], event)
  <2>1. /\ <<event>> \in Seq(Ids) /\ <<event>> # <<>> /\ Len(<<event>>) = 1
        /\ <<event>>[1] = event
    BY <1>3
  <2>2. z = Send(rest, <<event>>)
    BY <1>6, <1>9
  <2>3. /\ z \in Streams
        /\ z.pc = rest.pc /\ z.channel = rest.channel /\ z.from = rest.from
        /\ z.dropped = rest.dropped /\ z.sent = rest.sent \o <<event>>
        /\ z.lastID = event
    <3>1. rest \in Streams
      BY <1>5
    <3>2. PICK events \in Seq(Ids) : events = <<event>>
      BY <2>1
    <3>3. /\ z \in Streams
          /\ z.pc = rest.pc /\ z.channel = rest.channel /\ z.from = rest.from
          /\ z.dropped = rest.dropped /\ z.sent = rest.sent \o events
          /\ z.lastID = IF events = <<>> THEN rest.lastID ELSE events[Len(events)]
      BY <2>2, <3>1, <3>2, SendFacts
    <3> QED
      BY <2>1, <3>2, <3>3
  <2>4. stream' \in [Clients -> Streams]
    BY <1>1, <1>7, <2>3
  <2> QED
    BY <1>1, <1>2, <1>3, <1>5, <1>8, <1>9, <2>3, <2>4 DEF Live, IsNew
<1>10. CASE ~IsNew(stream[c], event)
  <2>1. z = rest
    BY <1>6, <1>10
  <2>2. stream' \in [Clients -> Streams]
    BY <1>1, <1>5, <1>7, <2>1
  <2>3. event <= stream[c].lastID
    BY <1>1, <1>3, <1>10 DEF IsNew, Ids
  <2> QED
    BY <1>1, <1>2, <1>3, <1>5, <1>8, <2>1, <2>2, <2>3 DEF Live
<1> QED
  BY <1>9, <1>10

\* The bounds on one stream.
StreamBounded(c) ==
  /\ \A i \in DOMAIN stream[c].channel : stream[c].channel[i] <= stored
  /\ \A i \in DOMAIN stream[c].sent : stream[c].sent[i] <= stream[c].lastID
  /\ stream[c].lastID <= stored

\* What the invariant says of each variable.
LEMMA TypeFacts ==
  ASSUME TypeInv
  PROVE  /\ stored \in 0..MaxEvents /\ stored \in Nat /\ MaxEvents \in Nat
         /\ pruned \in 0..stored /\ pruned \in Nat
         /\ emitting \in [Emitters -> Ids \cup {NoEvent}]
         /\ \A e \in Emitters : emitting[e] \in Nat /\ emitting[e] <= stored
         /\ stream \in [Clients -> Streams]
         /\ resume \in [Clients -> 0..stored]
         /\ late \subseteq Ids
         /\ \A c \in Clients : StreamBounded(c) /\ stream[c] \in Streams
<1>1. MaxEvents \in Nat
  BY SizesAssumption
<1>2. \A e \in Emitters : emitting[e] \in Nat
  BY <1>1 DEF TypeInv, TypeOK, NoEvent, Ids
<1> QED
  BY <1>1, <1>2 DEF TypeInv, TypeOK, Bounded, StreamBounded

\* What a step has to establish for the types to be kept.
LEMMA TypeInvFrom ==
  ASSUME stored' \in 0..MaxEvents, pruned' \in 0..stored',
         emitting' \in [Emitters -> Ids \cup {NoEvent}],
         \A e \in Emitters : emitting'[e] <= stored',
         stream' \in [Clients -> Streams],
         \A c \in Clients : StreamBounded(c)',
         resume' \in [Clients -> 0..stored'], late' \subseteq Ids
  PROVE  TypeInv'
BY DEF TypeInv, TypeOK, Bounded, StreamBounded

\* Every step keeps the types and the bounds on event IDs.
LEMMA TypeInvStep == TypeInv /\ [Next]_vars => TypeInv'
<1> SUFFICES ASSUME TypeInv, [Next]_vars PROVE TypeInv'
  OBVIOUS
<1>1. /\ stored \in 0..MaxEvents /\ stored \in Nat /\ MaxEvents \in Nat
      /\ pruned \in 0..stored /\ pruned \in Nat
      /\ emitting \in [Emitters -> Ids \cup {NoEvent}]
      /\ \A e \in Emitters : emitting[e] \in Nat /\ emitting[e] <= stored
      /\ stream \in [Clients -> Streams]
      /\ resume \in [Clients -> 0..stored]
      /\ late \subseteq Ids
      /\ \A c \in Clients : StreamBounded(c) /\ stream[c] \in Streams
  BY TypeFacts
<1>2. ASSUME NEW e \in Emitters, AddEvent(e)
      PROVE  TypeInv'
  <2>1. /\ stored' = stored + 1 /\ stored < MaxEvents /\ stream' = stream
        /\ pruned' = pruned /\ resume' = resume /\ late' = late
        /\ emitting' = [emitting EXCEPT ![e] = stored + 1]
    BY <1>2 DEF AddEvent
  <2>2. stored' \in 0..MaxEvents /\ pruned' \in 0..stored' /\ stored + 1 \in Ids
    BY <1>1, <2>1 DEF Ids
  <2>3. /\ emitting' \in [Emitters -> Ids \cup {NoEvent}]
        /\ \A f \in Emitters : emitting'[f] <= stored'
    BY <1>1, <2>1, <2>2
  <2>4. ASSUME NEW c \in Clients PROVE StreamBounded(c)'
    <3>1. stream[c] \in Streams /\ StreamBounded(c)
      BY <1>1
    <3>2. /\ \A i \in DOMAIN stream[c].channel : stream[c].channel[i] \in Nat
          /\ stream[c].lastID \in Nat
      BY <3>1, StreamFields
    <3> QED
      BY <1>1, <2>1, <3>1, <3>2 DEF StreamBounded
  <2>5. resume' \in [Clients -> 0..stored']
    BY <1>1, <2>1
  <2> QED
    BY <1>1, <2>1, <2>2, <2>3, <2>4, <2>5, TypeInvFrom
<1>3. ASSUME NEW e \in Emitters, Publish(e)
      PROVE  TypeInv'
  <2>1. /\ emitting[e] \in Ids /\ emitting[e] <= stored
        /\ stored' = stored /\ pruned' = pruned /\ resume' = resume
        /\ emitting' = [emitting EXCEPT ![e] = NoEvent]
        /\ stream' = [c \in Clients |-> Offer(stream[c], emitting[e])]
        /\ \A c \in Clients : stream'[c] = Offer(stream[c], emitting[e])
        /\ late' \subseteq late \cup {emitting[e]}
    BY <1>3, PublishFacts
  <2>2. /\ emitting' \in [Emitters -> Ids \cup {NoEvent}]
        /\ \A f \in Emitters : emitting'[f] <= stored'
    BY <1>1, <2>1 DEF NoEvent
  <2>3. ASSUME NEW c \in Clients PROVE StreamBounded(c)' /\ stream'[c] \in Streams
    <3>1. stream[c] \in Streams /\ StreamBounded(c)
      BY <1>1
    <3>2. /\ stream'[c] \in Streams
          /\ stream'[c].lastID = stream[c].lastID /\ stream'[c].sent = stream[c].sent
          /\ \/ stream'[c].channel = stream[c].channel
             \/ stream'[c].channel = Append(stream[c].channel, emitting[e])
      BY <2>1, <3>1, OfferFacts
    <3>3. stream[c].channel \in Seq(Ids)
      BY <3>1 DEF Streams
    <3>4. \A i \in DOMAIN stream'[c].channel : stream'[c].channel[i] <= stored
      <4>1. \A i \in DOMAIN stream[c].channel : stream[c].channel[i] <= stored
        BY <3>1 DEF StreamBounded
      <4>2. \A i \in DOMAIN Append(stream[c].channel, emitting[e]) :
              Append(stream[c].channel, emitting[e])[i] <= stored
        BY <2>1, <3>3, <4>1, AppendFacts
      <4> QED
        BY <3>2, <4>1, <4>2
    <3> QED
      BY <2>1, <3>1, <3>2, <3>4 DEF StreamBounded
  <2>4. stream' \in [Clients -> Streams]
    BY <2>1, <2>3
  <2> QED
    BY <1>1, <2>1, <2>2, <2>3, <2>4, TypeInvFrom
<1>4. CASE PruneEvents
  <2>1. /\ pruned' \in 0..stored /\ stored' = stored /\ emitting' = emitting
        /\ stream' = stream /\ resume' = resume /\ late' = late
    BY <1>1, <1>4, SizesAssumption DEF PruneEvents
  <2>2. \A c \in Clients : StreamBounded(c)'
    BY <1>1, <2>1 DEF StreamBounded
  <2> QED
    BY <1>1, <2>1, <2>2, TypeInvFrom
<1>5. ASSUME NEW c \in Clients, Connect(c)
      PROVE  TypeInv'
  <2>1. /\ stored' = stored /\ pruned' = pruned /\ emitting' = emitting
        /\ resume' = resume /\ late' = late
        /\ stream' = [stream EXCEPT ![c] = Subscribe(c)]
    BY <1>5 DEF Connect
  <2>2. /\ Subscribe(c) \in Streams /\ Subscribe(c).channel = <<>> /\ Subscribe(c).sent = <<>>
        /\ Subscribe(c).lastID <= stored
    BY <1>1, SubscribeFacts
  <2>3. stream' \in [Clients -> Streams]
    BY <1>1, <2>1, <2>2
  <2>4. \A d \in Clients : StreamBounded(d)'
    BY <1>1, <2>1, <2>2 DEF StreamBounded
  <2> QED
    BY <1>1, <2>1, <2>3, <2>4, TypeInvFrom
<1>6. ASSUME NEW c \in Clients, Replay(c)
      PROVE  TypeInv'
  <2>1. PICK items : items = EventsAfter(stream[c].lastID)
    OBVIOUS
  <2>2. /\ stored' = stored /\ pruned' = pruned /\ emitting' = emitting
        /\ resume' = resume /\ late' = late
        /\ stream' \in [Clients -> Streams]
        /\ \A d \in Clients \ {c} : stream'[d] = stream[d]
        /\ stream[c] \in Streams /\ stream[c].lastID \in 0..stored
        /\ stream'[c].channel = stream[c].channel
        /\ stream'[c].sent = stream[c].sent \o items
        /\ stream'[c].lastID = IF items = <<>> THEN stream[c].lastID ELSE items[Len(items)]
    BY <1>6, <2>1, ReplayFacts
  <2>3. /\ items \in Seq(Ids)
        /\ DOMAIN items = 1..Len(items) /\ Len(items) \in Nat
        /\ \A i \in DOMAIN items : items[i] \in stream[c].lastID + 1..stored
        /\ \A i, j \in DOMAIN items : i < j => items[i] < items[j]
        /\ items # <<>> => Len(items) \in DOMAIN items
    BY <1>1, <2>1, <2>2, EventsAfterFacts
  <2>4. stream'[c].lastID <= stored /\ stream[c].lastID <= stream'[c].lastID
    BY <1>1, <2>2, <2>3
  <2>5. \A i \in DOMAIN items : items[i] <= stream'[c].lastID
    <3>1. ASSUME NEW i \in DOMAIN items PROVE items[i] <= items[Len(items)] /\ items # <<>>
      <4>1. Len(items) \in DOMAIN items /\ items # <<>> /\ i <= Len(items) /\ i \in Nat
        BY <2>3
      <4>2. items[i] \in Nat
        BY <2>3, IdFacts
      <4> QED
        BY <2>3, <4>1, <4>2
    <3> QED
      BY <2>2, <3>1
  <2>6. stream[c].sent \in Seq(Ids) /\ stream[c].lastID \in Nat /\ stream'[c].lastID \in Nat
        /\ StreamBounded(c)
    BY <1>1, <2>2 DEF Streams
  <2>7. \A i \in DOMAIN stream[c].sent : stream[c].sent[i] <= stream'[c].lastID
    <3>1. \A i \in DOMAIN stream[c].sent : stream[c].sent[i] \in Nat
      BY <2>2, StreamFields
    <3> QED
      BY <2>4, <2>6, <3>1 DEF StreamBounded
  <2>8. \A i \in DOMAIN stream'[c].sent : stream'[c].sent[i] <= stream'[c].lastID
    <3>1. \A i \in DOMAIN (stream[c].sent \o items) :
              \/ i \in DOMAIN stream[c].sent /\ (stream[c].sent \o items)[i] = stream[c].sent[i]
              \/ /\ i - Len(stream[c].sent) \in DOMAIN items
                 /\ (stream[c].sent \o items)[i] = items[i - Len(stream[c].sent)]
      BY <2>3, <2>6, ConcatFacts
    <3> QED
      BY <2>2, <2>5, <2>7, <3>1
  <2>9. StreamBounded(c)'
    BY <2>2, <2>4, <2>6, <2>8 DEF StreamBounded
  <2>10. \A d \in Clients : StreamBounded(d)'
    BY <1>1, <2>2, <2>9 DEF StreamBounded
  <2> QED
    BY <1>1, <2>2, <2>10, TypeInvFrom
<1>7. ASSUME NEW c \in Clients, Live(c)
      PROVE  TypeInv'
  <2>1. PICK event : event = Head(stream[c].channel)
    OBVIOUS
  <2>2. /\ stored' = stored /\ pruned' = pruned /\ emitting' = emitting
        /\ resume' = resume /\ late' = late
        /\ stream' \in [Clients -> Streams]
        /\ \A d \in Clients \ {c} : stream'[d] = stream[d]
        /\ stream[c] \in Streams /\ stream[c].lastID \in 0..stored
        /\ stream[c].channel # <<>> /\ event \in Ids
        /\ stream'[c].channel = Tail(stream[c].channel)
        /\ \/ /\ event > stream[c].lastID
              /\ stream'[c].sent = stream[c].sent \o <<event>> /\ stream'[c].lastID = event
           \/ /\ event <= stream[c].lastID
              /\ stream'[c].sent = stream[c].sent /\ stream'[c].lastID = stream[c].lastID
    BY <1>7, <2>1, LiveFacts
  <2>3. /\ stream[c].channel \in Seq(Ids) /\ stream[c].sent \in Seq(Ids) /\ stream[c].lastID \in Nat
        /\ StreamBounded(c)
    BY <1>1, <2>2 DEF Streams
  <2>4. /\ event <= stored
        /\ \A i \in DOMAIN Tail(stream[c].channel) : Tail(stream[c].channel)[i] <= stored
    BY <2>1, <2>2, <2>3 DEF StreamBounded
  <2>5. \A i \in DOMAIN stream'[c].sent : stream'[c].sent[i] <= stream'[c].lastID
    <3>1. CASE event > stream[c].lastID
      <4>1. <<event>> \in Seq(Ids) /\ \A i \in DOMAIN <<event>> : <<event>>[i] = event
        BY <2>2
      <4>2. \A i \in DOMAIN (stream[c].sent \o <<event>>) :
              \/ i \in DOMAIN stream[c].sent /\ (stream[c].sent \o <<event>>)[i] = stream[c].sent[i]
              \/ (stream[c].sent \o <<event>>)[i] = event
        BY <2>3, <4>1, ConcatFacts
      <4>3. \A i \in DOMAIN stream[c].sent : stream[c].sent[i] <= event
        <5>1. \A i \in DOMAIN stream[c].sent : stream[c].sent[i] \in Nat
          BY <2>2, StreamFields
        <5> QED
          BY <2>2, <2>3, <3>1, <5>1 DEF StreamBounded, Ids
      <4>4. stream'[c].sent = stream[c].sent \o <<event>> /\ stream'[c].lastID = event
            /\ event <= event
        BY <2>2, <2>3, <3>1 DEF Ids
      <4> QED
        BY <4>2, <4>3, <4>4
    <3>2. CASE ~(event > stream[c].lastID)
      BY <2>2, <2>3, <3>2 DEF StreamBounded
    <3> QED
      BY <3>1, <3>2
  <2>6. StreamBounded(c)'
    BY <2>2, <2>3, <2>4, <2>5 DEF StreamBounded
  <2>7. \A d \in Clients : StreamBounded(d)'
    BY <1>1, <2>2, <2>6 DEF StreamBounded
  <2> QED
    BY <1>1, <2>2, <2>7, TypeInvFrom
<1>8. ASSUME NEW c \in Clients, Disconnect(c)
      PROVE  TypeInv'
  <2>1. PICK id \in {resume[c]} \cup {stream[c].sent[i] : i \in DOMAIN stream[c].sent} :
          resume' = [resume EXCEPT ![c] = id]
    BY <1>8 DEF Disconnect
  <2>2. /\ stored' = stored /\ pruned' = pruned /\ emitting' = emitting /\ late' = late
        /\ stream' = [stream EXCEPT ![c] = Off]
    BY <1>8 DEF Disconnect
  <2>3. /\ stream[c] \in Streams /\ StreamBounded(c)
        /\ \A i \in DOMAIN stream[c].sent : stream[c].sent[i] \in Nat
    BY <1>1, StreamFields
  <2>4. id \in 0..stored
    <3>1. stream[c].lastID \in Nat
      BY <2>3 DEF Streams
    <3> QED
      BY <1>1, <2>1, <2>3, <3>1 DEF StreamBounded
  <2>5. resume' \in [Clients -> 0..stored']
    BY <1>1, <2>1, <2>2, <2>4
  <2>6. Off \in Streams /\ Off.channel = <<>> /\ Off.sent = <<>> /\ Off.lastID = 0
    BY DEF Off, Streams
  <2>7. stream' \in [Clients -> Streams] /\ \A d \in Clients : StreamBounded(d)'
    BY <1>1, <2>2, <2>6 DEF StreamBounded
  <2> QED
    BY <1>1, <2>2, <2>5, <2>7, TypeInvFrom
<1>9. CASE UNCHANGED vars
  BY <1>9 DEF vars, TypeInv, TypeOK, Bounded
<1>10. ASSUME NEW c \in Clients, ReplayFails(c)
       PROVE  TypeInv'
  <2>1. /\ stored' = stored /\ pruned' = pruned /\ emitting' = emitting
        /\ resume' = resume /\ late' = late
        /\ stream' \in [Clients -> Streams]
        /\ \A d \in Clients \ {c} : stream'[d] = stream[d]
        /\ stream'[c].channel = stream[c].channel
        /\ stream'[c].sent = stream[c].sent /\ stream'[c].lastID = stream[c].lastID
    BY <1>10, ReplayFailsFacts
  <2>2. \A d \in Clients : StreamBounded(d)'
    BY <1>1, <2>1 DEF StreamBounded
  <2> QED
    BY <1>1, <2>1, <2>2, TypeInvFrom
<1> QED
  BY <1>2, <1>3, <1>4, <1>5, <1>6, <1>7, <1>8, <1>9, <1>10 DEF Next

\* The types of the events table, the streams and the clients.
THEOREM StreamTypes == Spec => []TypeOK
<1>1. TypeInv => TypeOK
  BY DEF TypeInv
<1> QED
  BY <1>1, InitTypes, TypeInvStep, PTL DEF Spec

-----------------------------------------------------------------------------
(* The order of what a client sees *)

\* What a step does to what one stream has sent.
LEMMA SentStep ==
  ASSUME TypeInv, [Next]_vars, NEW c \in Clients
  PROVE  \/ stream'[c].sent = stream[c].sent
         \/ stream'[c].sent = <<>>
         \/ \E t \in Seq(Ids) :
              /\ stream'[c].sent = stream[c].sent \o t
              /\ \A i \in DOMAIN t : t[i] > stream[c].lastID
              /\ \A i, j \in DOMAIN t : i < j => t[i] < t[j]
<1> DEFINE Goal == \/ stream'[c].sent = stream[c].sent
                   \/ stream'[c].sent = <<>>
                   \/ \E t \in Seq(Ids) :
                        /\ stream'[c].sent = stream[c].sent \o t
                        /\ \A i \in DOMAIN t : t[i] > stream[c].lastID
                        /\ \A i, j \in DOMAIN t : i < j => t[i] < t[j]
<1>1. /\ stored \in 0..MaxEvents /\ stored \in Nat /\ pruned \in 0..stored
      /\ stream \in [Clients -> Streams] /\ resume \in [Clients -> 0..stored]
      /\ stream[c] \in Streams
  BY TypeFacts
<1>2. CASE stream' = stream
  BY <1>2
<1>3. ASSUME NEW e \in Emitters, Publish(e)
      PROVE  Goal
  <2>1. emitting[e] \in Ids /\ stream'[c] = Offer(stream[c], emitting[e])
    BY <1>3, PublishFacts
  <2> QED
    BY <1>1, <2>1, OfferFacts
<1>4. ASSUME NEW d \in Clients, Connect(d)
      PROVE  Goal
  <2>1. stream' = [stream EXCEPT ![d] = Subscribe(d)]
    BY <1>4 DEF Connect
  <2>2. Subscribe(d).sent = <<>>
    BY <1>1, SubscribeFacts
  <2> QED
    BY <1>1, <2>1, <2>2
<1>5. ASSUME NEW d \in Clients, Replay(d)
      PROVE  Goal
  <2>1. PICK items : items = EventsAfter(stream[d].lastID)
    OBVIOUS
  <2>2. /\ \A k \in Clients \ {d} : stream'[k] = stream[k]
        /\ stream[d].lastID \in 0..stored
        /\ stream'[d].sent = stream[d].sent \o items
    BY <1>5, <2>1, ReplayFacts
  <2>3. /\ items \in Seq(Ids)
        /\ \A i \in DOMAIN items : items[i] \in stream[d].lastID + 1..stored
        /\ \A i, j \in DOMAIN items : i < j => items[i] < items[j]
    BY <1>1, <2>1, <2>2, EventsAfterFacts
  <2>4. \A i \in DOMAIN items : items[i] > stream[d].lastID
    BY <1>1, <2>2, <2>3
  <2>5. CASE c = d
    BY <2>2, <2>3, <2>4, <2>5
  <2>6. CASE c # d
    BY <2>2, <2>6
  <2> QED
    BY <2>5, <2>6
<1>6. ASSUME NEW d \in Clients, Live(d)
      PROVE  Goal
  <2>1. PICK event : event = Head(stream[d].channel)
    OBVIOUS
  <2>2. /\ \A k \in Clients \ {d} : stream'[k] = stream[k]
        /\ event \in Ids
        /\ \/ event > stream[d].lastID /\ stream'[d].sent = stream[d].sent \o <<event>>
           \/ stream'[d].sent = stream[d].sent
    BY <1>6, <2>1, LiveFacts
  <2>3. /\ <<event>> \in Seq(Ids) /\ \A i \in DOMAIN <<event>> : <<event>>[i] = event
        /\ \A i, j \in DOMAIN <<event>> : ~(i < j)
    BY <2>2
  <2>4. CASE c = d /\ event > stream[d].lastID /\ stream'[d].sent = stream[d].sent \o <<event>>
    <3>1. PICK t \in Seq(Ids) : t = <<event>>
      BY <2>3
    <3> QED
      BY <2>3, <2>4, <3>1
  <2>5. CASE c = d /\ stream'[d].sent = stream[d].sent
    BY <2>5
  <2>6. CASE c # d
    BY <2>2, <2>6
  <2> QED
    BY <2>2, <2>4, <2>5, <2>6
<1>7. ASSUME NEW d \in Clients, Disconnect(d)
      PROVE  Goal
  <2>1. stream' = [stream EXCEPT ![d] = Off]
    BY <1>7 DEF Disconnect
  <2>2. Off.sent = <<>>
    BY DEF Off
  <2> QED
    BY <1>1, <2>1, <2>2
<1>8. ASSUME NEW d \in Clients, ReplayFails(d)
      PROVE  Goal
  BY <1>8, ReplayFailsFacts
<1> QED
  BY <1>2, <1>3, <1>4, <1>5, <1>6, <1>7, <1>8 DEF Next, AddEvent, PruneEvents, vars

\* Every step keeps what a client was sent increasing.
LEMMA IncreasingStep == TypeInv /\ Increasing /\ [Next]_vars => Increasing'
<1> SUFFICES ASSUME TypeInv, Increasing, [Next]_vars, NEW c \in Clients,
                    NEW i \in DOMAIN stream'[c].sent, NEW j \in DOMAIN stream'[c].sent, i < j
             PROVE  stream'[c].sent[i] < stream'[c].sent[j]
  BY DEF Increasing
<1>1. PICK s, last : s = stream[c].sent /\ last = stream[c].lastID
  OBVIOUS
<1>2. /\ s \in Seq(Ids) /\ last \in Nat
      /\ \A k \in DOMAIN s : s[k] \in Nat /\ s[k] <= last
      /\ \A k, l \in DOMAIN s : k < l => s[k] < s[l]
  BY <1>1, TypeFacts, StreamFields DEF StreamBounded, Increasing
<1>3. CASE stream'[c].sent = s
  BY <1>2, <1>3
<1>4. CASE stream'[c].sent = <<>>
  BY <1>4
<1>5. ASSUME NEW t \in Seq(Ids), stream'[c].sent = s \o t,
             \A k \in DOMAIN t : t[k] > last,
             \A k, l \in DOMAIN t : k < l => t[k] < t[l]
      PROVE  (s \o t)[i] < (s \o t)[j]
  <2>1. \A k \in DOMAIN t : t[k] \in Nat
    BY IdFacts
  <2>2. /\ DOMAIN (s \o t) = 1..(Len(s) + Len(t)) /\ Len(s) \in Nat /\ Len(t) \in Nat
        /\ \A k \in DOMAIN (s \o t) :
             \/ k \in DOMAIN s /\ (s \o t)[k] = s[k]
             \/ k > Len(s) /\ k - Len(s) \in DOMAIN t /\ (s \o t)[k] = t[k - Len(s)]
        /\ DOMAIN s = 1..Len(s)
    BY <1>2, ConcatFacts
  <2>3. i \in DOMAIN (s \o t) /\ j \in DOMAIN (s \o t) /\ i \in Nat /\ j \in Nat
    BY <1>5, <2>2
  <2>4. CASE i \in DOMAIN s /\ j \in DOMAIN s
    BY <1>2, <2>2, <2>3, <2>4
  <2>5. CASE i \in DOMAIN s /\ j \notin DOMAIN s
    BY <1>2, <1>5, <2>1, <2>2, <2>3, <2>5
  <2>6. CASE i \notin DOMAIN s
    <3>1. i - Len(s) \in DOMAIN t /\ (s \o t)[i] = t[i - Len(s)] /\ i > Len(s)
      BY <2>2, <2>3, <2>6
    <3>2. j - Len(s) \in DOMAIN t /\ (s \o t)[j] = t[j - Len(s)]
      BY <2>2, <2>3, <3>1
    <3>3. i - Len(s) < j - Len(s)
      BY <2>2, <2>3
    <3> QED
      BY <1>5, <3>1, <3>2, <3>3
  <2> QED
    BY <2>4, <2>5, <2>6
<1> QED
  BY <1>1, <1>3, <1>4, <1>5, SentStep

\* One connection never shows an event twice or an older one after a newer one.
THEOREM IncreasingAlways == Spec => []Increasing
<1>1. Init => TypeInv /\ Increasing
  <2>1. Init => Increasing
    BY DEF Init, Increasing, Off
  <2> QED
    BY <2>1, InitTypes
<1>2. TypeInv /\ Increasing /\ [Next]_vars => (TypeInv /\ Increasing)'
  BY TypeInvStep, IncreasingStep
<1>3. TypeInv /\ Increasing => Increasing
  OBVIOUS
<1> QED
  BY <1>1, <1>2, <1>3, PTL DEF Spec

-----------------------------------------------------------------------------
(* Why an event can be missing *)

\* Emitters publish different events.
OneEventEach ==
  \A e, f \in Emitters : emitting[e] = emitting[f] /\ emitting[e] # NoEvent => e = f

\* What explains that an event does not wait any more.
Explained(c) == Sent(c) \cup stream[c].dropped \cup late

\* The event will be published after a newer one.
Overtaken(id) == id \in Pending /\ \E newer \in Published : id < newer

\* In a channel an older event comes after a newer one only when it is late.
ChannelOrder(c) ==
  \A i, j \in DOMAIN stream[c].channel :
    i < j /\ stream[c].channel[j] < stream[c].channel[i] => stream[c].channel[j] \in late

\* The handler has left behind nothing it owes, and what is still to come from
\* before its position is overtaken.
NothingBehind(c) ==
  \A id \in 1..stored :
    id > stream[c].from /\ id > pruned /\ id <= stream[c].lastID =>
      id \in Explained(c) \/ Overtaken(id)

\* What it owes beyond its position waits, once it follows.
AheadWaits(c) ==
  stream[c].pc = "live" =>
    \A id \in Published :
      id > stream[c].from /\ id > pruned /\ id > stream[c].lastID =>
        id \in Waiting(c) \cup Explained(c)

StreamLoss(c) ==
  /\ Waiting(c) \subseteq Published
  /\ ChannelOrder(c)
  /\ NothingBehind(c)
  /\ AheadWaits(c)

LossInv == OneEventEach /\ \A c \in Clients : StreamLoss(c)

\* At the start nothing has been published.
LEMMA InitLoss == Init => LossInv
<1> SUFFICES ASSUME Init PROVE LossInv
  OBVIOUS
<1>1. OneEventEach
  BY DEF Init, OneEventEach
<1>2. stored = 0 /\ stream = [c \in Clients |-> Off]
  BY DEF Init
<1>3. ASSUME NEW c \in Clients PROVE StreamLoss(c)
  <2>1. stream[c].channel = <<>> /\ stream[c].pc = "off"
    BY <1>2 DEF Off
  <2>2. Waiting(c) = {}
    BY <2>1 DEF Waiting
  <2>3. ChannelOrder(c)
    BY <2>1 DEF ChannelOrder
  <2>4. NothingBehind(c)
    BY <1>2 DEF NothingBehind
  <2>5. AheadWaits(c)
    BY <2>1 DEF AheadWaits
  <2> QED
    BY <2>2, <2>3, <2>4, <2>5 DEF StreamLoss
<1> QED
  BY <1>1, <1>3 DEF LossInv

\* A stream that does not change is still explained.
LEMMA UntouchedStream ==
  ASSUME stored \in Nat, stored' \in Nat, pruned \in Nat, pruned' \in Nat, pruned <= pruned',
         NEW c \in Clients, stream[c] \in Streams, stream[c].lastID <= stored,
         stream'[c] = stream[c], late' = late,
         Published' = Published, Pending \subseteq Pending', StreamLoss(c)
  PROVE  StreamLoss(c)'
<1>1. Waiting(c)' = Waiting(c) /\ Explained(c)' = Explained(c)
  BY DEF Waiting, Explained, Sent
<1>2. ChannelOrder(c)'
  BY DEF StreamLoss, ChannelOrder
<1>3. stream[c].lastID \in Nat
  BY StreamFields
<1>4. NothingBehind(c)'
  <2> SUFFICES ASSUME NEW id \in 1..stored', id > stream[c].from, id > pruned',
                      id <= stream[c].lastID, id \notin Explained(c)
               PROVE  Overtaken(id)'
    BY <1>1 DEF NothingBehind
  <2>1. id \in 1..stored /\ id > pruned
    BY <1>3
  <2>2. Overtaken(id)
    BY <2>1 DEF StreamLoss, NothingBehind
  <2> QED
    BY <2>2 DEF Overtaken
<1>5. AheadWaits(c)'
  <2>1. \A id \in Published : id \in Nat
    BY DEF Published
  <2>2. \A id \in Published : id > pruned' => id > pruned
    BY <2>1
  <2> QED
    BY <1>1, <2>2 DEF StreamLoss, AheadWaits
<1> QED
  BY <1>1, <1>2, <1>4, <1>5 DEF StreamLoss

\* A step that emits nothing leaves the events where they are.
LEMMA SameEvents ==
  ASSUME stored' = stored, emitting' = emitting
  PROVE  Pending' = Pending /\ Published' = Published /\ (OneEventEach => OneEventEach')
BY DEF Pending, Published, OneEventEach

\* Storing an event publishes none.
LEMMA AddEventLoss ==
  ASSUME TypeInv, LossInv, NEW e \in Emitters, AddEvent(e)
  PROVE  LossInv'
<1>1. /\ stored \in Nat /\ pruned \in Nat
      /\ emitting \in [Emitters -> Ids \cup {NoEvent}]
      /\ \A f \in Emitters : emitting[f] \in Nat /\ emitting[f] <= stored
      /\ \A c \in Clients : StreamBounded(c) /\ stream[c] \in Streams
  BY TypeFacts
<1>2. /\ stored' = stored + 1 /\ pruned' = pruned /\ stream' = stream /\ late' = late
      /\ emitting[e] = NoEvent /\ emitting' = [emitting EXCEPT ![e] = stored + 1]
  BY DEF AddEvent
<1>3. /\ emitting'[e] = stored + 1
      /\ \A f \in Emitters \ {e} : emitting'[f] = emitting[f]
  BY <1>1, <1>2
<1>4. OneEventEach'
  BY <1>1, <1>3 DEF LossInv, OneEventEach, NoEvent
<1>5. Pending' = Pending \cup {stored + 1}
  BY <1>1, <1>2, <1>3 DEF Pending, NoEvent
<1>6. Published' = Published
  BY <1>1, <1>2, <1>5 DEF Published
<1>7. ASSUME NEW c \in Clients PROVE StreamLoss(c)'
  <2>1. stored' \in Nat /\ pruned' \in Nat /\ pruned <= pruned' /\ stream'[c] = stream[c]
    BY <1>1, <1>2
  <2>2. stream[c] \in Streams /\ stream[c].lastID <= stored /\ StreamLoss(c)
    BY <1>1 DEF StreamBounded, LossInv
  <2> QED
    BY <1>1, <1>2, <1>5, <1>6, <2>1, <2>2, UntouchedStream
<1> QED
  BY <1>4, <1>7 DEF LossInv

\* Publishing moves one event, which is late when a newer one is out already.
LEMMA PublishLoss ==
  ASSUME TypeInv, LossInv, NEW e \in Emitters, Publish(e)
  PROVE  LossInv'
<1>1. /\ stored \in Nat /\ pruned \in Nat
      /\ emitting \in [Emitters -> Ids \cup {NoEvent}]
      /\ \A c \in Clients : StreamBounded(c) /\ stream[c] \in Streams
  BY TypeFacts
<1>2. PICK event : event = emitting[e]
  OBVIOUS
<1>3. /\ event \in Ids /\ event <= stored
      /\ stored' = stored /\ pruned' = pruned
      /\ emitting' = [emitting EXCEPT ![e] = NoEvent]
      /\ \A c \in Clients : stream'[c] = Offer(stream[c], event)
      /\ late \subseteq late'
      /\ (\E newer \in Published : event < newer) => event \in late'
  BY <1>2, PublishFacts
<1>4. /\ emitting'[e] = NoEvent
      /\ \A f \in Emitters \ {e} : emitting'[f] = emitting[f]
  BY <1>1, <1>3
<1>5. event \in Nat /\ event # NoEvent
  BY <1>3, SizesAssumption DEF Ids, NoEvent
<1>6. OneEventEach' /\ \A f \in Emitters \ {e} : emitting[f] # event
  BY <1>2, <1>4, <1>5 DEF LossInv, OneEventEach
<1>7. Pending' = Pending \ {event}
  BY <1>2, <1>4, <1>6 DEF Pending
<1>8. event \in 1..stored
  BY <1>1, <1>3, <1>5 DEF NoEvent
<1>9. Published' = Published \cup {event}
  BY <1>3, <1>7, <1>8 DEF Published
<1>10. ASSUME NEW c \in Clients PROVE StreamLoss(c)'
  <2>1. PICK x, z : x = stream[c] /\ z = stream'[c]
    OBVIOUS
  <2>2. /\ x \in Streams /\ z \in Streams
        /\ z.pc = x.pc /\ z.lastID = x.lastID /\ z.sent = x.sent /\ z.from = x.from
        /\ x.dropped \subseteq z.dropped
        /\ \/ z.channel = x.channel
           \/ z.channel = Append(x.channel, event)
        /\ x.pc # "off" => \/ z.channel = Append(x.channel, event)
                           \/ event \in z.dropped
    <3>1. x \in Streams /\ z = Offer(x, event)
      BY <1>1, <1>3, <2>1
    <3> QED
      BY <1>3, <3>1, OfferFacts
  <2>3. /\ x.channel \in Seq(Ids) /\ x.lastID \in Nat
        /\ \A i \in DOMAIN x.channel : x.channel[i] \in Nat
    BY <2>2, StreamFields
  <2>4. /\ DOMAIN Append(x.channel, event) = 1..Len(x.channel) + 1
        /\ DOMAIN x.channel = 1..Len(x.channel) /\ Len(x.channel) \in Nat
        /\ \A i \in DOMAIN x.channel : Append(x.channel, event)[i] = x.channel[i]
        /\ Append(x.channel, event)[Len(x.channel) + 1] = event
        /\ \A i \in DOMAIN Append(x.channel, event) :
             i \in DOMAIN x.channel \/ i = Len(x.channel) + 1
    BY <1>3, <2>3, AppendFacts
  <2>5. Explained(c) \subseteq Explained(c)'
    BY <1>3, <2>1, <2>2 DEF Explained, Sent
  <2>6. /\ Waiting(c) \subseteq Waiting(c)'
        /\ Waiting(c)' \subseteq Waiting(c) \cup {event}
        /\ z.channel = Append(x.channel, event) => event \in Waiting(c)'
    <3>1. CASE z.channel = x.channel
      BY <2>1, <2>4, <3>1 DEF Waiting
    <3>2. CASE z.channel = Append(x.channel, event)
      BY <2>1, <2>4, <3>2 DEF Waiting
    <3> QED
      BY <2>2, <3>1, <3>2
  <2>7. StreamLoss(c)
    BY DEF LossInv
  <2>8. Waiting(c)' \subseteq Published'
    BY <1>9, <2>6, <2>7 DEF StreamLoss
  <2>9. ChannelOrder(c)'
    <3> SUFFICES ASSUME NEW i \in DOMAIN z.channel, NEW j \in DOMAIN z.channel, i < j,
                        z.channel[j] < z.channel[i]
                 PROVE  z.channel[j] \in late'
      BY <2>1 DEF ChannelOrder
    <3>1. CASE i \in DOMAIN x.channel /\ j \in DOMAIN x.channel
      <4>1. z.channel[i] = x.channel[i] /\ z.channel[j] = x.channel[j]
        BY <2>2, <2>4, <3>1
      <4>2. x.channel[j] \in late
        BY <2>1, <2>7, <3>1, <4>1 DEF StreamLoss, ChannelOrder
      <4> QED
        BY <1>3, <4>1, <4>2
    <3>2. CASE ~(i \in DOMAIN x.channel /\ j \in DOMAIN x.channel)
      <4>1. z.channel = Append(x.channel, event)
        BY <2>2, <3>2
      <4>2. i \in DOMAIN x.channel /\ j = Len(x.channel) + 1
        BY <2>4, <3>2, <4>1
      <4>3. z.channel[i] = x.channel[i] /\ z.channel[j] = event
        BY <2>4, <4>1, <4>2
      <4>4. x.channel[i] \in Published
        BY <2>1, <2>7, <4>2 DEF StreamLoss, Waiting
      <4> QED
        BY <1>3, <4>3, <4>4
    <3> QED
      BY <3>1, <3>2
  <2>10. NothingBehind(c)'
    <3> SUFFICES ASSUME NEW id \in 1..stored, id > x.from, id > pruned, id <= x.lastID,
                        id \notin Explained(c)'
                 PROVE  Overtaken(id)'
      BY <1>3, <2>1, <2>2 DEF NothingBehind
    <3>1. Overtaken(id)
      BY <2>1, <2>5, <2>7 DEF StreamLoss, NothingBehind
    <3>2. id # event
      BY <1>3, <3>1 DEF Overtaken, Explained
    <3> QED
      BY <1>7, <1>9, <3>1, <3>2 DEF Overtaken
  <2>11. AheadWaits(c)'
    <3> SUFFICES ASSUME x.pc = "live", NEW id \in Published', id > x.from, id > pruned,
                        id > x.lastID
                 PROVE  id \in Waiting(c)' \cup Explained(c)'
      BY <1>3, <2>1, <2>2 DEF AheadWaits
    <3>1. CASE id = event
      BY <2>1, <2>2, <2>6, <3>1 DEF Explained
    <3>2. CASE id # event
      <4>1. id \in Published
        BY <1>9, <3>2
      <4> QED
        BY <2>1, <2>5, <2>6, <2>7, <4>1 DEF StreamLoss, AheadWaits
    <3> QED
      BY <3>1, <3>2
  <2> QED
    BY <2>8, <2>9, <2>10, <2>11 DEF StreamLoss
<1> QED
  BY <1>6, <1>10 DEF LossInv

\* Replaying a page sends everything up to its last event, and the last page
\* everything there is.
LEMMA ReplayLoss ==
  ASSUME TypeInv, LossInv, NEW c \in Clients, Replay(c)
  PROVE  LossInv'
<1>1. /\ stored \in 0..MaxEvents /\ stored \in Nat /\ pruned \in 0..stored /\ pruned \in Nat
      /\ \A d \in Clients : StreamBounded(d) /\ stream[d] \in Streams
  BY TypeFacts
<1>2. PICK items : items = EventsAfter(stream[c].lastID)
  OBVIOUS
<1>3. PICK x, z : x = stream[c] /\ z = stream'[c]
  OBVIOUS
<1>4. /\ stored' = stored /\ pruned' = pruned /\ emitting' = emitting /\ late' = late
      /\ \A d \in Clients \ {c} : stream'[d] = stream[d]
      /\ x \in Streams /\ x.lastID \in 0..stored
      /\ z.pc = IF ReplayDone(items) THEN "live" ELSE "replay"
      /\ z.channel = x.channel /\ z.from = x.from
      /\ z.dropped = x.dropped
      /\ z.sent = x.sent \o items
      /\ z.lastID = IF items = <<>> THEN x.lastID ELSE items[Len(items)]
  BY <1>2, <1>3, ReplayFacts
<1>5. /\ items \in Seq(Ids)
      /\ \A i \in DOMAIN items : items[i] \in x.lastID + 1..stored
      /\ items # <<>> => /\ Len(items) \in DOMAIN items
                         /\ \A y \in x.lastID + 1..items[Len(items)] :
                              y > pruned => \E i \in DOMAIN items : items[i] = y
      /\ ReplayDone(items) =>
           \A y \in x.lastID + 1..stored :
             y > pruned => \E i \in DOMAIN items : items[i] = y
  <2>1. items = EventsAfter(x.lastID) /\ x.lastID \in 0..stored
    BY <1>2, <1>3, <1>4
  <2>2. stored \in 0..MaxEvents /\ pruned \in 0..stored
    BY <1>1
  <2> QED
    BY <2>1, <2>2, EventsAfterFacts, SMTT(30)
<1>6. /\ Pending' = Pending /\ Published' = Published /\ OneEventEach'
      /\ \A id \in Published : id \in 1..stored
  BY <1>4, SameEvents DEF LossInv, Published
<1>7. x.lastID \in Nat /\ z.lastID \in Nat /\ x.sent \in Seq(Ids)
  <2>1. x.lastID \in Nat /\ x.sent \in Seq(Ids)
    BY <1>4, StreamFields
  <2>2. items # <<>> => items[Len(items)] \in Nat
    BY <1>5, IdFacts
  <2> QED
    BY <1>4, <2>1, <2>2
<1>8. /\ \A i \in DOMAIN items : items[i] \in Sent(c)'
      /\ Sent(c) \subseteq Sent(c)'
  <2>1. /\ \A i \in DOMAIN x.sent : i \in DOMAIN z.sent /\ z.sent[i] = x.sent[i]
        /\ \A i \in DOMAIN items :
             i + Len(x.sent) \in DOMAIN z.sent /\ z.sent[i + Len(x.sent)] = items[i]
    <3>1. x.sent \in Seq(Ids) /\ items \in Seq(Ids) /\ z.sent = x.sent \o items
      BY <1>4, <1>5, <1>7
    <3>2. /\ \A i \in DOMAIN x.sent :
               i \in DOMAIN (x.sent \o items) /\ (x.sent \o items)[i] = x.sent[i]
          /\ \A i \in DOMAIN items :
               /\ i + Len(x.sent) \in DOMAIN (x.sent \o items)
               /\ (x.sent \o items)[i + Len(x.sent)] = items[i]
      BY <3>1, ConcatFacts
    <3> QED
      BY <3>1, <3>2
  <2> QED
    BY <1>3, <2>1 DEF Sent
<1>9. /\ Waiting(c)' = Waiting(c) /\ Explained(c) \subseteq Explained(c)'
      /\ \A i \in DOMAIN items : items[i] \in Explained(c)'
  BY <1>3, <1>4, <1>8 DEF Waiting, Explained
<1>10. StreamLoss(c)
  BY DEF LossInv
<1>11. Waiting(c)' \subseteq Published' /\ ChannelOrder(c)'
  BY <1>3, <1>4, <1>6, <1>9, <1>10 DEF StreamLoss, ChannelOrder
<1>12. NothingBehind(c)'
  <2> SUFFICES ASSUME NEW id \in 1..stored, id > x.from, id > pruned, id <= z.lastID,
                      id \notin Explained(c)'
               PROVE  Overtaken(id)'
    BY <1>3, <1>4 DEF NothingBehind
  <2>1. id <= x.lastID
    <3> SUFFICES ASSUME id > x.lastID PROVE FALSE
      BY <1>7
    <3>1. items # <<>> /\ z.lastID = items[Len(items)]
      BY <1>4, <1>7
    <3>2. id \in x.lastID + 1..items[Len(items)]
      BY <1>7, <3>1
    <3> QED
      BY <1>5, <1>9, <3>1, <3>2
  <2>2. Overtaken(id)
    BY <1>3, <1>9, <1>10, <2>1 DEF StreamLoss, NothingBehind
  <2> QED
    BY <1>6, <2>2 DEF Overtaken
<1>13. AheadWaits(c)'
  <2> SUFFICES ASSUME z.pc = "live", NEW id \in Published, id > x.from, id > pruned,
                      id > z.lastID
               PROVE  id \in Explained(c)'
    BY <1>3, <1>4, <1>6 DEF AheadWaits
  <2>1. ReplayDone(items) /\ id \in 1..stored
    BY <1>4, <1>6
  <2>2. x.lastID <= z.lastID
    BY <1>1, <1>4, <1>5, <1>7
  <2>3. id \in x.lastID + 1..stored
    BY <1>1, <1>7, <2>1, <2>2
  <2> QED
    BY <1>5, <1>9, <2>1, <2>3
<1>14. ASSUME NEW d \in Clients, d # c PROVE StreamLoss(d)'
  <2>1. /\ stored' \in Nat /\ pruned' \in Nat /\ pruned <= pruned' /\ stream'[d] = stream[d]
        /\ stream[d] \in Streams /\ stream[d].lastID <= stored /\ StreamLoss(d)
    BY <1>1, <1>4, <1>14 DEF StreamBounded, LossInv
  <2> QED
    BY <1>1, <1>4, <1>6, <2>1, UntouchedStream
<1> QED
  BY <1>6, <1>11, <1>12, <1>13, <1>14 DEF StreamLoss, LossInv

\* A failed query leaves nothing that is not accounted for.
LEMMA ReplayFailsLoss ==
  ASSUME TypeInv, LossInv, NEW c \in Clients, ReplayFails(c)
  PROVE  LossInv'
<1>1. /\ stored \in Nat /\ pruned \in Nat
      /\ \A d \in Clients : StreamBounded(d) /\ stream[d] \in Streams
  BY TypeFacts
<1>2. /\ stored' = stored /\ pruned' = pruned /\ emitting' = emitting /\ late' = late
      /\ \A d \in Clients \ {c} : stream'[d] = stream[d]
      /\ stream'[c].channel = stream[c].channel /\ stream'[c].from = stream[c].from
      /\ stream'[c].sent = stream[c].sent /\ stream'[c].lastID = stream[c].lastID
      /\ stream'[c].dropped = stream[c].dropped \cup Unreplayed(c)
  BY ReplayFailsFacts
<1>3. Pending' = Pending /\ Published' = Published /\ OneEventEach'
  BY <1>2, SameEvents DEF LossInv
<1>4. Waiting(c)' = Waiting(c) /\ Explained(c)' = Explained(c) \cup Unreplayed(c)
  BY <1>2 DEF Waiting, Explained, Sent
<1>5. StreamLoss(c)
  BY DEF LossInv
<1>6. ChannelOrder(c)'
  BY <1>2, <1>5 DEF StreamLoss, ChannelOrder
<1>7. NothingBehind(c)'
  BY <1>2, <1>3, <1>4, <1>5 DEF StreamLoss, NothingBehind, Overtaken
<1>8. AheadWaits(c)'
  BY <1>2, <1>3, <1>4 DEF AheadWaits, Unreplayed
<1>9. ASSUME NEW d \in Clients, d # c PROVE StreamLoss(d)'
  <2>1. /\ stored' \in Nat /\ pruned' \in Nat /\ pruned <= pruned' /\ stream'[d] = stream[d]
        /\ stream[d] \in Streams /\ stream[d].lastID <= stored /\ StreamLoss(d)
    BY <1>1, <1>2, <1>9 DEF StreamBounded, LossInv
  <2> QED
    BY <1>1, <1>2, <1>3, <2>1, UntouchedStream
<1> QED
  BY <1>3, <1>4, <1>5, <1>6, <1>7, <1>8, <1>9 DEF StreamLoss, LossInv

\* Following the channel skips only what is behind, and leaves nothing behind.
LEMMA LiveLoss ==
  ASSUME TypeInv, LossInv, NEW c \in Clients, Live(c)
  PROVE  LossInv'
<1>1. /\ stored \in Nat /\ pruned \in Nat
      /\ \A d \in Clients : StreamBounded(d) /\ stream[d] \in Streams
  BY TypeFacts
<1>2. PICK event : event = Head(stream[c].channel)
  OBVIOUS
<1>3. PICK x, z : x = stream[c] /\ z = stream'[c]
  OBVIOUS
<1>4. /\ stored' = stored /\ pruned' = pruned /\ emitting' = emitting /\ late' = late
      /\ \A d \in Clients \ {c} : stream'[d] = stream[d]
      /\ x.pc = "live" /\ x \in Streams /\ x.channel # <<>> /\ event \in Ids
      /\ z.pc = "live" /\ z.channel = Tail(x.channel) /\ z.from = x.from
      /\ z.dropped = x.dropped
      /\ \/ /\ event > x.lastID
            /\ z.sent = x.sent \o <<event>> /\ z.lastID = event
         \/ /\ event <= x.lastID
            /\ z.sent = x.sent /\ z.lastID = x.lastID
  BY <1>2, <1>3, LiveFacts
<1>5. /\ x.channel \in Seq(Ids) /\ x.sent \in Seq(Ids) /\ x.lastID \in Nat
      /\ event \in Nat /\ z.lastID \in Nat
      /\ event = x.channel[1] /\ 1 \in DOMAIN x.channel
  <2>1. x.channel \in Seq(Ids) /\ x.sent \in Seq(Ids) /\ x.lastID \in Nat
    BY <1>4, StreamFields
  <2>2. event = x.channel[1] /\ 1 \in DOMAIN x.channel
    BY <1>2, <1>3, <1>4, <2>1
  <2>3. event \in Nat
    BY <2>1, <2>2, IdFacts
  <2> QED
    BY <1>4, <2>1, <2>2, <2>3
<1>6. /\ \A i \in DOMAIN z.channel :
           i + 1 \in DOMAIN x.channel /\ z.channel[i] = x.channel[i + 1] /\ i \in Nat
      /\ \A i \in DOMAIN x.channel :
           i # 1 => i - 1 \in DOMAIN z.channel /\ z.channel[i - 1] = x.channel[i] /\ 1 < i
  BY <1>4, <1>5
<1>7. /\ Pending' = Pending /\ Published' = Published /\ OneEventEach'
      /\ \A id \in Published : id \in 1..stored
      /\ \A id \in 1..stored : id \in Published \/ id \in Pending
  BY <1>4, SameEvents DEF LossInv, Published
<1>8. /\ Sent(c) \subseteq Sent(c)'
      /\ event > x.lastID => event \in Sent(c)'
  <2>1. CASE event > x.lastID
    <3>1. /\ <<event>> \in Seq(Ids) /\ 1 \in DOMAIN <<event>> /\ <<event>>[1] = event
          /\ z.sent = x.sent \o <<event>>
      BY <1>4, <1>5, <2>1
    <3>2. /\ \A i \in DOMAIN x.sent : i \in DOMAIN z.sent /\ z.sent[i] = x.sent[i]
          /\ 1 + Len(x.sent) \in DOMAIN z.sent /\ z.sent[1 + Len(x.sent)] = event
      BY <1>5, <3>1, ConcatFacts
    <3> QED
      BY <1>3, <3>2 DEF Sent
  <2>2. CASE ~(event > x.lastID)
    BY <1>3, <1>4, <1>5, <2>2 DEF Sent
  <2> QED
    BY <2>1, <2>2
<1>9. /\ Explained(c) \subseteq Explained(c)'
      /\ event > x.lastID => event \in Explained(c)'
  BY <1>3, <1>4, <1>8 DEF Explained
<1>10. /\ Waiting(c) \subseteq Waiting(c)' \cup {event}
       /\ Waiting(c)' \subseteq Waiting(c)
       /\ event \in Waiting(c)
  BY <1>3, <1>5, <1>6 DEF Waiting
<1>11. StreamLoss(c)
  BY DEF LossInv
<1>12. event \in Published
  BY <1>10, <1>11 DEF StreamLoss
<1>13. Waiting(c)' \subseteq Published'
  BY <1>7, <1>10, <1>11 DEF StreamLoss
<1>14. ChannelOrder(c)'
  <2> SUFFICES ASSUME NEW i \in DOMAIN z.channel, NEW j \in DOMAIN z.channel, i < j,
                      z.channel[j] < z.channel[i]
               PROVE  z.channel[j] \in late
    BY <1>3, <1>4 DEF ChannelOrder
  <2>1. /\ i + 1 \in DOMAIN x.channel /\ z.channel[i] = x.channel[i + 1]
        /\ j + 1 \in DOMAIN x.channel /\ z.channel[j] = x.channel[j + 1]
        /\ i + 1 < j + 1
    BY <1>6
  <2> QED
    BY <1>3, <1>11, <2>1 DEF StreamLoss, ChannelOrder
<1>15. NothingBehind(c)'
  <2> SUFFICES ASSUME NEW id \in 1..stored, id > x.from, id > pruned, id <= z.lastID,
                      id \notin Explained(c)'
               PROVE  Overtaken(id)
    BY <1>3, <1>4, <1>7 DEF NothingBehind, Overtaken
  <2>1. CASE id <= x.lastID
    BY <1>3, <1>9, <1>11, <2>1 DEF StreamLoss, NothingBehind
  <2>2. CASE id > x.lastID
    <3>1. event > x.lastID /\ id < event
      <4>1. z.lastID = event /\ event > x.lastID
        BY <1>4, <1>5, <2>2
      <4>2. id # event
        BY <1>9, <4>1
      <4> QED
        BY <1>5, <4>1, <4>2
    <3>2. CASE id \in Pending
      BY <1>12, <3>1, <3>2 DEF Overtaken
    <3>3. CASE id \in Published
      <4>1. id \in Waiting(c)
        BY <1>3, <1>4, <1>9, <1>11, <2>2, <3>3 DEF StreamLoss, AheadWaits
      <4>2. PICK j \in DOMAIN x.channel : x.channel[j] = id
        BY <1>3, <4>1 DEF Waiting
      <4>3. j # 1
        BY <1>5, <3>1, <4>2
      <4>4. 1 < j
        BY <1>6, <4>3
      <4>5. id \in late
        BY <1>3, <1>5, <1>11, <3>1, <4>2, <4>4 DEF StreamLoss, ChannelOrder
      <4> QED
        BY <1>9, <4>5 DEF Explained
    <3> QED
      BY <1>7, <3>2, <3>3
  <2> QED
    BY <1>5, <2>1, <2>2
<1>16. AheadWaits(c)'
  <2> SUFFICES ASSUME NEW id \in Published, id > x.from, id > pruned, id > z.lastID
               PROVE  id \in Waiting(c)' \cup Explained(c)'
    BY <1>3, <1>4, <1>7 DEF AheadWaits
  <2>1. id \in 1..stored /\ id > x.lastID
    BY <1>4, <1>5, <1>7
  <2>2. id \in Waiting(c) \cup Explained(c)
    BY <1>3, <1>4, <1>11, <2>1 DEF StreamLoss, AheadWaits
  <2>3. id # event
    BY <1>4, <1>5, <2>1
  <2> QED
    BY <1>9, <1>10, <2>2, <2>3
<1>17. ASSUME NEW d \in Clients, d # c PROVE StreamLoss(d)'
  <2>1. /\ stored' \in Nat /\ pruned' \in Nat /\ pruned <= pruned' /\ stream'[d] = stream[d]
        /\ stream[d] \in Streams /\ stream[d].lastID <= stored /\ StreamLoss(d)
    BY <1>1, <1>4, <1>17 DEF StreamBounded, LossInv
  <2> QED
    BY <1>1, <1>4, <1>7, <2>1, UntouchedStream
<1> QED
  BY <1>7, <1>13, <1>14, <1>15, <1>16, <1>17 DEF StreamLoss, LossInv

\* A connection begins with nothing owed, and ends with none.
LEMMA FreshStream ==
  ASSUME stored \in Nat, stored' = stored, NEW c \in Clients, NEW z \in Streams, stream'[c] = z,
         z.channel = <<>>, z.lastID <= z.from, z.pc = "live" => z.from = stored
  PROVE  StreamLoss(c)'
<1>1. z.lastID \in Nat /\ z.from \in Nat
  BY StreamFields
<1>2. Waiting(c)' = {}
  BY DEF Waiting
<1>3. ChannelOrder(c)'
  BY DEF ChannelOrder
<1>4. NothingBehind(c)'
  BY <1>1 DEF NothingBehind
<1>5. AheadWaits(c)'
  <2>1. \A id \in Published' : id \in 1..stored
    BY DEF Published
  <2> QED
    BY <2>1 DEF AheadWaits
<1> QED
  BY <1>2, <1>3, <1>4, <1>5 DEF StreamLoss

\* Every step keeps the losses explained.
LEMMA LossInvStep == TypeInv /\ LossInv /\ [Next]_vars => LossInv'
<1> SUFFICES ASSUME TypeInv, LossInv, [Next]_vars PROVE LossInv'
  OBVIOUS
<1>1. /\ stored \in Nat /\ pruned \in 0..stored /\ pruned \in Nat
      /\ stream \in [Clients -> Streams] /\ resume \in [Clients -> 0..stored]
      /\ \A c \in Clients : StreamBounded(c) /\ stream[c] \in Streams
  BY TypeFacts
<1>2. ASSUME NEW c \in Clients, NEW z \in Streams, stream' = [stream EXCEPT ![c] = z],
             z.channel = <<>>, z.lastID <= z.from, z.pc = "live" => z.from = stored,
             stored' = stored, pruned' = pruned, emitting' = emitting, late' = late
      PROVE  LossInv'
  <2>1. stream'[c] = z /\ \A d \in Clients \ {c} : stream'[d] = stream[d]
    BY <1>1, <1>2
  <2>2. Pending' = Pending /\ Published' = Published /\ OneEventEach'
    BY <1>2, SameEvents DEF LossInv
  <2>3. StreamLoss(c)'
    BY <1>1, <1>2, <2>1, FreshStream
  <2>4. ASSUME NEW d \in Clients, d # c PROVE StreamLoss(d)'
    <3>1. /\ stored' \in Nat /\ pruned' \in Nat /\ pruned <= pruned' /\ stream'[d] = stream[d]
          /\ stream[d] \in Streams /\ stream[d].lastID <= stored /\ StreamLoss(d)
      BY <1>1, <1>2, <2>1, <2>4 DEF StreamBounded, LossInv
    <3> QED
      BY <1>1, <1>2, <2>2, <3>1, UntouchedStream
  <2> QED
    BY <2>2, <2>3, <2>4 DEF LossInv
<1>3. ASSUME NEW c \in Clients, Connect(c)
      PROVE  LossInv'
  <2>1. /\ stored' = stored /\ pruned' = pruned /\ emitting' = emitting /\ late' = late
        /\ stream' = [stream EXCEPT ![c] = Subscribe(c)]
    BY <1>3 DEF Connect
  <2>2. /\ Subscribe(c) \in Streams /\ Subscribe(c).channel = <<>>
        /\ Subscribe(c).lastID <= Subscribe(c).from
        /\ Subscribe(c).pc = "live" => Subscribe(c).from = stored
    BY <1>1, SubscribeFacts
  <2> QED
    BY <1>2, <2>1, <2>2
<1>4. ASSUME NEW c \in Clients, Disconnect(c)
      PROVE  LossInv'
  <2>1. /\ stored' = stored /\ pruned' = pruned /\ emitting' = emitting /\ late' = late
        /\ stream' = [stream EXCEPT ![c] = Off]
    BY <1>4 DEF Disconnect
  <2>2. Off \in Streams /\ Off.channel = <<>> /\ Off.lastID <= Off.from /\ Off.pc # "live"
    BY DEF Off, Streams
  <2> QED
    BY <1>2, <2>1, <2>2
<1>5. ASSUME stored' = stored, pruned' \in Nat, pruned <= pruned', emitting' = emitting,
             late' = late, stream' = stream
      PROVE  LossInv'
  <2>1. Pending' = Pending /\ Published' = Published /\ OneEventEach'
    BY <1>5, SameEvents DEF LossInv
  <2>2. ASSUME NEW d \in Clients PROVE StreamLoss(d)'
    <3>1. /\ stored' \in Nat /\ stream'[d] = stream[d]
          /\ stream[d] \in Streams /\ stream[d].lastID <= stored /\ StreamLoss(d)
      BY <1>1, <1>5 DEF StreamBounded, LossInv
    <3> QED
      BY <1>1, <1>5, <2>1, <3>1, UntouchedStream
  <2> QED
    BY <2>1, <2>2 DEF LossInv
<1>6. CASE PruneEvents
  <2>1. /\ pruned' \in Nat /\ pruned <= pruned' /\ stored' = stored /\ emitting' = emitting
        /\ stream' = stream /\ late' = late
    BY <1>1, <1>6, SizesAssumption DEF PruneEvents
  <2> QED
    BY <1>5, <2>1
<1>7. CASE UNCHANGED vars
  BY <1>1, <1>5, <1>7 DEF vars
<1> QED
  BY <1>3, <1>4, <1>6, <1>7, AddEventLoss, PublishLoss, ReplayLoss, ReplayFailsLoss, LiveLoss DEF Next

\* A client that follows the log misses an event only because its channel was full,
\* the query of its replay failed or a newer event was published before it.
THEOREM LossExplainedAlways == Spec => []LossExplained
<1>1. TypeInv /\ LossInv => LossExplained
  <2> SUFFICES ASSUME TypeInv, LossInv, NEW c \in Clients, stream[c].pc = "live",
                      NEW id \in Owed(c)
               PROVE  id \in Sent(c) \cup Waiting(c) \cup stream[c].dropped \cup late
    BY DEF LossExplained
  <2>1. /\ id \in Published /\ id > stream[c].from /\ id > pruned
        /\ id \in 1..stored /\ id \notin Pending
    BY DEF Owed, Published
  <2>2. StreamLoss(c) /\ stored \in Nat /\ stream[c].lastID \in Nat
    BY TypeFacts, StreamFields DEF LossInv
  <2>3. CASE id <= stream[c].lastID
    BY <2>1, <2>2, <2>3 DEF StreamLoss, NothingBehind, Overtaken, Explained
  <2>4. CASE id > stream[c].lastID
    BY <2>1, <2>2, <2>4 DEF StreamLoss, AheadWaits, Explained
  <2> QED
    BY <2>1, <2>2, <2>3, <2>4
<1>2. Init => TypeInv /\ LossInv
  BY InitTypes, InitLoss
<1>3. TypeInv /\ LossInv /\ [Next]_vars => (TypeInv /\ LossInv)'
  BY TypeInvStep, LossInvStep
<1> QED
  BY <1>1, <1>2, <1>3, PTL DEF Spec
=============================================================================
