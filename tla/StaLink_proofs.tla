--------------------------- MODULE StaLink_proofs ----------------------------
(***************************************************************************)
(* Proofs about module StaLink, for any time limit, any pause and any      *)
(* number of events that wait.                                             *)
(***************************************************************************)
EXTENDS StaLink, FiniteSetTheorems, TLAPS

EventName == Losses \cup {"connected", "gotip"}
Drv == {"idle", "connecting", "assoc", "ip"}
Link == [drv : Drv, events : Seq(EventName), timer : BOOLEAN, stalled : Ends]
OnConnected == {"run", "asking", "judge"}

Pending(q, S) == \E k \in DOMAIN q : q[k] \in S

(* What the driver queued last fits the state it is in. *)
LastOf(drv) ==
    IF drv = "ip" THEN {"gotip"}
    ELSE IF drv = "assoc" THEN {"connected", "lostip"} ELSE Losses

LastFits(l) == l.events # <<>> => l.events[Len(l.events)] \in LastOf(l.drv)

(* An address that is gone was reported gone after it was reported got. *)
LossBehind(q) ==
    \A k \in DOMAIN q : q[k] = "gotip" => \E j \in DOMAIN q : j > k /\ q[j] \in Losses

GotipOver(l) == l.drv # "ip" => LossBehind(l.events)

(* The events that may still come of those that wait: one that makes the
   library connect stands for two, and a link that is up for the one that
   says it is lost. *)
Reconnecting == {"lost", "expire"}
Doubled(q) == {k \in DOMAIN q : q[k] \in Reconnecting}
Size(q) == Len(q) + Cardinality(Doubled(q))
Weight(l) == Size(l.events) + (IF l.drv = "idle" THEN 0 ELSE 1)

FewEvents ==
    /\ Weight(link) <= 2 * MaxEvents + 2
    /\ conAPcntr <= PauseOver => Weight(link) <= 2 * MaxEvents + 1

Counts == conAPcntr >= 0 \/ conAPcntr <= PauseFrom

(* When no event waits, somebody drives the link, wherever loop() is. *)
Driven ==
    link.events = <<>> =>
        /\ link.drv = "ip" => wlc
        /\ link.stalled = "no" =>
            /\ link.drv \in {"idle", "assoc"} => Counts \/ pc = "pausing"
            /\ link.drv = "ip" => STA_action = 1 \/ connected \/ pc \in OnConnected

(* What is done on account of an address is done while it is there, or the
   event that it is lost is still to come, or came during on_connected. *)
Grounded ==
    STA_action = 1 \/ (~raced /\ (connected \/ pc \in OnConnected))
        => link.drv = "ip" \/ Pending(link.events, Losses)

Types ==
    /\ TypeOK
    /\ link \in Link
    /\ ap \in BOOLEAN /\ wlc \in BOOLEAN /\ connected \in BOOLEAN
    /\ version \in BOOLEAN /\ remote \in BOOLEAN /\ raced \in BOOLEAN

(* The inductive invariant. *)
IInv ==
    /\ Types
    /\ LastFits(link)
    /\ GotipOver(link)
    /\ FewEvents
    /\ Driven
    /\ Grounded

-----------------------------------------------------------------------------
(* Queues of events. *)

(* The events that count twice are some of all. *)
LEMMA SizeType ==
    ASSUME NEW q \in Seq(EventName)
    PROVE  /\ IsFiniteSet(Doubled(q)) /\ Cardinality(Doubled(q)) \in Nat
           /\ Size(q) \in Nat /\ Len(q) \in Nat
           /\ Len(q) <= Size(q) /\ Size(q) <= 2 * Len(q)
<1>1. Len(q) \in Nat /\ DOMAIN q = 1 .. Len(q)
  OBVIOUS
<1>2. IsFiniteSet(1 .. Len(q)) /\ Cardinality(1 .. Len(q)) = Len(q)
  BY <1>1, FS_Interval
<1>3. Doubled(q) \in SUBSET (1 .. Len(q))
  BY <1>1 DEF Doubled
<1>4. IsFiniteSet(Doubled(q)) /\ Cardinality(Doubled(q)) <= Len(q)
  BY <1>2, <1>3, FS_Subset
<1>5. Cardinality(Doubled(q)) \in Nat
  BY <1>4, FS_CardinalityType
<1>6. QED
  BY <1>1, <1>4, <1>5 DEF Size

(* An event is queued behind all others. *)
LEMMA Queued ==
    ASSUME NEW q \in Seq(EventName), NEW e \in EventName
    PROVE  LET a == Append(q, e)
           IN  /\ a \in Seq(EventName) /\ a # <<>> /\ Len(a) = Len(q) + 1 /\ a[Len(a)] = e
               /\ \A S : Pending(a, S) <=> Pending(q, S) \/ e \in S
               /\ e \in Losses => LossBehind(a)
               /\ e # "gotip" /\ LossBehind(q) => LossBehind(a)
               /\ Size(a) = Size(q) + (IF e \in Reconnecting THEN 2 ELSE 1)
<1> DEFINE a == Append(q, e)
<1>1. /\ a \in Seq(EventName) /\ DOMAIN a = 1 .. Len(q) + 1 /\ DOMAIN q = 1 .. Len(q)
      /\ Len(q) \in Nat /\ Len(a) = Len(q) + 1 /\ a # <<>>
      /\ \A k \in 1 .. Len(q) : a[k] = q[k]
      /\ a[Len(q) + 1] = e
  OBVIOUS
<1> HIDE DEF a
<1>2. /\ \A k \in DOMAIN a : (k \in DOMAIN q /\ a[k] = q[k]) \/ (k = Len(q) + 1 /\ a[k] = e)
      /\ \A k \in DOMAIN q : k \in DOMAIN a /\ a[k] = q[k] /\ Len(q) + 1 > k
      /\ Len(q) + 1 \in DOMAIN a /\ Len(q) + 1 \notin DOMAIN q
  BY <1>1
<1>3. \A S : Pending(a, S) <=> Pending(q, S) \/ e \in S
  BY <1>1, <1>2 DEF Pending
<1>4. e \in Losses => LossBehind(a)
  <2>1. e \in Losses => e # "gotip"
    BY DEF Losses
  <2>2. QED
    BY <1>1, <1>2, <2>1 DEF LossBehind
<1>5. e # "gotip" /\ LossBehind(q) => LossBehind(a)
  BY <1>1, <1>2 DEF LossBehind
<1>6. Size(a) = Size(q) + (IF e \in Reconnecting THEN 2 ELSE 1)
  <2>1. Doubled(a) = IF e \in Reconnecting THEN Doubled(q) \cup {Len(q) + 1} ELSE Doubled(q)
    BY <1>1, <1>2 DEF Doubled
  <2>2. Len(q) + 1 \notin Doubled(q)
    BY <1>2 DEF Doubled
  <2>3. Cardinality(Doubled(q) \cup {Len(q) + 1}) = Cardinality(Doubled(q)) + 1
    BY <2>2, SizeType, FS_AddElement
  <2>4. QED
    BY <1>1, <2>1, <2>3, SizeType DEF Size
<1>7. QED
  BY <1>1, <1>3, <1>4, <1>5, <1>6 DEF a

(* The first event is taken. *)
LEMMA Popped ==
    ASSUME NEW q \in Seq(EventName), q # <<>>
    PROVE  LET t == Tail(q)
           IN  /\ Head(q) \in EventName /\ t \in Seq(EventName) /\ Len(t) = Len(q) - 1
               /\ IF t = <<>> THEN Head(q) = q[Len(q)] ELSE t[Len(t)] = q[Len(q)]
               /\ \A S : Pending(q, S) <=> Pending(t, S) \/ Head(q) \in S
               /\ LossBehind(q) => /\ LossBehind(t)
                                   /\ Head(q) = "gotip" => Pending(t, Losses)
               /\ Size(t) = Size(q) - (IF Head(q) \in Reconnecting THEN 2 ELSE 1)
<1> DEFINE t == Tail(q)
<1>1. /\ Len(q) \in Nat /\ Len(q) > 0
      /\ t \in Seq(EventName) /\ DOMAIN t = 1 .. Len(q) - 1 /\ DOMAIN q = 1 .. Len(q)
      /\ Len(t) = Len(q) - 1
      /\ \A k \in 1 .. Len(q) - 1 : t[k] = q[k + 1]
      /\ Head(q) = q[1] /\ q[1] \in EventName
  OBVIOUS
<1> HIDE DEF t
<1>0. t = <<>> <=> Len(q) = 1
  <2>1. t = <<>> <=> Len(t) = 0
    BY <1>1
  <2>2. QED
    BY <1>1, <2>1
<1>2. /\ \A k \in DOMAIN q : k = 1 \/ (k - 1 \in DOMAIN t /\ t[k - 1] = q[k])
      /\ \A k \in DOMAIN t : k + 1 \in DOMAIN q /\ t[k] = q[k + 1]
      /\ 1 \in DOMAIN q
  BY <1>1
<1>3. IF t = <<>> THEN Head(q) = q[Len(q)] ELSE t[Len(t)] = q[Len(q)]
  BY <1>0, <1>1
<1>4. \A S : Pending(q, S) <=> Pending(t, S) \/ Head(q) \in S
  BY <1>1, <1>2 DEF Pending
<1>5. ASSUME LossBehind(q)
      PROVE  LossBehind(t) /\ (Head(q) = "gotip" => Pending(t, Losses))
  <2>1. ASSUME NEW k \in DOMAIN t, t[k] = "gotip"
        PROVE  \E j \in DOMAIN t : j > k /\ t[j] \in Losses
    <3>1. k + 1 \in DOMAIN q /\ q[k + 1] = "gotip"
      BY <1>2, <2>1
    <3>2. PICK j \in DOMAIN q : j > k + 1 /\ q[j] \in Losses
      BY <1>5, <3>1 DEF LossBehind
    <3>3. j - 1 \in DOMAIN t /\ t[j - 1] = q[j] /\ j - 1 > k
      BY <1>1, <1>2, <3>2
    <3>4. QED
      BY <3>2, <3>3
  <2>2. ASSUME Head(q) = "gotip"
        PROVE  Pending(t, Losses)
    <3>1. PICK j \in DOMAIN q : j > 1 /\ q[j] \in Losses
      BY <1>1, <1>2, <1>5, <2>2 DEF LossBehind
    <3>2. j - 1 \in DOMAIN t /\ t[j - 1] = q[j]
      BY <1>2, <3>1
    <3>3. QED
      BY <3>1, <3>2 DEF Pending
  <2>3. QED
    BY <2>1, <2>2 DEF LossBehind
<1>6. Size(t) = Size(q) - (IF Head(q) \in Reconnecting THEN 2 ELSE 1)
  <2> DEFINE f == [k \in Doubled(t) |-> k + 1]
  <2>1. f \in Bijection(Doubled(t), Doubled(q) \ {1})
    <3>1. f \in [Doubled(t) -> Doubled(q) \ {1}]
      BY <1>1, <1>2 DEF Doubled
    <3>2. \A j, k \in Doubled(t) : f[j] = f[k] => j = k
      BY <1>1 DEF Doubled
    <3>3. ASSUME NEW k \in Doubled(q) \ {1}
          PROVE  \E j \in Doubled(t) : f[j] = k
      <4>1. k - 1 \in Doubled(t) /\ k - 1 + 1 = k
        BY <1>1, <1>2 DEF Doubled
      <4>2. QED
        BY <4>1
    <3>4. QED
      BY <3>1, <3>2, <3>3 DEF Bijection, Injection, IsInjective, Surjection
  <2>2. Cardinality(Doubled(q) \ {1}) = Cardinality(Doubled(t))
    BY <1>1, <2>1, SizeType, FS_Bijection DEF ExistsBijection
  <2>3. 1 \in Doubled(q) <=> Head(q) \in Reconnecting
    BY <1>1, <1>2 DEF Doubled
  <2>4. CASE Head(q) \in Reconnecting
    <3>1. Cardinality(Doubled(q) \ {1}) = Cardinality(Doubled(q)) - 1
      BY <2>3, <2>4, SizeType, FS_RemoveElement
    <3>2. QED
      BY <1>1, <2>2, <2>4, <3>1, SizeType DEF Size
  <2>5. CASE Head(q) \notin Reconnecting
    <3>1. Doubled(q) \ {1} = Doubled(q)
      BY <2>3, <2>5
    <3>2. Cardinality(Doubled(t)) = Cardinality(Doubled(q))
      BY <2>2, <3>1
    <3>3. QED
      BY <1>1, <2>5, <3>2, SizeType DEF Size
  <2>6. QED
    BY <2>4, <2>5
<1>7. QED
  BY <1>1, <1>3, <1>4, <1>5, <1>6 DEF t

-----------------------------------------------------------------------------
(* What the driver's operations do to a link. *)

Fit(l) == l \in Link /\ LastFits(l) /\ GotipOver(l)

(* The fields of a link. *)
LEMMA LinkType ==
    ASSUME NEW l \in Link
    PROVE  /\ l.drv \in Drv /\ l.events \in Seq(EventName) /\ l.timer \in BOOLEAN /\ l.stalled \in Ends
           /\ Weight(l) \in Nat /\ Size(l.events) \in Nat /\ Len(l.events) \in Nat
           /\ Len(l.events) <= Weight(l) /\ Weight(l) <= 2 * Len(l.events) + 1
<1>1. l.drv \in Drv /\ l.events \in Seq(EventName) /\ l.timer \in BOOLEAN /\ l.stalled \in Ends
  BY DEF Link
<1>2. QED
  BY <1>1, SizeType DEF Weight

(* A link that is lost: the driver says so last. *)
LEMMA GoneFits ==
    ASSUME NEW l \in Link, NEW reason \in Losses
    PROVE  LET g == Gone(l, reason)
           IN  /\ Fit(g)
               /\ g.drv = "idle" /\ g.stalled = l.stalled /\ g.events = Append(l.events, reason)
               /\ g.events # <<>> /\ Len(g.events) = Len(l.events) + 1
               /\ Pending(g.events, Losses)
<1> DEFINE g == Gone(l, reason)
           a == Append(l.events, reason)
<1>1. /\ l.events \in Seq(EventName) /\ reason \in EventName
  BY LinkType DEF EventName
<1>2. g.drv = "idle" /\ g.stalled = l.stalled /\ g.events = a /\ g.timer = (l.timer \/ l.drv = "ip")
  BY DEF Gone, Link
<1>3. /\ a \in Seq(EventName) /\ a # <<>> /\ a[Len(a)] = reason /\ Len(a) = Len(l.events) + 1
      /\ LossBehind(a) /\ Pending(a, Losses)
  BY <1>1, Queued
<1>4. g \in Link
  <2>1. \A b \in BOOLEAN, q \in Seq(EventName) :
            [l EXCEPT !.drv = "idle", !.timer = b, !.events = q] \in Link
    BY DEF Link, Drv
  <2>2. (l.timer \/ l.drv = "ip") \in BOOLEAN
    OBVIOUS
  <2>3. g = [l EXCEPT !.drv = "idle", !.timer = (l.timer \/ l.drv = "ip"), !.events = a]
    BY DEF Gone, Link
  <2>4. QED
    BY <1>3, <2>1, <2>2, <2>3, ZenonT(60)
<1> HIDE DEF g, a
<1>5. LastFits(g) /\ GotipOver(g)
  BY <1>2, <1>3 DEF LastFits, GotipOver, LastOf
<1>6. QED
  BY <1>2, <1>3, <1>4, <1>5 DEF Fit, g, a

(* esp_wifi_disconnect leaves a link that is down alone. *)
LEMMA DisconnectFits ==
    ASSUME NEW l, Fit(l)
    PROVE  LET d == esp_wifi_disconnect(l)
           IN  /\ Fit(d) /\ d.drv = "idle" /\ d.stalled = l.stalled
               /\ Weight(d) = Weight(l)
               /\ l.drv = "idle" => d = l
               /\ l.drv # "idle" => d.events # <<>> /\ Pending(d.events, Losses)
               /\ Pending(l.events, Losses) => Pending(d.events, Losses)
<1> DEFINE d == esp_wifi_disconnect(l)
<1>1. l \in Link /\ l.events \in Seq(EventName) /\ Size(l.events) \in Nat
  BY LinkType DEF Fit
<1>2. CASE l.drv = "idle"
  BY <1>2 DEF esp_wifi_disconnect
<1>3. CASE l.drv # "idle"
  <2>1. d = Gone(l, "leave") /\ "leave" \in Losses /\ "leave" \in EventName
    BY <1>3 DEF esp_wifi_disconnect, Losses, EventName
  <2> HIDE DEF d
  <2>2. /\ Fit(d) /\ d.drv = "idle" /\ d.stalled = l.stalled /\ d.events = Append(l.events, "leave")
        /\ d.events # <<>> /\ Pending(d.events, Losses)
    BY <1>1, <2>1, GoneFits
  <2>3. Size(d.events) = Size(l.events) + 1
    <3>1. "leave" \notin Reconnecting
      BY DEF Reconnecting
    <3>2. QED
      BY <1>1, <2>1, <2>2, <3>1, Queued, ZenonT(60)
  <2>4. Weight(d) = Weight(l)
    BY <1>1, <1>3, <2>2, <2>3 DEF Weight
  <2>5. QED
    BY <1>3, <2>2, <2>4 DEF d
<1>4. QED
  BY <1>2, <1>3

(* esp_wifi_connect begins an attempt or is refused. *)
LEMMA ConnectFits ==
    ASSUME NEW l, Fit(l), NEW m, NEW c \in esp_wifi_connect(l, m)
    PROVE  /\ Fit(c) /\ c.events = l.events
           /\ l.drv # "idle" => c = l
           /\ l.drv = "idle" => \/ c.drv = "connecting" /\ c.stalled = "no"
                                \/ c.drv = "idle" /\ c.stalled = "refused"
           /\ Weight(c) <= Weight(l) + 1
<1>1. l \in Link /\ Weight(l) \in Nat /\ l.events \in Seq(EventName)
  BY LinkType DEF Fit
<1>2. CASE l.drv # "idle"
  BY <1>1, <1>2 DEF esp_wifi_connect
<1>3. CASE l.drv = "idle"
  <2>1. \/ c = [l EXCEPT !.stalled = "refused"]
        \/ c = [l EXCEPT !.drv = "connecting", !.stalled = "no"]
    BY <1>3 DEF esp_wifi_connect
  <2>2. c \in Link /\ c.events = l.events
    BY <1>1, <2>1 DEF Link, Drv, Ends
  <2>3. \/ c.drv = "connecting" /\ c.stalled = "no"
        \/ c.drv = "idle" /\ c.stalled = "refused"
    BY <1>1, <1>3, <2>1 DEF Link
  <2>4. LastOf(c.drv) = LastOf(l.drv)
    BY <1>3, <2>3 DEF LastOf
  <2>5. LastFits(c) /\ GotipOver(c)
    BY <1>3, <2>2, <2>3, <2>4 DEF Fit, LastFits, GotipOver
  <2>6. Weight(c) <= Weight(l) + 1
    BY <1>1, <1>3, <2>2, <2>3, SizeType DEF Weight
  <2>7. QED
    BY <1>3, <2>2, <2>3, <2>5, <2>6 DEF Fit
<1>4. QED
  BY <1>2, <1>3

(* Why nobody drives a link matters to nothing else. *)
LEMMA StalledFits ==
    ASSUME NEW l, Fit(l), NEW s \in Ends
    PROVE  LET k == [l EXCEPT !.stalled = s]
           IN  Fit(k) /\ k.drv = l.drv /\ k.events = l.events /\ k.stalled = s /\ Weight(k) = Weight(l)
<1> DEFINE k == [l EXCEPT !.stalled = s]
<1>1. k \in Link /\ k.drv = l.drv /\ k.events = l.events /\ k.stalled = s
  BY DEF Fit, Link
<1> HIDE DEF k
<1>2. QED
  BY <1>1 DEF Fit, LastFits, GotipOver, Weight, k

-----------------------------------------------------------------------------
(* The parts of the invariant. *)

VarTypes ==
    /\ STA_action \in {0, 1} \cup 3 .. 6
    /\ conAPcntr \in PauseOver .. Limit
    /\ wmode \subseteq {"ap", "sta"}
    /\ pc \in {"check", "expired", "pausing", "action", "run", "asking", "judge",
               "serve", "halted"}
    /\ ap \in BOOLEAN /\ wlc \in BOOLEAN /\ connected \in BOOLEAN
    /\ version \in BOOLEAN /\ remote \in BOOLEAN /\ raced \in BOOLEAN

(* The values of conAPcntr with a meaning of their own. *)
LEMMA Counter ==
    /\ PauseOver \in Int /\ Limit \in Int /\ MaxEvents \in Int /\ MaxEvents > 0
    /\ NoCount = -1 /\ Normal = -2 /\ PauseFrom = -3 /\ PauseOver < PauseFrom
    /\ {NoCount, Normal, PauseFrom, 0} \subseteq PauseOver .. Limit
<1>1. PauseOver \in Int /\ PauseOver < -3 /\ Limit \in Int /\ Limit > 0
  BY Bounds DEF PauseOver, PauseFrom
<1>2. QED
  BY <1>1, Bounds DEF NoCount, Normal, PauseFrom

(* The invariant gives its parts ... *)
LEMMA Parts ==
    ASSUME IInv
    PROVE  /\ Fit(link) /\ VarTypes /\ FewEvents /\ Driven /\ Grounded
           /\ link \in Link /\ Weight(link) \in Nat /\ Len(link.events) \in Nat
           /\ link.events \in Seq(EventName) /\ conAPcntr \in Int /\ STA_action \in Int
<1>1. Fit(link) /\ VarTypes /\ FewEvents /\ Driven /\ Grounded
  BY DEF IInv, Types, TypeOK, Fit, VarTypes
<1>2. conAPcntr \in Int /\ STA_action \in Int
  BY <1>1, Counter DEF VarTypes
<1>3. QED
  BY <1>1, <1>2, LinkType DEF Fit

(* ... and is made of them again; the bound on the events is that on their
   weight. *)
LEMMA Composed ==
    ASSUME Fit(link'), VarTypes', FewEvents', Driven', Grounded'
    PROVE  IInv'
<1>1. /\ link' \in Link /\ link'.drv \in Drv /\ link'.timer \in BOOLEAN /\ link'.stalled \in Ends
      /\ Len(link'.events) \in Nat /\ Weight(link') \in Nat /\ Len(link'.events) <= Weight(link')
  BY LinkType DEF Fit
<1>2. Weight(link') <= 2 * MaxEvents + 2
  BY DEF FewEvents
<1>3. Len(link'.events) <= 2 * MaxEvents + 2
  BY <1>1, <1>2, Counter
<1>4. Types'
  BY <1>1, <1>3 DEF Types, TypeOK, VarTypes, Drv
<1>5. QED
  BY <1>4 DEF IInv, Fit

Reasons == STA_action = 1 \/ (~raced /\ (connected \/ pc \in OnConnected))

(* The driver queues an event. *)
LEMMA DriverStep ==
    ASSUME IInv, Quiet, Fit(link'), link'.events # <<>>, Len(link'.events) <= Len(link.events) + 1,
           UNCHANGED <<ap, Device>>,
           \/ link'.drv = "ip"
           \/ Pending(link'.events, Losses)
           \/ link.drv # "ip" /\ (Pending(link.events, Losses) => Pending(link'.events, Losses))
    PROVE  IInv'
<1>1. UNCHANGED <<ap, wmode, wlc, STA_action, conAPcntr, connected, version, remote, pc, raced>>
  BY DEF Device
<1>2. VarTypes'
  BY <1>1, Parts DEF VarTypes
<1>3. FewEvents'
  <2>1. Len(link.events) < MaxEvents
    BY DEF Quiet
  <2>2. /\ Len(link'.events) \in Nat /\ Weight(link') \in Nat
        /\ Weight(link') <= 2 * Len(link'.events) + 1
    BY LinkType DEF Fit
  <2>3. Weight(link') <= 2 * MaxEvents + 1
    BY <2>1, <2>2, Parts, Counter
  <2>4. QED
    BY <2>2, <2>3, Counter DEF FewEvents
<1>4. Driven'
  BY DEF Driven
<1>5. Grounded'
  BY <1>1, Parts DEF Grounded
<1>6. QED
  BY <1>2, <1>3, <1>4, <1>5, Composed

(* The operations of the driver.  Each event fits the state it leads to. *)
LEMMA DriverInv ==
    ASSUME IInv, Associate \/ GetIp \/ LostIp \/ (\E r \in {"leave", "lost", "expire"} : Drops(r))
    PROVE  IInv'
<1>1. Fit(link) /\ link \in Link /\ link.events \in Seq(EventName)
  BY Parts
<1>2. \A e \in EventName, d \in Drv, b \in BOOLEAN :
        LET k == [link EXCEPT !.drv = d, !.timer = b, !.events = Append(@, e)]
        IN  /\ k \in Link /\ k.drv = d /\ k.events = Append(link.events, e)
            /\ e \in LastOf(d) => LastFits(k)
            /\ d = "ip" \/ e \in Losses \/ (e # "gotip" /\ link.drv # "ip") => GotipOver(k)
            /\ k.events # <<>> /\ Len(k.events) = Len(link.events) + 1
            /\ e \in Losses => Pending(k.events, Losses)
            /\ Pending(link.events, Losses) => Pending(k.events, Losses)
  <2> SUFFICES ASSUME NEW e \in EventName, NEW d \in Drv, NEW b \in BOOLEAN,
                      NEW k, k = [link EXCEPT !.drv = d, !.timer = b, !.events = Append(@, e)]
               PROVE  /\ k \in Link /\ k.drv = d /\ k.events = Append(link.events, e)
                      /\ e \in LastOf(d) => LastFits(k)
                      /\ d = "ip" \/ e \in Losses \/ (e # "gotip" /\ link.drv # "ip") => GotipOver(k)
                      /\ k.events # <<>> /\ Len(k.events) = Len(link.events) + 1
                      /\ e \in Losses => Pending(k.events, Losses)
                      /\ Pending(link.events, Losses) => Pending(k.events, Losses)
    BY ZenonT(60)
  <2>1. Append(link.events, e) \in Seq(EventName)
    BY <1>1
  <2>2. k \in Link /\ k.drv = d /\ k.events = Append(link.events, e)
    BY <1>1, <2>1 DEF Link
  <2>3. QED
    BY <1>1, <2>2, Queued DEF LastFits, GotipOver, Fit
<1>3. CASE Associate
  <2>1. PICK b \in BOOLEAN :
            link' = [link EXCEPT !.drv = "assoc", !.timer = b, !.events = Append(@, "connected")]
    <3>1. PICK b : b = link.timer
      OBVIOUS
    <3>2. b \in BOOLEAN
      BY <1>1, <3>1, LinkType
    <3>3. link' = [link EXCEPT !.drv = "assoc", !.timer = b, !.events = Append(@, "connected")]
      BY <1>1, <1>3, <3>1 DEF Associate, Link
    <3>4. QED
      BY <3>2, <3>3
  <2>2. link.drv # "ip" /\ Quiet /\ UNCHANGED <<ap, Device>>
    BY <1>3 DEF Associate
  <2>3. /\ "connected" \in EventName /\ "assoc" \in Drv
        /\ "connected" \in LastOf("assoc") /\ "connected" # "gotip"
    BY DEF EventName, Drv, LastOf
  <2>4. /\ link' \in Link /\ LastFits(link') /\ GotipOver(link') /\ link'.events # <<>>
        /\ Len(link'.events) = Len(link.events) + 1
        /\ Pending(link.events, Losses) => Pending(link'.events, Losses)
    BY <1>2, <2>1, <2>2, <2>3, ZenonT(60)
  <2>5. QED
    BY <2>2, <2>4, DriverStep, Parts DEF Fit
<1>4. CASE GetIp
  <2>1. /\ link' = [link EXCEPT !.drv = "ip", !.timer = FALSE, !.events = Append(@, "gotip")]
        /\ Quiet /\ UNCHANGED <<ap, Device>>
    BY <1>1, <1>4 DEF GetIp, Link
  <2>2. "gotip" \in EventName /\ "ip" \in Drv /\ "gotip" \in LastOf("ip")
    BY DEF EventName, Drv, LastOf
  <2>3. /\ link' \in Link /\ LastFits(link') /\ GotipOver(link') /\ link'.events # <<>>
        /\ Len(link'.events) = Len(link.events) + 1 /\ link'.drv = "ip"
    BY <1>2, <2>1, <2>2
  <2>4. QED
    BY <2>1, <2>3, DriverStep, Parts DEF Fit
<1>5. CASE LostIp
  <2>1. PICK d \in {"assoc", link.drv} :
            /\ link' = [link EXCEPT !.drv = d, !.timer = FALSE, !.events = Append(@, "lostip")]
            /\ d # "ip"
            /\ Quiet /\ UNCHANGED <<ap, Device>>
    <3>1. PICK d : /\ d = (IF link.drv = "ip" THEN "assoc" ELSE link.drv)
                   /\ link' = [link EXCEPT !.drv = d, !.timer = FALSE, !.events = Append(@, "lostip")]
      BY <1>1, <1>5 DEF LostIp, Link
    <3>2. QED
      BY <1>5, <3>1 DEF LostIp
  <2>2. "lostip" \in EventName /\ d \in Drv /\ "lostip" \in Losses /\ "lostip" \in LastOf(d)
    BY <1>1, <2>1, LinkType DEF EventName, Drv, LastOf, Losses
  <2>3. /\ link' \in Link /\ LastFits(link') /\ GotipOver(link') /\ link'.events # <<>>
        /\ Len(link'.events) = Len(link.events) + 1 /\ Pending(link'.events, Losses)
    BY <1>2, <2>1, <2>2
  <2>4. QED
    BY <2>1, <2>3, DriverStep, Parts DEF Fit
<1>6. CASE \E r \in {"leave", "lost", "expire"} : Drops(r)
  <2>1. PICK r \in {"leave", "lost", "expire"} : Drops(r)
    BY <1>6
  <2>2. link' = Gone(link, r) /\ r \in Losses /\ Quiet /\ UNCHANGED <<ap, Device>>
    BY <2>1 DEF Drops, Losses
  <2>3. /\ Fit(link') /\ link'.events # <<>> /\ Len(link'.events) = Len(link.events) + 1
        /\ Pending(link'.events, Losses)
    BY <1>1, <2>2, GoneFits
  <2>4. QED
    BY <2>2, <2>3, DriverStep, Parts
<1>7. QED
  BY <1>3, <1>4, <1>5, <1>6
-----------------------------------------------------------------------------
(* loop() and the commands. *)

(* A step after which as little can still come, and the pause is not over
   before it was. *)
LEMMA NoMore ==
    ASSUME IInv, Fit(link'), VarTypes', Driven', Grounded',
           \/ Weight(link') <= Weight(link) /\ (conAPcntr' = conAPcntr \/ conAPcntr' > PauseOver)
           \/ Weight(link') <= 2 * MaxEvents + 1
    PROVE  IInv'
<1>1. Weight(link') \in Nat /\ Weight(link) \in Nat /\ FewEvents
  BY LinkType, Parts DEF Fit
<1>2. conAPcntr' \in Int /\ conAPcntr \in Int
  BY Parts, Counter DEF VarTypes
<1>3. FewEvents'
  <2>1. /\ Weight(link') <= 2 * MaxEvents + 2
        /\ conAPcntr' <= PauseOver => Weight(link') <= 2 * MaxEvents + 1
    BY <1>1, <1>2, Counter DEF FewEvents
  <2>2. QED
    BY <2>1 DEF FewEvents, PauseOver, PauseFrom
<1>4. QED
  BY <1>3, Composed

(* A step that asks for no more than there is reason for, and gives the link
   back or leaves its state alone. *)
LEMMA LoopStep ==
    ASSUME IInv, Fit(link'), VarTypes', Weight(link') = Weight(link),
           conAPcntr' = conAPcntr \/ conAPcntr' = PauseFrom,
           \/ link'.events # <<>> /\ Pending(link'.events, Losses)
           \/ link'.drv = link.drv /\ link'.events = link.events /\ (Reasons' => Reasons) /\ Driven'
    PROVE  IInv'
<1>1. Driven'
  BY DEF Driven
<1>2. Grounded'
  BY Parts DEF Grounded, Reasons
<1>3. Weight(link) \in Nat /\ PauseFrom > PauseOver
  BY Parts, Counter
<1>4. Weight(link') <= Weight(link) /\ (conAPcntr' = conAPcntr \/ conAPcntr' > PauseOver)
  BY <1>3
<1>5. QED
  BY <1>1, <1>2, <1>4, NoMore

(* The link is given back, or was down already. *)
LEMMA GivesBack ==
    ASSUME IInv, link' = link \/ link' = esp_wifi_disconnect(link)
    PROVE  /\ Fit(link') /\ Weight(link') = Weight(link)
           /\ \/ link'.events # <<>> /\ Pending(link'.events, Losses)
              \/ link' = link
           /\ link' = esp_wifi_disconnect(link) /\ link' = link => link.drv = "idle"
BY Parts, DisconnectFits

(* The steps of loop() that leave the link as it is. *)
LEMMA LoopKeepsInv ==
    ASSUME IInv, CheckCounter \/ StartPause \/ CheckAction \/ StartAsking \/ Answered \/ LoopEnds
                 \/ ApComesAndGoes \/ (\E on \in BOOLEAN : EnableRemote(on)) \/ UNCHANGED vars
    PROVE  IInv'
<1>1. Fit(link) /\ VarTypes /\ Driven
  BY Parts
<1>2. link' = link /\ (conAPcntr' = conAPcntr \/ conAPcntr' = PauseFrom)
  BY DEF CheckCounter, StartPause, CheckAction, StartAsking, Answered, LoopEnds, ApComesAndGoes,
         EnableRemote, vars, Device
<1>3. CASE CheckCounter
  <2>1. VarTypes'
    BY <1>1, <1>3, Counter DEF VarTypes, PauseOver, PauseFrom, CheckCounter, Keep
  <2>2. (Reasons' => Reasons) /\ Driven'
    BY <1>1, <1>3 DEF Reasons, Driven, Counts, OnConnected, PauseFrom, CheckCounter, Keep
  <2>3. QED
    BY <1>1, <1>2, <2>1, <2>2, LoopStep
<1>4. CASE StartPause
  <2>1. VarTypes'
    BY <1>1, <1>4, Counter DEF VarTypes, PauseOver, PauseFrom, StartPause, Keep
  <2>2. (Reasons' => Reasons) /\ Driven'
    BY <1>1, <1>4 DEF Reasons, Driven, Counts, OnConnected, PauseFrom, StartPause, Keep
  <2>3. QED
    BY <1>1, <1>2, <2>1, <2>2, LoopStep
<1>5. CASE CheckAction
  <2>1. VarTypes'
    BY <1>1, <1>5, Counter DEF VarTypes, PauseOver, PauseFrom, CheckAction, Keep
  <2>2. (Reasons' => Reasons) /\ Driven'
    BY <1>1, <1>5 DEF Reasons, Driven, Counts, OnConnected, PauseFrom, CheckAction, Keep
  <2>3. QED
    BY <1>1, <1>2, <2>1, <2>2, LoopStep
<1>6. CASE StartAsking
  <2>1. VarTypes'
    BY <1>1, <1>6, Counter DEF VarTypes, PauseOver, PauseFrom, StartAsking, Keep
  <2>2. (Reasons' => Reasons) /\ Driven'
    BY <1>1, <1>6 DEF Reasons, Driven, Counts, OnConnected, PauseFrom, StartAsking, Keep
  <2>3. QED
    BY <1>1, <1>2, <2>1, <2>2, LoopStep
<1>7. CASE Answered
  <2>1. VarTypes'
    BY <1>1, <1>7, Counter DEF VarTypes, PauseOver, PauseFrom, Answered
  <2>2. (Reasons' => Reasons) /\ Driven'
    BY <1>1, <1>7 DEF Reasons, Driven, Counts, OnConnected, PauseFrom, Answered
  <2>3. QED
    BY <1>1, <1>2, <2>1, <2>2, LoopStep
<1>8. CASE LoopEnds
  <2>1. VarTypes'
    BY <1>1, <1>8, Counter DEF VarTypes, PauseOver, PauseFrom, LoopEnds, Keep
  <2>2. (Reasons' => Reasons) /\ Driven'
    BY <1>1, <1>8 DEF Reasons, Driven, Counts, OnConnected, PauseFrom, LoopEnds, Keep
  <2>3. QED
    BY <1>1, <1>2, <2>1, <2>2, LoopStep
<1>9. CASE ApComesAndGoes
  <2>1. VarTypes'
    BY <1>1, <1>9, Counter DEF VarTypes, PauseOver, PauseFrom, ApComesAndGoes, Device
  <2>2. (Reasons' => Reasons) /\ Driven'
    BY <1>1, <1>9 DEF Reasons, Driven, Counts, OnConnected, PauseFrom, ApComesAndGoes, Device
  <2>3. QED
    BY <1>1, <1>2, <2>1, <2>2, LoopStep
<1>10. CASE \E on \in BOOLEAN : EnableRemote(on)
  <2>1. VarTypes'
    BY <1>1, <1>10, Counter DEF VarTypes, PauseOver, PauseFrom, EnableRemote
  <2>2. (Reasons' => Reasons) /\ Driven'
    BY <1>1, <1>10 DEF Reasons, Driven, Counts, OnConnected, PauseFrom, EnableRemote
  <2>3. QED
    BY <1>1, <1>2, <2>1, <2>2, LoopStep
<1>11. CASE UNCHANGED vars
  <2>1. VarTypes'
    BY <1>1, <1>11, Counter DEF VarTypes, PauseOver, PauseFrom, vars
  <2>2. (Reasons' => Reasons) /\ Driven'
    BY <1>1, <1>11 DEF Reasons, Driven, Counts, OnConnected, PauseFrom, vars
  <2>3. QED
    BY <1>1, <1>2, <2>1, <2>2, LoopStep
<1>12. QED
  BY <1>3, <1>4, <1>5, <1>6, <1>7, <1>8, <1>9, <1>10, <1>11

(* The steps of loop() that may give the link back. *)
LEMMA LoopGivesInv ==
    ASSUME IInv, Expired \/ RemoteOff \/ WrongVersion
    PROVE  IInv'
<1>1. Fit(link) /\ VarTypes /\ Driven
  BY Parts
<1>2. /\ link' = link \/ link' = esp_wifi_disconnect(link)
      /\ conAPcntr' = conAPcntr
  BY DEF Expired, RemoteOff, WrongVersion
<1>3. VarTypes'
  BY <1>1 DEF VarTypes, Expired, RemoteOff, WrongVersion, Keep, PauseOver, PauseFrom
<1>4. Reasons' => Reasons
  BY DEF Reasons, OnConnected, Expired, RemoteOff, WrongVersion
<1>5. ASSUME link' = link
      PROVE  Driven'
  <2>1. ~RemoteOff => link.drv = "idle"
    BY <1>5, GivesBack DEF Expired, WrongVersion
  <2>2. QED
    BY <1>1, <1>5, <2>1 DEF Driven, Counts, OnConnected, PauseFrom, Expired, RemoteOff,
         WrongVersion, Keep
<1>6. QED
  BY <1>2, <1>3, <1>4, <1>5, GivesBack, LoopStep

(* on_connected ends: nobody answered, or the version is right. *)
LEMMA OnConnectedEndsInv ==
    ASSUME IInv, Unanswered \/ RightVersion
    PROVE  IInv'
<1>1. Fit(link) /\ VarTypes /\ Driven /\ link.stalled \in Ends
  BY Parts, LinkType
<1>2. PICK s \in Ends : /\ link' = [link EXCEPT !.stalled = s]
                        /\ s = "unanswered" \/ (RightVersion /\ (s = link.stalled \/ link.drv = "ip"))
  <2>1. {"unanswered", "no"} \subseteq Ends
    BY DEF Ends
  <2>2. CASE Unanswered
    BY <2>1, <2>2 DEF Unanswered
  <2>3. CASE RightVersion
    BY <1>1, <2>1, <2>3 DEF RightVersion
  <2>4. QED
    BY <2>2, <2>3
<1>3. /\ Fit(link') /\ link'.drv = link.drv /\ link'.events = link.events /\ link'.stalled = s
      /\ Weight(link') = Weight(link)
  BY <1>1, <1>2, StalledFits
<1>4. VarTypes'
  BY <1>1 DEF VarTypes, Unanswered, RightVersion, Keep, PauseOver, PauseFrom
<1>5. Reasons' => Reasons
  BY DEF Reasons, OnConnected, Unanswered, RightVersion
<1>6. Driven'
  BY <1>1, <1>2, <1>3 DEF Driven, Counts, OnConnected, PauseFrom, Unanswered, RightVersion, Keep
<1>7. QED
  BY <1>3, <1>4, <1>5, <1>6, LoopStep DEF Unanswered, RightVersion
(* The events are few when the driver is not stopped. *)
LEMMA QuietWeight ==
    ASSUME IInv, Quiet
    PROVE  Weight(link) <= 2 * MaxEvents - 1
<1>1. Len(link.events) < MaxEvents
  BY DEF Quiet
<1>2. /\ Len(link.events) \in Nat /\ Weight(link) \in Nat
      /\ Weight(link) <= 2 * Len(link.events) + 1
  BY Parts, LinkType
<1>3. QED
  BY <1>1, <1>2, Counter

(* A new attempt: the link is driven after it, or is marked. *)
LEMMA TriedFits ==
    ASSUME NEW l, Fit(l), NEW m, NEW c \in esp_wifi_connect(l, m), NEW k, k = Unwatched(c)
    PROVE  /\ Fit(k) /\ k.events = l.events /\ Weight(k) <= Weight(l) + 1
           /\ l.drv = "ip" => k = l
           /\ l.drv # "ip" => k.drv # "ip" /\ (k.stalled = "no" => k.drv = "connecting")
           /\ c.drv = "ip" <=> l.drv = "ip"
<1>1. /\ Fit(c) /\ c.events = l.events /\ Weight(c) <= Weight(l) + 1
      /\ l.drv # "idle" => c = l
      /\ l.drv = "idle" => \/ c.drv = "connecting" /\ c.stalled = "no"
                           \/ c.drv = "idle" /\ c.stalled = "refused"
  BY ConnectFits
<1>2. "untimed" \in Ends /\ l.drv \in Drv
  BY LinkType DEF Ends, Fit
<1>3. CASE c.drv = "assoc"
  <2>1. k = [c EXCEPT !.stalled = "untimed"]
    BY <1>3 DEF Unwatched
  <2>2. Fit(k) /\ k.drv = c.drv /\ k.events = c.events /\ k.stalled = "untimed" /\ Weight(k) = Weight(c)
    BY <1>1, <1>2, <2>1, StalledFits
  <2>3. QED
    BY <1>1, <1>3, <2>2
<1>4. CASE c.drv # "assoc"
  <2>1. k = c
    BY <1>4 DEF Unwatched
  <2>2. QED
    BY <1>1, <1>2, <1>4, <2>1 DEF Drv
<1>5. QED
  BY <1>3, <1>4

(* The end of the pause, and the command to connect. *)
LEMMA TryInv ==
    ASSUME IInv, PauseEnds \/ ConnectCommand
    PROVE  IInv'
<1>1. Fit(link) /\ VarTypes /\ Driven /\ Grounded /\ Weight(link) \in Nat /\ FewEvents
  BY Parts
<1>2. /\ conAPcntr' = NoCount
      /\ UNCHANGED <<wmode, ap, wlc, version, remote, STA_action, connected, raced>>
      /\ pc' = pc \/ (pc' = "action" /\ pc = "check")
  BY DEF PauseEnds, ConnectCommand, Keep
<1>3. PICK c \in esp_wifi_connect(link, wmode) : link' = Unwatched(c)
  BY DEF PauseEnds, ConnectCommand
<1>4. /\ Fit(link') /\ link'.events = link.events /\ Weight(link') <= Weight(link) + 1
      /\ link.drv = "ip" => link' = link
      /\ link.drv # "ip" => link'.drv # "ip" /\ (link'.stalled = "no" => link'.drv = "connecting")
  BY <1>1, <1>3, TriedFits
<1>5. VarTypes'
  BY <1>1, <1>2, Counter DEF VarTypes, PauseOver, PauseFrom
<1>6. Driven'
  BY <1>1, <1>2, <1>4 DEF Driven, OnConnected
<1>7. Grounded'
  BY <1>1, <1>2, <1>4 DEF Grounded, OnConnected
<1>8. FewEvents'
  <2>1. Weight(link) <= 2 * MaxEvents + 1
    <3>1. CASE PauseEnds
      BY <1>1, <3>1 DEF PauseEnds, FewEvents
    <3>2. CASE ConnectCommand
      <4>1. Weight(link) <= 2 * MaxEvents - 1
        BY <3>2, QuietWeight DEF ConnectCommand, CommandsRun
      <4>2. QED
        BY <1>1, <4>1, Counter
    <3>3. QED
      BY <3>1, <3>2
  <2>2. Weight(link') \in Nat
    BY <1>4, LinkType DEF Fit
  <2>3. Weight(link') <= 2 * MaxEvents + 2
    BY <1>1, <1>4, <2>1, <2>2, Counter
  <2>4. ~(conAPcntr' <= PauseOver)
    BY <1>2, Counter
  <2>5. QED
    BY <2>3, <2>4 DEF FewEvents, PauseOver, PauseFrom
<1>9. QED
  BY <1>4, <1>5, <1>6, <1>7, <1>8, Composed

(* The clock runs only when no event waits. *)
LEMMA ClockInv ==
    ASSUME IInv, scan_keys
    PROVE  IInv'
<1>1. Fit(link) /\ VarTypes /\ Driven /\ Grounded /\ Weight(link) \in Nat /\ conAPcntr \in Int
  BY Parts
<1>2. /\ link.events = <<>>
      /\ UNCHANGED <<wmode, ap, link, wlc, STA_action, connected, version, remote, pc, raced>>
  BY DEF scan_keys
<1>3. conAPcntr' \in PauseOver .. Limit /\ (Counts => Counts')
  BY <1>1, Counter DEF scan_keys, VarTypes, Counts
<1>4. VarTypes'
  BY <1>1, <1>2, <1>3 DEF VarTypes, PauseOver, PauseFrom
<1>5. Driven' /\ Grounded'
  BY <1>1, <1>2, <1>3 DEF Driven, Grounded
<1>6. Weight(link) <= 1
  <2>1. link.events \in Seq(EventName) /\ Len(link.events) = 0
    BY <1>2, Parts
  <2>2. QED
    BY <1>1, <2>1, LinkType DEF Fit
<1>7. Weight(link') <= 2 * MaxEvents + 1
  BY <1>1, <1>2, <1>6, Counter
<1>8. QED
  BY <1>1, <1>2, <1>4, <1>5, <1>7, NoMore
(* New settings. *)
LEMMA NewSettingsInv ==
    ASSUME IInv, NEW on \in BOOLEAN, NewSettings(on)
    PROVE  IInv'
<1>1. Fit(link) /\ VarTypes /\ Driven /\ Grounded /\ Weight(link) \in Nat /\ Quiet
  BY Parts DEF NewSettings, CommandsRun
<1>2. remote' = on /\ UNCHANGED <<wmode, ap, wlc, connected, version, pc, raced>>
  BY DEF NewSettings
<1>3. ASSUME ~on, STA_action' = 0, UNCHANGED conAPcntr,
             link' = IF connected \/ wlc THEN esp_wifi_disconnect(link) ELSE link
      PROVE  IInv'
  <2>1. VarTypes'
    BY <1>1, <1>2, <1>3 DEF VarTypes, PauseOver, PauseFrom
  <2>2. Reasons' => Reasons
    BY <1>2, <1>3 DEF Reasons
  <2>3. link' = link => Driven'
    <3>1. link' = link => link.drv = "idle" \/ ~wlc
      BY <1>3, GivesBack
    <3>2. QED
      BY <1>1, <1>2, <1>3, <3>1 DEF Driven, Counts, PauseFrom
  <2>4. QED
    BY <1>3, <2>1, <2>2, <2>3, GivesBack, LoopStep
<1>4. ASSUME STA_action' = 3, conAPcntr' = NoCount, NEW c \in esp_wifi_connect(link, wmode),
             link' = IF c.drv = "ip" THEN [c EXCEPT !.stalled = "settings"] ELSE Unwatched(c)
      PROVE  IInv'
  <2>1. /\ Fit(link') /\ link'.events = link.events /\ Weight(link') <= Weight(link) + 1
        /\ link'.drv = "ip" <=> link.drv = "ip"
        /\ link'.stalled = "no" => link'.drv = "connecting"
    <3>1. CASE c.drv = "ip"
      <4>1. c = link /\ link.drv = "ip"
        BY <1>1, <1>4, <3>1, ConnectFits
      <4>2. link' = [link EXCEPT !.stalled = "settings"] /\ "settings" \in Ends
        BY <1>4, <3>1, <4>1 DEF Ends
      <4>3. /\ Fit(link') /\ link'.drv = "ip" /\ link'.events = link.events
            /\ link'.stalled = "settings" /\ Weight(link') = Weight(link)
        BY <1>1, <4>1, <4>2, StalledFits
      <4>4. QED
        BY <1>1, <4>1, <4>3
    <3>2. CASE c.drv # "ip"
      BY <1>1, <1>4, <3>2, TriedFits
    <3>3. QED
      BY <3>1, <3>2
  <2>2. VarTypes'
    BY <1>1, <1>2, <1>4, Counter DEF VarTypes, PauseOver, PauseFrom
  <2>3. Driven' /\ Grounded'
    BY <1>1, <1>2, <1>4, <2>1 DEF Driven, Grounded
  <2>4. Weight(link') <= 2 * MaxEvents + 1
    <3>1. Weight(link') \in Nat /\ Weight(link) <= 2 * MaxEvents - 1
      BY <1>1, <2>1, QuietWeight, LinkType DEF Fit
    <3>2. QED
      BY <1>1, <2>1, <3>1, Counter
  <2>5. QED
    BY <2>1, <2>2, <2>3, <2>4, NoMore
<1>5. ASSUME UNCHANGED <<STA_action, conAPcntr, link>>
      PROVE  IInv'
  <2>1. VarTypes'
    BY <1>1, <1>2, <1>5 DEF VarTypes, PauseOver, PauseFrom
  <2>2. (Reasons' => Reasons) /\ Driven'
    BY <1>1, <1>2, <1>5 DEF Reasons, Driven, Counts, PauseFrom
  <2>3. QED
    BY <1>1, <1>5, <2>1, <2>2, LoopStep
<1>6. QED
  BY <1>3, <1>4, <1>5 DEF NewSettings

-----------------------------------------------------------------------------
(* The event task. *)

(* The first event is taken off the queue of a link. *)
LEMMA PoppedFits ==
    ASSUME NEW l, Fit(l), l.events # <<>>, NEW p, p = [l EXCEPT !.events = Tail(@)]
    PROVE  /\ Fit(p) /\ p.drv = l.drv /\ p.events = Tail(l.events) /\ p.stalled = l.stalled
           /\ Head(l.events) \in EventName
           /\ Weight(p) = Weight(l) - (IF Head(l.events) \in Reconnecting THEN 2 ELSE 1)
           /\ p.events = <<>> => Head(l.events) \in LastOf(l.drv)
<1>1. l \in Link /\ l.events \in Seq(EventName) /\ Size(l.events) \in Nat
  BY LinkType DEF Fit
<1>2. /\ Head(l.events) \in EventName /\ Tail(l.events) \in Seq(EventName)
      /\ IF Tail(l.events) = <<>> THEN Head(l.events) = l.events[Len(l.events)]
         ELSE Tail(l.events)[Len(Tail(l.events))] = l.events[Len(l.events)]
      /\ LossBehind(l.events) => LossBehind(Tail(l.events))
      /\ Size(Tail(l.events)) = Size(l.events) - (IF Head(l.events) \in Reconnecting THEN 2 ELSE 1)
  BY <1>1, Popped
<1>3. p \in Link /\ p.drv = l.drv /\ p.events = Tail(l.events) /\ p.stalled = l.stalled
  BY <1>1, <1>2 DEF Link
<1>4. LastFits(p) /\ GotipOver(p)
  BY <1>2, <1>3 DEF Fit, LastFits, GotipOver
<1>5. Weight(p) = Weight(l) - (IF Head(l.events) \in Reconnecting THEN 2 ELSE 1)
  <2>1. Size(p.events) = Size(l.events) - (IF Head(l.events) \in Reconnecting THEN 2 ELSE 1)
    BY <1>2, <1>3
  <2>2. Size(p.events) \in Nat
    BY <1>3, LinkType
  <2>3. QED
    BY <1>1, <1>3, <2>1, <2>2 DEF Weight
<1>6. p.events = <<>> => Head(l.events) \in LastOf(l.drv)
  BY <1>2, <1>3 DEF Fit, LastFits
<1>7. QED
  BY <1>2, <1>3, <1>4, <1>5, <1>6 DEF Fit

(* What the library leaves for sta_lost is one event lighter than what there
   was, and up only when another event waits. *)
LEMMA ReconnectFits ==
    ASSUME NEW p, Fit(p), NEW e, NEW l \in AutoReconnect(p, e),
           p.events = <<>> => p.drv # "ip"
    PROVE  /\ Fit(l)
           /\ Weight(l) <= Weight(p) + (IF e \in Reconnecting THEN 1 ELSE 0)
           /\ l.events = <<>> => l.drv # "ip"
<1>1. Weight(p) \in Nat
  BY LinkType DEF Fit
<1>2. CASE e \notin Reconnecting
  BY <1>1, <1>2 DEF AutoReconnect, Reconnecting
<1>3. CASE e \in Reconnecting
  <2>1. PICK d : /\ d = disconnect(p)
                 /\ l = d \/ l \in esp_wifi_connect(d, wmode)
    BY <1>3 DEF AutoReconnect, Reconnecting, begin
  <2>2. Fit(d) /\ Weight(d) = Weight(p) /\ (d.events = <<>> => d.drv # "ip")
    BY <2>1, DisconnectFits DEF disconnect
  <2>3. CASE l = d
    BY <1>1, <1>3, <2>2, <2>3
  <2>4. CASE l \in esp_wifi_connect(d, wmode)
    <3>1. /\ Fit(l) /\ l.events = d.events /\ Weight(l) <= Weight(d) + 1
          /\ d.drv # "idle" => l = d
          /\ d.drv = "idle" => l.drv # "ip"
      BY <2>2, <2>4, ConnectFits
    <3>2. QED
      BY <1>1, <1>3, <2>2, <3>1
  <2>5. QED
    BY <2>1, <2>3, <2>4
<1>4. QED
  BY <1>2, <1>3
(* sta_lost: the attempt is counted, the next one begins, or the pause. *)
LEMMA LostFits ==
    ASSUME IInv, NEW l, Fit(l), l.events = <<>> => l.drv # "ip", sta_lost(l)
    PROVE  /\ Fit(link') /\ Weight(link') <= Weight(l) + 1
           /\ conAPcntr' = conAPcntr \/ conAPcntr' \in {NoCount, PauseFrom}
           /\ STA_action' \in {0} \cup 3 .. 6 /\ connected' = FALSE /\ version' = FALSE
           /\ link'.events = <<>> =>
                /\ link'.drv # "ip"
                /\ link'.stalled = "no" => link'.drv = "connecting" \/ conAPcntr' = PauseFrom
<1>1. Weight(l) \in Nat /\ STA_action \in {0, 1} \cup 3 .. 6
  BY LinkType, Parts DEF Fit, VarTypes
<1>2. PICK d : d = esp_wifi_disconnect(l) /\ Fit(d) /\ d.drv = "idle" /\ Weight(d) = Weight(l)
  BY DisconnectFits
<1>3. connected' = FALSE /\ version' = FALSE /\ (LostAgain(l) \/ LostFirst(l))
  BY DEF sta_lost
<1>4. {"waits", "off"} \subseteq Ends
  BY DEF Ends
<1>5. CASE LostAgain(l)
  <2>1. CASE STA_action' = 0 /\ conAPcntr' = PauseFrom /\ link' = esp_wifi_disconnect(l)
    <3>1. link' = d
      BY <1>2, <2>1
    <3>2. QED
      BY <1>1, <1>2, <1>3, <2>1, <3>1
  <2>2. CASE /\ STA_action >= 3 /\ STA_action + 1 <= 6 /\ STA_action' = STA_action + 1
             /\ conAPcntr' = NoCount
             /\ link' = IF l.drv = "connecting" THEN l ELSE [l EXCEPT !.stalled = "waits"]
    <3>1. /\ Fit(link') /\ Weight(link') = Weight(l) /\ link'.drv = l.drv /\ link'.events = l.events
          /\ link'.drv = "connecting" \/ link'.stalled = "waits"
      BY <1>4, <2>2, StalledFits
    <3>2. STA_action' \in {0} \cup 3 .. 6
      BY <1>1, <2>2
    <3>3. QED
      BY <1>1, <1>3, <2>2, <3>1, <3>2
  <2>3. QED
    BY <1>5, <2>1, <2>2 DEF LostAgain
<1>6. CASE LostFirst(l)
  <2>1. CASE /\ STA_action' = 0 /\ UNCHANGED conAPcntr
             /\ link' = [esp_wifi_disconnect(l) EXCEPT !.stalled = "off"]
    <3>1. link' = [d EXCEPT !.stalled = "off"]
      BY <1>2, <2>1
    <3>2. Fit(link') /\ Weight(link') = Weight(l) /\ link'.drv = "idle" /\ link'.stalled = "off"
      BY <1>2, <1>4, <3>1, StalledFits
    <3>3. QED
      BY <1>1, <1>3, <2>1, <3>2
  <2>2. CASE /\ STA_action' = 3 /\ conAPcntr' = NoCount
             /\ link' \in esp_wifi_connect(esp_wifi_disconnect(l), wmode)
    <3>1. link' \in esp_wifi_connect(d, wmode)
      BY <1>2, <2>2
    <3>2. /\ Fit(link') /\ Weight(link') <= Weight(d) + 1
          /\ \/ link'.drv = "connecting" /\ link'.stalled = "no"
             \/ link'.drv = "idle" /\ link'.stalled = "refused"
      BY <1>2, <3>1, ConnectFits
    <3>3. QED
      BY <1>1, <1>2, <1>3, <2>2, <3>2
  <2>3. QED
    BY <1>6, <2>1, <2>2 DEF LostFirst
<1>7. QED
  BY <1>3, <1>5, <1>6

(* An event is handled. *)
LEMMA EventInv ==
    ASSUME IInv, _eventCallback
    PROVE  IInv'
<1>1. /\ Fit(link) /\ VarTypes /\ Driven /\ Grounded /\ Weight(link) \in Nat
      /\ link.events \in Seq(EventName) /\ link.events # <<>>
      /\ UNCHANGED <<wmode, ap, remote, pc>>
  BY Parts DEF _eventCallback
<1>2. PICK e, p : e = Head(link.events) /\ p = [link EXCEPT !.events = Tail(@)]
  OBVIOUS
<1>3. /\ Fit(p) /\ p.drv = link.drv /\ p.events = Tail(link.events)
      /\ e \in EventName
      /\ Weight(p) = Weight(link) - (IF e \in Reconnecting THEN 2 ELSE 1)
      /\ p.events = <<>> => e \in LastOf(link.drv)
      /\ Weight(p) \in Nat /\ Weight(p) < Weight(link)
  <2>1. /\ Fit(p) /\ p.drv = link.drv /\ p.events = Tail(link.events)
        /\ e \in EventName
        /\ Weight(p) = Weight(link) - (IF e \in Reconnecting THEN 2 ELSE 1)
        /\ p.events = <<>> => e \in LastOf(link.drv)
    BY <1>1, <1>2, PoppedFits
  <2>2. Weight(p) \in Nat
    BY <2>1, LinkType DEF Fit
  <2>3. QED
    BY <1>1, <2>1, <2>2
<1>4. Pending(link.events, Losses) => Pending(p.events, Losses) \/ e \in Losses
  BY <1>1, <1>2, <1>3, Popped
<1>5. /\ _setStatus(e)
      /\ raced' = (raced \/ (e \in Losses /\ pc \in OnConnected))
      /\ \/ e = "connected" /\ sta_connected_to_AP(p)
         \/ e = "gotip" /\ sta_got_ip(p)
         \/ e \in Losses /\ \E l \in AutoReconnect(p, e) : sta_lost(l)
  BY <1>2 DEF _eventCallback, OnConnected
<1>6. wlc' \in BOOLEAN /\ raced' \in BOOLEAN
  <2>1. wlc \in BOOLEAN /\ raced \in BOOLEAN
    BY <1>1 DEF VarTypes
  <2>2. wlc' \in BOOLEAN
    BY <1>5, <2>1 DEF _setStatus
  <2>3. QED
    BY <1>5, <2>1, <2>2
<1>7. "no" \in Ends /\ "connected" \notin Losses /\ "gotip" \notin Losses
  BY DEF Ends, Losses
<1>8. ASSUME e = "connected", sta_connected_to_AP(p)
      PROVE  IInv'
  <2>1. connected' = FALSE /\ conAPcntr' = 0 /\ UNCHANGED <<STA_action, version>>
        /\ link' = [p EXCEPT !.stalled = "no"]
    BY <1>8 DEF sta_connected_to_AP
  <2>2. Fit(link') /\ link'.drv = link.drv /\ link'.events = p.events /\ Weight(link') = Weight(p)
    BY <1>3, <1>7, <2>1, StalledFits
  <2>3. VarTypes'
    BY <1>1, <1>6, <2>1, Counter DEF VarTypes, PauseOver, PauseFrom
  <2>4. Driven'
    <3>1. link'.events = <<>> => link'.drv = "assoc"
      BY <1>3, <1>8, <2>2 DEF LastOf, Losses
    <3>2. QED
      BY <2>1, <3>1 DEF Driven, Counts
  <2>5. Grounded'
    <3>1. ~raced' => ~raced
      BY <1>5, <1>6
    <3>2. Reasons' => Reasons
      BY <1>1, <2>1, <3>1 DEF Reasons
    <3>3. QED
      BY <1>1, <1>4, <1>7, <1>8, <2>2, <3>2 DEF Grounded, Reasons
  <2>6. QED
    BY <1>1, <1>3, <2>1, <2>2, <2>3, <2>4, <2>5, NoMore, Counter
<1>9. ASSUME e = "gotip", sta_got_ip(p)
      PROVE  IInv'
  <2>1. STA_action' = 1 /\ conAPcntr' = Normal /\ UNCHANGED <<connected, version>>
        /\ link' = [p EXCEPT !.stalled = "no"]
    BY <1>9 DEF sta_got_ip
  <2>2. Fit(link') /\ link'.drv = link.drv /\ link'.events = p.events /\ Weight(link') = Weight(p)
    BY <1>3, <1>7, <2>1, StalledFits
  <2>3. VarTypes'
    BY <1>1, <1>6, <2>1, Counter DEF VarTypes, PauseOver, PauseFrom
  <2>4. Driven'
    <3>1. wlc' = TRUE
      BY <1>5, <1>9 DEF _setStatus
    <3>2. link'.events = <<>> => link'.drv = "ip"
      BY <1>3, <1>9, <2>2 DEF LastOf, Losses
    <3>3. QED
      BY <2>1, <3>1, <3>2 DEF Driven
  <2>5. Grounded'
    <3>1. link.drv = "ip" \/ Pending(p.events, Losses)
      <4>1. link.drv = "ip" \/ LossBehind(link.events)
        BY <1>1 DEF Fit, GotipOver
      <4>2. QED
        BY <1>1, <1>2, <1>3, <1>9, <4>1, Popped
    <3>2. QED
      BY <2>2, <3>1 DEF Grounded
  <2>6. QED
    BY <1>1, <1>3, <2>1, <2>2, <2>3, <2>4, <2>5, NoMore, Counter
<1>10. ASSUME e \in Losses, NEW l \in AutoReconnect(p, e), sta_lost(l)
       PROVE  IInv'
  <2>1. p.events = <<>> => p.drv # "ip"
    BY <1>3, <1>7, <1>10 DEF LastOf
  <2>2. /\ Fit(l) /\ Weight(l) <= Weight(p) + (IF e \in Reconnecting THEN 1 ELSE 0)
        /\ l.events = <<>> => l.drv # "ip"
    BY <1>3, <1>10, <2>1, ReconnectFits
  <2>3. /\ Fit(link') /\ Weight(link') <= Weight(l) + 1
        /\ conAPcntr' = conAPcntr \/ conAPcntr' \in {NoCount, PauseFrom}
        /\ STA_action' \in {0} \cup 3 .. 6 /\ connected' = FALSE /\ version' = FALSE
        /\ link'.events = <<>> =>
             /\ link'.drv # "ip"
             /\ link'.stalled = "no" => link'.drv = "connecting" \/ conAPcntr' = PauseFrom
    BY <1>10, <2>2, LostFits
  <2>4. Weight(link') <= Weight(link)
    <3>1. Weight(l) \in Nat /\ Weight(link') \in Nat
      BY <2>2, <2>3, LinkType DEF Fit
    <3>2. QED
      BY <1>1, <1>3, <2>2, <2>3, <3>1
  <2>5. VarTypes'
    BY <1>1, <1>6, <2>3, Counter DEF VarTypes, PauseOver, PauseFrom
  <2>6. Driven'
    BY <2>3 DEF Driven, Counts, PauseFrom
  <2>7. Grounded'
    <3>1. raced' \/ pc' \notin OnConnected
      BY <1>1, <1>5, <1>10
    <3>2. QED
      BY <2>3, <3>1 DEF Grounded
  <2>8. conAPcntr' = conAPcntr \/ conAPcntr' > PauseOver
    BY <2>3, Counter
  <2>9. QED
    BY <2>3, <2>4, <2>5, <2>6, <2>7, <2>8, NoMore
<1>11. QED
  BY <1>5, <1>8, <1>9, <1>10
-----------------------------------------------------------------------------
(* The end of setup(). *)

(* A link that setup() leaves behind: no event waits, and an attempt is under
   way unless the link is marked. *)
Fresh(l) ==
    /\ l \in Link /\ l.events = <<>>
    /\ \/ l.drv = "idle" /\ l.stalled \in {"off", "refused"}
       \/ l.drv = "connecting"

(* WiFi has just been started: no event is queued. *)
LEMMA StartedFresh ==
    ASSUME NEW r \in BOOLEAN, NEW s \in Started(r)
    PROVE  s[1] \subseteq {"ap", "sta"} /\ Fresh(s[2]) /\ s[3] \in {"check", "halted"}
<1>1. NoLink \in Link /\ Fresh(NoLink) /\ Fit(NoLink) /\ NoLink.events = <<>> /\ NoLink.drv = "idle"
  <2>1. NoLink \in Link
    BY DEF NoLink, Link, Drv, Ends
  <2>2. NoLink.events = <<>> /\ NoLink.drv = "idle" /\ NoLink.stalled = "off"
    BY DEF NoLink
  <2>3. LossBehind(<<>>)
    BY DEF LossBehind
  <2>4. QED
    BY <2>1, <2>2, <2>3 DEF Fresh, Fit, LastFits, GotipOver
<1>2. PICK m \in mode({}, IF r THEN {"ap", "sta"} ELSE {"ap"}) :
        \/ \E c \in configAP(m) : s = <<c[1], NoLink, "halted">>
        \/ \E c \in configAP(m) : s = <<c[1], NoLink, "check">>
        \/ \E c \in configAP(m) : \E f \in FirstConnect(c[1]) : s = <<f[1], f[2], "check">>
  BY DEF Started
<1>3. m \subseteq {"ap", "sta"}
  BY <1>2 DEF mode
<1>4. \A c \in configAP(m) : c[1] \subseteq {"ap", "sta"}
  BY <1>3 DEF configAP, enableAP, mode
<1>5. \A n : n \subseteq {"ap", "sta"} =>
        \A f \in FirstConnect(n) : f[1] \subseteq {"ap", "sta"} /\ Fresh(f[2])
  <2> SUFFICES ASSUME NEW n, n \subseteq {"ap", "sta"}, NEW f \in FirstConnect(n)
               PROVE  f[1] \subseteq {"ap", "sta"} /\ Fresh(f[2])
    OBVIOUS
  <2>1. PICK k \in enableSTA(n) : f \in {k} \X esp_wifi_connect(NoLink, k)
    BY DEF FirstConnect
  <2>2. f[1] = k /\ f[2] \in esp_wifi_connect(NoLink, k)
    BY <2>1
  <2>3. k \subseteq {"ap", "sta"}
    BY <2>1 DEF enableSTA, mode
  <2>4. Fresh(f[2])
    BY <1>1, <2>2, ConnectFits DEF Fresh, Fit
  <2>5. QED
    BY <2>2, <2>3, <2>4
<1>6. QED
  BY <1>1, <1>2, <1>4, <1>5

(* A fresh link weighs no more than one event. *)
LEMMA FreshFits ==
    ASSUME NEW l, Fresh(l)
    PROVE  Fit(l) /\ Weight(l) \in Nat /\ Weight(l) <= 1 /\ Len(l.events) = 0
<1>1. l \in Link /\ l.events = <<>> /\ Len(l.events) = 0
  BY DEF Fresh
<1>2. Fit(l)
  BY <1>1 DEF Fit, LastFits, GotipOver, LossBehind
<1>3. QED
  BY <1>1, <1>2, LinkType

(* The lock starts with the invariant, ... *)
LEMMA InitInv ==
    ASSUME Init
    PROVE  IInv
<1>1. PICK s \in Started(remote) : wmode = s[1] /\ link = s[2] /\ pc = s[3]
  BY DEF Init
<1>2. wmode \subseteq {"ap", "sta"} /\ Fresh(link) /\ pc \in {"check", "halted"}
  BY <1>1, StartedFresh DEF Init
<1>3. /\ Fit(link) /\ Weight(link) \in Nat /\ Weight(link) <= 1 /\ Len(link.events) = 0
      /\ link.drv \in Drv /\ link.timer \in BOOLEAN /\ link.stalled \in Ends
  BY <1>2, FreshFits, LinkType DEF Fit
<1>4. conAPcntr \in PauseOver .. Limit /\ conAPcntr > PauseOver
  BY Counter DEF Init
<1>5. Len(link.events) <= 2 * MaxEvents + 2
  BY <1>3, Counter
<1>6. Types
  BY <1>2, <1>3, <1>4, <1>5 DEF Types, TypeOK, Fit, Init, Drv
<1>7. FewEvents
  BY <1>3, <1>4, Counter DEF FewEvents
<1>8. Driven /\ Grounded
  BY <1>2 DEF Fresh, Driven, Grounded, OnConnected, Init
<1>9. QED
  BY <1>3, <1>6, <1>7, <1>8 DEF IInv, Fit

(* ... and so it does after a restart. *)
LEMMA RestartInv ==
    ASSUME IInv, Restart
    PROVE  IInv'
<1>1. PICK s \in Started(remote') : wmode' = s[1] /\ link' = s[2] /\ pc' = s[3]
  BY DEF Restart
<1>2. wmode' \subseteq {"ap", "sta"} /\ Fresh(link') /\ pc' \in {"check", "halted"}
  BY <1>1, StartedFresh DEF Restart
<1>3. Fit(link') /\ Weight(link') \in Nat /\ Weight(link') <= 1
  BY <1>2, FreshFits
<1>4. conAPcntr' \in PauseOver .. Limit
  BY Counter DEF Restart
<1>5. VarTypes'
  BY <1>2, <1>4, Parts DEF VarTypes, Restart, PauseOver, PauseFrom
<1>6. Weight(link') <= 2 * MaxEvents + 1
  BY <1>3, Counter
<1>7. Driven' /\ Grounded'
  BY <1>2 DEF Fresh, Driven, Grounded, OnConnected, Restart
<1>8. QED
  BY <1>3, <1>5, <1>6, <1>7, NoMore

-----------------------------------------------------------------------------
(* Every step keeps the invariant. *)
LEMMA NextInv ==
    ASSUME IInv, [Next]_vars
    PROVE  IInv'
<1>1. CASE loop
  BY <1>1, TryInv, LoopKeepsInv, LoopGivesInv, OnConnectedEndsInv DEF loop
<1>2. CASE Associate \/ GetIp \/ Disturbance
  BY <1>2, DriverInv, RestartInv DEF Disturbance
<1>3. CASE _eventCallback \/ scan_keys
  BY <1>3, EventInv, ClockInv
<1>4. CASE ConnectCommand \/ \E on \in BOOLEAN : EnableRemote(on) \/ NewSettings(on)
  BY <1>4, TryInv, LoopKeepsInv, NewSettingsInv
<1>5. CASE ApComesAndGoes \/ UNCHANGED vars
  BY <1>5, LoopKeepsInv
<1>6. QED
  BY <1>1, <1>2, <1>3, <1>4, <1>5 DEF Next

(* The invariant of the station link: each event in the queue fits what the
   driver did before and after it, what can still come of the queue is bounded,
   and whenever the queue is empty sta_connected_to_AP, sta_got_ip, sta_lost or
   loop() has left somebody to drive the link. *)
THEOREM StaLinkInvariant == Spec => []IInv
<1>1. Init => IInv
  BY InitInv
<1>2. IInv /\ [Next]_vars => IInv'
  BY NextInv
<1>3. QED
  BY <1>1, <1>2, PTL DEF Spec

(* Whatever the time limit, the pause and the number of events: when loop()
   looks at the counter, no event waits and no named way was taken to leave the
   link alone, an attempt is under way, a time is counted, or on_connected has
   run or will. *)
THEOREM SomebodyDrivesTheLink == Spec => []KeepsTrying
<1>1. IInv => KeepsTrying
  <2> SUFFICES ASSUME IInv
               PROVE  KeepsTrying
    OBVIOUS
  <2>1. Driven /\ TypeOK
    BY DEF IInv, Types
  <2>2. QED
    BY <2>1 DEF KeepsTrying, TypeOK, Driven, Counts, OnConnected
<1>2. QED
  BY <1>1, StaLinkInvariant, PTL

(* The flag the poller goes by says that the link is up only while it is, or
   while the event that takes it back waits, or after sta_lost ran inside the
   last on_connected. *)
THEOREM FlagIsHonest == Spec => []ConnectedHonest
<1>1. IInv => ConnectedHonest
  <2> SUFFICES ASSUME IInv, connected, ~raced
               PROVE  link.drv = "ip" \/ \E i \in 1 .. Len(link.events) : link.events[i] \in Losses
    BY DEF ConnectedHonest
  <2>1. Grounded /\ link.events \in Seq(EventName)
    BY Parts
  <2>2. link.drv = "ip" \/ Pending(link.events, Losses)
    BY <2>1 DEF Grounded
  <2>3. QED
    BY <2>1, <2>2 DEF Pending
<1>2. QED
  BY <1>1, StaLinkInvariant, PTL
=============================================================================
