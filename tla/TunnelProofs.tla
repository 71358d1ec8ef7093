----------------------------- MODULE TunnelProofs -----------------------------
(***************************************************************************)
(* The tun of the running VPN service is served, proved for any number of  *)
(* services, scopes, tuns and commands. The inductive invariant follows    *)
(* each service through the places of its handler thread and of its        *)
(* teardown task (ServiceVPN, ServiceVPNHandler, TunnelController).        *)
(***************************************************************************)
EXTENDS Tunnel, TLAPS

\* A mailbox holds each command once; the service waits to start or reload
\* while a command other than STOP is in it.
Commands == {"START", "RELOAD", "STOP"}
Once(box) == \A i, j \in 1..Len(box) : box[i] = box[j] => i = j
Waits(box) == \E i \in DOMAIN box : box[i] # "STOP"
Among(q, box) == \E i \in 1..Len(box) : box[i] = q

\* The two actors of a service: where each is, and what the handler does after
\* TunnelController.stop().
executor(s) == <<s, "executor">>
H(s) == at[handler(s)]
X(s) == at[executor(s)]
Then(s) == task[handler(s)]
Stopping == {"stopNative", "retire", "join"}

(* Types.                                                                     *)
ServiceTypes == /\ made \in 0..MaxServices /\ current \in 0..made
                /\ dying => current # None
BoxTypes == /\ DOMAIN mailbox = Services
            /\ \A s \in Services : mailbox[s] \in Seq(Commands) /\ Once(mailbox[s])
ActorTypes == DOMAIN at = Actors /\ DOMAIN task = Actors
TunTypes == /\ tuns \in Nat
            /\ vpn \in [Services -> 0..tuns] /\ prev \in [Services -> 0..tuns]
ControlTypes == /\ scope \in Controllers /\ controllerOf \in [Services -> Controllers]
                /\ DOMAIN loop = Controllers /\ DOMAIN bound = Controllers
TunnelTypeOK == ServiceTypes /\ BoxTypes /\ ActorTypes /\ TunTypes /\ ControlTypes

(* Where the two actors of a service can be while nothing is disturbed: only  *)
(* the handler of the current service works, and after the destroy only the   *)
(* executor.                                                                  *)
HandlerOK(s) ==
    /\ X(s) = "idle"
    /\ H(s) \in {"idle", "check", "establish", "handover", "startNative", "publish",
                 "swapped", "retry", "closed", "stopped"} \cup Stopping
    /\ H(s) \in Stopping =>
          \/ Then(s) = "closed" /\ vpn[s] # None
          \/ Then(s) = "swapped" /\ vpn[s] # None /\ prev[s] # None
          \/ Then(s) = "retry" /\ vpn[s] = None /\ prev[s] # None
    /\ H(s) \in {"startNative", "publish", "swapped"} => vpn[s] # None
    /\ H(s) \in {"establish", "retry", "stopped"} => vpn[s] = None
ExecutorOK(s) ==
    /\ H(s) \in {"idle", "check"} /\ mailbox[s] = <<>>
    /\ X(s) \in {"idle", "destroy", "destroyed"} \cup Stopping
    /\ X(s) \in Stopping => task[executor(s)] = "destroyed" /\ vpn[s] # None
    /\ X(s) = "idle" => vpn[s] = None
    /\ s > made => X(s) = "idle"
Local(s) == IF s = current THEN HandlerOK(s) ELSE ExecutorOK(s)

(* The tun that the loop of its controller holds for a service.               *)
Serving(s) ==
    IF s = current
    THEN \/ H(s) \in {"idle", "check", "handover", "publish"}
         \/ H(s) \in Stopping /\ Then(s) = "closed"
    ELSE X(s) \in {"destroy"} \cup Stopping
Swapping(s) == s = current /\ H(s) \in Stopping /\ Then(s) # "closed"
Held(s) == IF Serving(s) THEN vpn[s] ELSE IF Swapping(s) THEN prev[s] ELSE None

\* A loop reads the tun that its service holds, no loop reads anything else,
\* and no two services share a tun.
Holding == \A s \in Services : Held(s) # None => loop[controllerOf[s]] = Held(s)
Owned == \A c \in Controllers : loop[c] # None =>
            \E s \in Services : controllerOf[s] = c /\ Held(s) = loop[c]
Apart == \A s, r \in Services : s # r /\ vpn[s] # None =>
            vpn[s] # vpn[r] /\ (Swapping(r) => prev[r] # vpn[s])

(* A descriptor that is not with a loop yet.                                  *)
Unread(s) == /\ s = current
             /\ \/ H(s) \in {"startNative", "swapped"}
                \/ H(s) \in Stopping /\ Then(s) = "swapped"
Descriptors == pfd \subseteq {vpn[s] : s \in {r \in Services : Unread(r)}}

(* The current service, once its tun is read.                                 *)
Published(s) ==
    s = current /\ vpn[s] # None =>
       /\ H(s) \in {"idle", "check", "handover", "publish"} => bound[controllerOf[s]] = s
       /\ H(s) \in {"idle", "check", "handover"} => live = controllerOf[s]

(* The flag.                                                                  *)
StopPath(s) == H(s) \in {"closed", "stopped"} \/ (H(s) \in Stopping /\ Then(s) = "closed")
Retrying(s) == H(s) = "retry" \/ (H(s) \in Stopping /\ Then(s) = "retry")
FlagUp(s) ==
    s = current /\ ~dying /\ ~enabled =>
       /\ ~Retrying(s)
       /\ H(s) = "handover" => ~Among("RELOAD", mailbox[s])
       /\ vpn[s] # None /\ ~StopPath(s) =>
             /\ ~Among("RELOAD", mailbox[s])
             /\ H(s) \in {"startNative", "publish", "check"} \/ (H(s) = "idle" /\ Waits(mailbox[s]))
Posted == /\ posted \in {"none", "ahead"}
          /\ posted = "ahead" => \E s \in Services : s = current /\ (dying \/ StopPath(s))

\* The inductive invariant. Disturbed behaviours are the ones TunServed leaves
\* out; in every other one the core holds, between commands and in the middle
\* of them.
TunnelCore ==
    /\ \A s \in Services : Local(s) /\ Published(s) /\ FlagUp(s)
    /\ Holding /\ Owned /\ Apart /\ Descriptors /\ Posted
TunnelInv == TunnelTypeOK /\ (~disturbed => TunnelCore)
-----------------------------------------------------------------------------
(* The mailbox.                                                               *)
LEMMA RemoveFacts ==
    ASSUME NEW box \in Seq(Commands), Once(box), NEW cmd
    PROVE  /\ removeMessages(box, cmd) \in Seq(Commands)
           /\ Once(removeMessages(box, cmd))
           /\ \A q : Among(q, removeMessages(box, cmd)) <=> (Among(q, box) /\ q # cmd)
<1>0. DOMAIN box = 1..Len(box) /\ Len(box) \in Nat
  OBVIOUS
<1>1. CASE ~ \E i \in 1..Len(box) : box[i] = cmd
  <2>1. removeMessages(box, cmd) = box
    BY <1>1, Zenon DEF removeMessages
  <2> QED BY <1>1, <2>1, Zenon DEF Among
<1>2. CASE \E i \in 1..Len(box) : box[i] = cmd
  <2> DEFINE i == CHOOSE i \in 1..Len(box) : box[i] = cmd
             w == [k \in 1..(Len(box) - 1) |-> IF k < i THEN box[k] ELSE box[k + 1]]
             J(k) == IF k < i THEN k ELSE k + 1
  <2>1. i \in 1..Len(box) /\ box[i] = cmd
    BY <1>2, Zenon
  <2>2. removeMessages(box, cmd) = w
    BY <1>2, Zenon DEF removeMessages
  <2> HIDE DEF i
  <2>3. \A k \in 1..(Len(box) - 1) : J(k) \in 1..Len(box) /\ J(k) # i /\ w[k] = box[J(k)]
    BY <1>0, <2>1
  <2>4. \A k, l \in 1..(Len(box) - 1) : J(k) = J(l) => k = l
    BY <1>0, <2>1
  <2>5. \A m \in 1..Len(box) : m # i => \E k \in 1..(Len(box) - 1) : J(k) = m
    <3> SUFFICES ASSUME NEW m \in 1..Len(box), m # i
                 PROVE  \E k \in 1..(Len(box) - 1) : J(k) = m
      BY Zenon
    <3>1. CASE m < i
      <4>1. m \in 1..(Len(box) - 1) /\ J(m) = m
        BY <3>1, <1>0, <2>1
      <4> QED BY <4>1
    <3>2. CASE ~(m < i)
      <4>1. m - 1 \in 1..(Len(box) - 1) /\ J(m - 1) = m
        BY <3>2, <1>0, <2>1
      <4> QED BY <4>1
    <3> QED BY <3>1, <3>2
  <2>6. Len(box) - 1 \in Nat /\ \A k \in 1..Len(box) : box[k] \in Commands
    BY <1>0, <2>1
  <2> HIDE DEF J
  <2>7. w \in [1..(Len(box) - 1) -> Commands]
    BY <2>3, <2>6
  <2> HIDE DEF w
  <2>8. w \in Seq(Commands) /\ Len(w) = Len(box) - 1
    BY <2>6, <2>7
  <2>9. Once(w)
    <3> SUFFICES ASSUME NEW k \in 1..Len(w), NEW l \in 1..Len(w), w[k] = w[l] PROVE k = l
      BY Zenon DEF Once
    <3>1. k \in 1..(Len(box) - 1) /\ l \in 1..(Len(box) - 1)
      BY <2>8, Zenon
    <3>2. J(k) = J(l)
      BY <3>1, <2>3, Zenon DEF Once
    <3> QED BY <3>1, <3>2, <2>4, Zenon
  <2>10. ASSUME NEW q, Among(q, w) PROVE Among(q, box) /\ q # cmd
    <3>1. PICK k \in 1..(Len(box) - 1) : w[k] = q
      BY <2>8, <2>10, Zenon DEF Among
    <3>2. J(k) \in 1..Len(box) /\ J(k) # i /\ box[J(k)] = q
      BY <3>1, <2>3, Zenon
    <3> QED BY <3>2, <2>1, Zenon DEF Among, Once
  <2>11. ASSUME NEW q, Among(q, box), q # cmd PROVE Among(q, w)
    <3>1. PICK m \in 1..Len(box) : box[m] = q
      BY <2>11, Zenon DEF Among
    <3>2. m # i
      BY <3>1, <2>1, <2>11, Zenon
    <3>3. PICK k \in 1..(Len(box) - 1) : J(k) = m
      BY <3>2, <2>5, Zenon
    <3>4. w[k] = q
      BY <3>1, <3>3, <2>3, Zenon
    <3> QED BY <3>4, <2>8, Zenon DEF Among
  <2> QED BY <2>2, <2>8, <2>9, <2>10, <2>11, Zenon
<1> QED BY <1>1, <1>2, Zenon

LEMMA AppendFacts ==
    ASSUME NEW box \in Seq(Commands), Once(box), NEW cmd \in Commands, ~Among(cmd, box)
    PROVE  /\ Append(box, cmd) \in Seq(Commands) /\ Once(Append(box, cmd))
           /\ \A q : Among(q, Append(box, cmd)) <=> (Among(q, box) \/ q = cmd)
<1> DEFINE a == Append(box, cmd)
<1>1. /\ a \in Seq(Commands) /\ Len(a) = Len(box) + 1 /\ a[Len(box) + 1] = cmd
      /\ \A k \in 1..Len(box) : a[k] = box[k]
      /\ Len(box) \in Nat
  OBVIOUS
<1> HIDE DEF a
<1>2. /\ Len(box) + 1 \in 1..Len(a) /\ \A k \in 1..Len(box) : k \in 1..Len(a)
      /\ \A k \in 1..Len(a) : k \in 1..Len(box) \/ k = Len(box) + 1
  BY <1>1
<1>3. Once(a)
  <2> SUFFICES ASSUME NEW k \in 1..Len(a), NEW l \in 1..Len(a), a[k] = a[l] PROVE k = l
    BY Zenon DEF Once
  <2>1. CASE k \in 1..Len(box) /\ l \in 1..Len(box)
    BY <2>1, <1>1, Zenon DEF Once
  <2>2. CASE k = Len(box) + 1 /\ l = Len(box) + 1
    BY <2>2, Zenon
  <2>3. CASE k = Len(box) + 1 /\ l \in 1..Len(box)
    BY <2>3, <1>1, Zenon DEF Among
  <2>4. CASE l = Len(box) + 1 /\ k \in 1..Len(box)
    BY <2>4, <1>1, Zenon DEF Among
  <2> QED BY <2>1, <2>2, <2>3, <2>4, <1>2, Zenon
<1>4. ASSUME NEW q PROVE Among(q, a) <=> (Among(q, box) \/ q = cmd)
  <2>1. Among(q, a) => Among(q, box) \/ q = cmd
    BY <1>1, <1>2, Zenon DEF Among
  <2>2. Among(q, box) => Among(q, a)
    BY <1>1, <1>2, Zenon DEF Among
  <2>3. Among(cmd, a)
    BY <1>1, <1>2, Zenon DEF Among
  <2> QED BY <2>1, <2>2, <2>3, Zenon
<1> QED BY <1>1, <1>3, <1>4, Zenon DEF a

LEMMA QueueFacts ==
    ASSUME NEW box \in Seq(Commands), Once(box), NEW cmd \in Commands
    PROVE  /\ queue(box, cmd) \in Seq(Commands) /\ Once(queue(box, cmd))
           /\ \A q : Among(q, queue(box, cmd)) <=>
                        \/ q = cmd
                        \/ Among(q, box) /\ (cmd = "STOP" \/ q # "STOP")
<1>1. CASE cmd = "STOP"
  <2> DEFINE b == removeMessages(box, "STOP")
  <2>1. b \in Seq(Commands) /\ Once(b) /\ \A q : Among(q, b) <=> (Among(q, box) /\ q # "STOP")
    BY RemoveFacts, Zenon
  <2>2. queue(box, cmd) = Append(b, cmd)
    BY <1>1, Zenon DEF queue
  <2> HIDE DEF b
  <2>3. ~Among(cmd, b)
    BY <1>1, <2>1, Zenon
  <2>4. /\ Append(b, cmd) \in Seq(Commands) /\ Once(Append(b, cmd))
        /\ \A q : Among(q, Append(b, cmd)) <=> (Among(q, b) \/ q = cmd)
    BY <2>1, <2>3, AppendFacts, Zenon
  <2> QED BY <1>1, <2>1, <2>2, <2>4, Zenon
<1>2. CASE cmd # "STOP"
  <2> DEFINE b == removeMessages(box, "STOP")
             e == removeMessages(b, cmd)
  <2>1. b \in Seq(Commands) /\ Once(b) /\ \A q : Among(q, b) <=> (Among(q, box) /\ q # "STOP")
    BY RemoveFacts, Zenon
  <2>2. queue(box, cmd) = Append(e, cmd)
    BY <1>2, Zenon DEF queue
  <2> HIDE DEF b
  <2>3. e \in Seq(Commands) /\ Once(e) /\ \A q : Among(q, e) <=> (Among(q, b) /\ q # cmd)
    BY <2>1, RemoveFacts, Zenon
  <2> HIDE DEF e
  <2>4. ~Among(cmd, e)
    BY <2>3, Zenon
  <2>5. /\ Append(e, cmd) \in Seq(Commands) /\ Once(Append(e, cmd))
        /\ \A q : Among(q, Append(e, cmd)) <=> (Among(q, e) \/ q = cmd)
    BY <2>3, <2>4, AppendFacts, Zenon
  <2> QED BY <1>2, <2>1, <2>2, <2>3, <2>5, Zenon
<1> QED BY <1>1, <1>2, Zenon

LEMMA HeadFacts ==
    ASSUME NEW box \in Seq(Commands), Once(box), box # <<>>
    PROVE  /\ Tail(box) \in Seq(Commands) /\ Once(Tail(box))
           /\ Head(box) \in Commands /\ Among(Head(box), box)
           /\ \A q : Among(q, Tail(box)) <=> (Among(q, box) /\ q # Head(box))
<1> DEFINE t == Tail(box)
<1>1. /\ t \in Seq(Commands) /\ Len(t) = Len(box) - 1 /\ Head(box) = box[1]
      /\ Head(box) \in Commands /\ 1 \in 1..Len(box) /\ Len(box) \in Nat
      /\ \A k \in 1..Len(t) : t[k] = box[k + 1]
  OBVIOUS
<1> HIDE DEF t
<1>2. /\ \A k \in 1..Len(t) : k + 1 \in 1..Len(box) /\ k + 1 # 1
      /\ \A k, l \in 1..Len(t) : k + 1 = l + 1 => k = l
      /\ \A m \in 1..Len(box) : m # 1 => m - 1 \in 1..Len(t) /\ (m - 1) + 1 = m
  BY <1>1
<1>3. Once(t)
  <2> SUFFICES ASSUME NEW k \in 1..Len(t), NEW l \in 1..Len(t), t[k] = t[l] PROVE k = l
    BY Zenon DEF Once
  <2>1. box[k + 1] = box[l + 1]
    BY <1>1, Zenon
  <2>2. k + 1 = l + 1
    BY <2>1, <1>2, Zenon DEF Once
  <2> QED BY <2>2, <1>2, Zenon
<1>4. ASSUME NEW q, Among(q, t) PROVE Among(q, box) /\ q # Head(box)
  <2>1. PICK k \in 1..Len(t) : t[k] = q
    BY <1>4, Zenon DEF Among
  <2>2. box[k + 1] = q /\ k + 1 \in 1..Len(box) /\ k + 1 # 1
    BY <2>1, <1>1, <1>2, Zenon
  <2> QED BY <2>2, <1>1, Zenon DEF Among, Once
<1>5. ASSUME NEW q, Among(q, box), q # Head(box) PROVE Among(q, t)
  <2>1. PICK m \in 1..Len(box) : box[m] = q
    BY <1>5, Zenon DEF Among
  <2>2. m # 1
    BY <2>1, <1>1, <1>5, Zenon
  <2>3. t[m - 1] = q /\ m - 1 \in 1..Len(t)
    <3>1. m - 1 \in 1..Len(t) /\ (m - 1) + 1 = m
      BY <2>2, <1>2, Zenon
    <3>2. t[m - 1] = box[(m - 1) + 1]
      BY <3>1, <1>1, Zenon
    <3> QED BY <3>1, <3>2, <2>1, Zenon
  <2> QED BY <2>3, Zenon DEF Among
<1>6. Among(Head(box), box)
  BY <1>1, Zenon DEF Among
<1> QED BY <1>1, <1>3, <1>4, <1>5, <1>6, Zenon DEF t

LEMMA WaitsIs ==
    ASSUME NEW box \in Seq(Commands)
    PROVE  Waits(box) <=> (Among("START", box) \/ Among("RELOAD", box))
<1>1. DOMAIN box = 1..Len(box) /\ \A i \in 1..Len(box) : box[i] \in Commands
  OBVIOUS
<1>2. ASSUME Waits(box) PROVE Among("START", box) \/ Among("RELOAD", box)
  BY <1>1, <1>2, Zenon DEF Waits, Among, Commands
<1>3. ASSUME Among("START", box) PROVE Waits(box)
  BY <1>1, <1>3 DEF Waits, Among
<1>4. ASSUME Among("RELOAD", box) PROVE Waits(box)
  BY <1>1, <1>4 DEF Waits, Among
<1> QED BY <1>2, <1>3, <1>4, Zenon
-----------------------------------------------------------------------------
(* One service moves, the others stay as they are.                            *)
Same(r) == /\ H(r)' = H(r) /\ X(r)' = X(r)
           /\ Then(r)' = Then(r) /\ task'[executor(r)] = task[executor(r)]
           /\ vpn'[r] = vpn[r] /\ prev'[r] = prev[r] /\ mailbox'[r] = mailbox[r]
Beside(s) == /\ current' = current /\ made' = made /\ controllerOf' = controllerOf
             /\ \A r \in Services : r # s => Same(r)

LEMMA ActorFacts ==
    /\ \A s \in Services : handler(s) \in Actors /\ executor(s) \in Actors
    /\ \A s, r : handler(s) # executor(r)
    /\ \A s, r : s # r => handler(s) # handler(r) /\ executor(s) # executor(r)
    /\ \A a \in Actors : a[1] \in Services /\ (a = handler(a[1]) \/ a = executor(a[1]))
BY DEF handler, executor, Actors

LEMMA SameKeeps ==
    ASSUME NEW r \in Services, Same(r), current' = current, made' = made
    PROVE  /\ Local(r) => Local(r)'
           /\ Serving(r)' <=> Serving(r)
           /\ Swapping(r)' <=> Swapping(r)
           /\ Unread(r)' <=> Unread(r)
           /\ Held(r)' = Held(r)
<1>1. Local(r) => Local(r)'
  BY Zenon DEF Same, Local, HandlerOK, ExecutorOK
<1>2. Serving(r)' <=> Serving(r)
  BY Zenon DEF Same, Serving
<1>3. Swapping(r)' <=> Swapping(r)
  BY Zenon DEF Same, Swapping
<1>4. Unread(r)' <=> Unread(r)
  BY Zenon DEF Same, Unread
<1>5. Held(r)' = Held(r)
  BY <1>2, <1>3, Zenon DEF Same, Held
<1> QED BY <1>1, <1>2, <1>3, <1>4, <1>5, Zenon

LEMMA HeldApart ==
    ASSUME Apart, NEW s \in Services, NEW r \in Services, s # r, Held(s) # None
    PROVE  Held(s) # Held(r)
<1>1. CASE Serving(s) /\ Serving(r)
  BY <1>1, Zenon DEF Held, Apart
<1>2. CASE Serving(s) /\ ~Serving(r) /\ Swapping(r)
  BY <1>2, Zenon DEF Held, Apart
<1>3. CASE ~Serving(s) /\ Swapping(s) /\ Serving(r)
  <2>1. Held(s) = prev[s] /\ Held(r) = vpn[r]
    BY <1>3, Zenon DEF Held
  <2> QED BY <2>1, <1>3, Zenon DEF Apart
<1>4. CASE Swapping(s) /\ Swapping(r)
  BY <1>4, Zenon DEF Swapping
<1>5. CASE ~Serving(r) /\ ~Swapping(r)
  BY <1>5, Zenon DEF Held
<1>6. CASE ~Serving(s) /\ ~Swapping(s)
  BY <1>6, Zenon DEF Held
<1> QED BY <1>1, <1>2, <1>3, <1>4, <1>5, <1>6, Zenon

(* What the loop of its controller does when a service moves: nothing, it     *)
(* starts to read the service's tun, or it ends.                              *)
LoopMoves(s) ==
    \/ loop' = loop /\ Held(s)' = Held(s)
    \/ /\ loop[controllerOf[s]] = None /\ Held(s)' # None
       /\ loop' = [loop EXCEPT ![controllerOf[s]] = Held(s)']
    \/ /\ Held(s) # None /\ Held(s)' = None
       /\ loop' = [loop EXCEPT ![controllerOf[s]] = None]

LEMMA LoopKeeps ==
    ASSUME TunnelTypeOK, TunnelCore, NEW s \in Services, Beside(s), LoopMoves(s)
    PROVE  Holding' /\ Owned'
<1> DEFINE c == controllerOf[s]
<1>1. /\ controllerOf' = controllerOf
      /\ \A r \in Services : r # s => Held(r)' = Held(r)
      /\ \A r \in Services : controllerOf[r] \in Controllers
      /\ DOMAIN loop = Controllers /\ Holding /\ Owned /\ Apart
  <2>1. controllerOf \in [Services -> Controllers] /\ DOMAIN loop = Controllers
    BY Zenon DEF TunnelTypeOK, ControlTypes
  <2> QED BY <2>1, SameKeeps, Zenon DEF Beside, TunnelCore
<1> HIDE DEF c
<1>2. CASE loop' = loop /\ Held(s)' = Held(s)
  <2>1. \A r \in Services : Held(r)' = Held(r)
    BY <1>1, <1>2, Zenon
  <2>2. Holding'
    BY <1>1, <1>2, <2>1, Zenon DEF Holding
  <2>3. ASSUME NEW d \in Controllers, loop'[d] # None
        PROVE  \E r \in Services : controllerOf'[r] = d /\ Held(r)' = loop'[d]
    <3>1. PICK r \in Services : controllerOf[r] = d /\ Held(r) = loop[d]
      BY <1>1, <1>2, <2>3, Zenon DEF Owned
    <3>2. controllerOf'[r] = d /\ Held(r)' = loop'[d]
      BY <3>1, <1>1, <1>2, <2>1, Zenon
    <3> QED BY <3>2, Zenon
  <2> QED BY <2>2, <2>3, Zenon DEF Owned
<1>3. CASE /\ loop[c] = None /\ Held(s)' # None
           /\ loop' = [loop EXCEPT ![c] = Held(s)']
  <2>1. c \in Controllers /\ loop'[c] = Held(s)'
        /\ \A d \in Controllers : d # c => loop'[d] = loop[d]
    BY <1>1, <1>3, Zenon DEF c
  <2>2. ASSUME NEW r \in Services, Held(r)' # None PROVE loop'[controllerOf'[r]] = Held(r)'
    <3>1. CASE r = s
      BY <3>1, <2>1, <1>1, Zenon DEF c
    <3>2. CASE r # s
      <4>1. Held(r)' = Held(r) /\ loop[controllerOf[r]] = Held(r) /\ Held(r) # None
        BY <2>2, <3>2, <1>1, Zenon DEF Holding
      <4>2. controllerOf[r] # c
        BY <4>1, <1>3, Zenon
      <4> QED BY <4>1, <4>2, <2>1, <1>1, Zenon
    <3> QED BY <3>1, <3>2, Zenon
  <2>3. ASSUME NEW d \in Controllers, loop'[d] # None
        PROVE  \E r \in Services : controllerOf'[r] = d /\ Held(r)' = loop'[d]
    <3>1. CASE d = c
      BY <3>1, <2>1, <1>1, Zenon DEF c
    <3>2. CASE d # c
      <4>1. PICK r \in Services : controllerOf[r] = d /\ Held(r) = loop[d]
        BY <2>3, <3>2, <2>1, <1>1, Zenon DEF Owned
      <4>2. r # s
        BY <4>1, <3>2, Zenon DEF c
      <4> QED BY <4>1, <4>2, <3>2, <2>1, <1>1, Zenon
    <3> QED BY <3>1, <3>2, Zenon
  <2> QED BY <2>2, <2>3, Zenon DEF Holding, Owned
<1>4. CASE /\ Held(s) # None /\ Held(s)' = None
           /\ loop' = [loop EXCEPT ![c] = None]
  <2>1. c \in Controllers /\ loop'[c] = None
        /\ \A d \in Controllers : d # c => loop'[d] = loop[d]
    BY <1>1, <1>4, Zenon DEF c
  <2>2. ASSUME NEW r \in Services, Held(r)' # None PROVE loop'[controllerOf'[r]] = Held(r)'
    <3>1. r # s
      BY <2>2, <1>4, Zenon
    <3>2. Held(r)' = Held(r) /\ loop[controllerOf[r]] = Held(r) /\ Held(r) # None
      BY <2>2, <3>1, <1>1, Zenon DEF Holding
    <3>3. loop[c] = Held(s) /\ Held(s) # Held(r)
      BY <3>1, <1>1, <1>4, HeldApart, Zenon DEF Holding, c
    <3>4. controllerOf[r] # c
      BY <3>2, <3>3, Zenon
    <3> QED BY <3>2, <3>4, <2>1, <1>1, Zenon
  <2>3. ASSUME NEW d \in Controllers, loop'[d] # None
        PROVE  \E r \in Services : controllerOf'[r] = d /\ Held(r)' = loop'[d]
    <3>1. d # c
      BY <2>1, <2>3, Zenon
    <3>2. PICK r \in Services : controllerOf[r] = d /\ Held(r) = loop[d]
      BY <2>3, <3>1, <2>1, <1>1, Zenon DEF Owned
    <3>3. r # s
      BY <3>1, <3>2, Zenon DEF c
    <3> QED BY <3>1, <3>2, <3>3, <2>1, <1>1, Zenon
  <2> QED BY <2>2, <2>3, Zenon DEF Holding, Owned
<1> QED BY <1>2, <1>3, <1>4, Zenon DEF LoopMoves, c

(* A tun is new or was its own service's before.                              *)
TunMoves(s) ==
    /\ vpn'[s] = vpn[s] \/ vpn'[s] = None \/ vpn'[s] = tuns + 1
    /\ Swapping(s)' => prev'[s] = vpn[s] \/ (Swapping(s) /\ prev'[s] = prev[s])

LEMMA ApartKeeps ==
    ASSUME TunnelTypeOK, TunnelCore, NEW s \in Services, Beside(s), TunMoves(s)
    PROVE  Apart'
<1>1. tuns \in Nat /\ \A r \in Services : vpn[r] \in 0..tuns /\ prev[r] \in 0..tuns
  BY Zenon DEF TunnelTypeOK, TunTypes
<1>2. \A r \in Services : vpn[r] # tuns + 1 /\ prev[r] # tuns + 1
  BY <1>1
<1>3. Apart
  BY Zenon DEF TunnelCore
<1>4. \A r \in Services : r # s =>
        vpn'[r] = vpn[r] /\ prev'[r] = prev[r] /\ (Swapping(r)' <=> Swapping(r))
  BY SameKeeps, Zenon DEF Beside, Same
<1>5. ASSUME NEW r \in Services, r # s, vpn'[s] # None
      PROVE  vpn'[s] # vpn'[r] /\ (Swapping(r)' => prev'[r] # vpn'[s])
  <2>1. CASE vpn'[s] = vpn[s]
    BY <1>3, <1>4, <1>5, <2>1, Zenon DEF Apart
  <2>2. CASE vpn'[s] = tuns + 1
    BY <1>2, <1>4, <1>5, <2>2, Zenon
  <2> QED BY <2>1, <2>2, <1>5, Zenon DEF TunMoves
<1>6. ASSUME NEW r \in Services, r # s, vpn'[r] # None
      PROVE  vpn'[r] # vpn'[s] /\ (Swapping(s)' => prev'[s] # vpn'[r])
  <2>1. vpn'[r] # vpn'[s]
    BY <1>5, <1>6, Zenon
  <2>2. vpn[r] # None /\ vpn'[r] = vpn[r] /\ vpn[r] # vpn[s] /\ (Swapping(s) => prev[s] # vpn[r])
    BY <1>3, <1>4, <1>6, Zenon DEF Apart
  <2>3. Swapping(s)' => prev'[s] # vpn'[r]
    BY <2>2, Zenon DEF TunMoves
  <2> QED BY <2>1, <2>3, Zenon
<1>7. ASSUME NEW q \in Services, NEW r \in Services, q # r, q # s, r # s, vpn'[q] # None
      PROVE  vpn'[q] # vpn'[r] /\ (Swapping(r)' => prev'[r] # vpn'[q])
  BY <1>3, <1>4, <1>7, Zenon DEF Apart
<1> QED BY <1>5, <1>6, <1>7, Zenon DEF Apart
-----------------------------------------------------------------------------
(* Where the actors go.                                                       *)
ActorsBeside(s) ==
    \A r \in Services : r # s => /\ H(r)' = H(r) /\ X(r)' = X(r)
                                 /\ Then(r)' = Then(r)
                                 /\ task'[executor(r)] = task[executor(r)]

LEMMA HandlerGoes ==
    ASSUME TunnelTypeOK, NEW s \in Services, NEW p, goto(handler(s), p)
    PROVE  /\ H(s)' = p /\ X(s)' = X(s) /\ Then(s)' = Then(s)
           /\ task'[executor(s)] = task[executor(s)]
           /\ ActorsBeside(s) /\ ActorTypes'
<1>1. at' = [at EXCEPT ![handler(s)] = p] /\ task' = task /\ DOMAIN at = Actors /\ DOMAIN task = Actors
  BY Zenon DEF goto, TunnelTypeOK, ActorTypes
<1>2. at'[handler(s)] = p /\ DOMAIN at' = Actors
  BY <1>1, ActorFacts, Zenon
<1>3. \A b \in Actors : b # handler(s) => at'[b] = at[b]
  BY <1>1, Zenon
<1> QED BY <1>1, <1>2, <1>3, ActorFacts, Zenon DEF H, X, Then, ActorsBeside, ActorTypes

LEMMA ExecutorGoes ==
    ASSUME TunnelTypeOK, NEW s \in Services, NEW p, goto(executor(s), p)
    PROVE  /\ X(s)' = p /\ H(s)' = H(s) /\ Then(s)' = Then(s)
           /\ task'[executor(s)] = task[executor(s)]
           /\ ActorsBeside(s) /\ ActorTypes'
<1>1. at' = [at EXCEPT ![executor(s)] = p] /\ task' = task /\ DOMAIN at = Actors /\ DOMAIN task = Actors
  BY Zenon DEF goto, TunnelTypeOK, ActorTypes
<1>2. at'[executor(s)] = p /\ DOMAIN at' = Actors
  BY <1>1, ActorFacts, Zenon
<1>3. \A b \in Actors : b # executor(s) => at'[b] = at[b]
  BY <1>1, Zenon
<1> QED BY <1>1, <1>2, <1>3, ActorFacts, Zenon DEF H, X, Then, ActorsBeside, ActorTypes

LEMMA HandlerStops ==
    ASSUME TunnelTypeOK, NEW s \in Services, NEW n, callStop(handler(s), n)
    PROVE  /\ H(s)' = "stopNative" /\ X(s)' = X(s) /\ Then(s)' = n
           /\ task'[executor(s)] = task[executor(s)]
           /\ ActorsBeside(s) /\ ActorTypes'
<1>1. /\ at' = [at EXCEPT ![handler(s)] = "stopNative"] /\ task' = [task EXCEPT ![handler(s)] = n]
      /\ DOMAIN at = Actors /\ DOMAIN task = Actors
  BY Zenon DEF callStop, TunnelTypeOK, ActorTypes
<1>2. at'[handler(s)] = "stopNative" /\ DOMAIN at' = Actors
      /\ task'[handler(s)] = n /\ DOMAIN task' = Actors
  BY <1>1, ActorFacts, Zenon
<1>3. \A b \in Actors : b # handler(s) => at'[b] = at[b] /\ task'[b] = task[b]
  BY <1>1, Zenon
<1> QED BY <1>2, <1>3, ActorFacts, Zenon DEF H, X, Then, ActorsBeside, ActorTypes

LEMMA ExecutorStops ==
    ASSUME TunnelTypeOK, NEW s \in Services, NEW n, callStop(executor(s), n)
    PROVE  /\ X(s)' = "stopNative" /\ H(s)' = H(s) /\ Then(s)' = Then(s)
           /\ task'[executor(s)] = n
           /\ ActorsBeside(s) /\ ActorTypes'
<1>1. /\ at' = [at EXCEPT ![executor(s)] = "stopNative"] /\ task' = [task EXCEPT ![executor(s)] = n]
      /\ DOMAIN at = Actors /\ DOMAIN task = Actors
  BY Zenon DEF callStop, TunnelTypeOK, ActorTypes
<1>2. at'[executor(s)] = "stopNative" /\ DOMAIN at' = Actors
      /\ task'[executor(s)] = n /\ DOMAIN task' = Actors
  BY <1>1, ActorFacts, Zenon
<1>3. \A b \in Actors : b # executor(s) => at'[b] = at[b] /\ task'[b] = task[b]
  BY <1>1, Zenon
<1> QED BY <1>2, <1>3, ActorFacts, Zenon DEF H, X, Then, ActorsBeside, ActorTypes

(* The steps of the current service's handler, put together.                  *)
LEMMA HandlerStep ==
    ASSUME TunnelTypeOK, TunnelCore, NEW s \in Services, s = current, Beside(s),
           HandlerOK(s)', LoopMoves(s), TunMoves(s), Published(s)', FlagUp(s)',
           pfd' \subseteq (IF Unread(s)' THEN {vpn'[s]} ELSE {}), Posted'
    PROVE  TunnelCore'
<1>1. Holding' /\ Owned' /\ Apart'
  BY LoopKeeps, ApartKeeps, Zenon
<1>2. current' = s
  BY Zenon DEF Beside
<1>3. \A r \in Services : Published(r)' /\ FlagUp(r)'
  BY <1>2, Zenon DEF Published, FlagUp
<1>4. \A r \in Services : Local(r)'
  <2>1. \A r \in Services : r # s => Local(r)'
    BY SameKeeps, Zenon DEF Beside, TunnelCore
  <2>2. Local(s)'
    BY <1>2, Zenon DEF Local
  <2> QED BY <2>1, <2>2, Zenon
<1>5. Descriptors'
  BY Zenon DEF Descriptors
<1> QED BY <1>1, <1>3, <1>4, <1>5, Zenon DEF TunnelCore

(* The steps of another service's executor.                                   *)
Reads(r) == r = current /\ vpn[r] # None /\ H(r) \in {"idle", "check", "handover", "publish"}
LEMMA ExecutorStep ==
    ASSUME TunnelTypeOK, TunnelCore, NEW s \in Services, s # current, Beside(s),
           ExecutorOK(s)', LoopMoves(s), TunMoves(s),
           enabled' <=> enabled, dying' <=> dying, UNCHANGED posted, pfd' \subseteq pfd,
           \A r \in Services : Reads(r) => /\ bound'[controllerOf[r]] = bound[controllerOf[r]]
                                           /\ live = controllerOf[r] => live' = live
    PROVE  TunnelCore'
<1>1. Holding' /\ Owned' /\ Apart'
  BY LoopKeeps, ApartKeeps, Zenon
<1>2. current' = current /\ controllerOf' = controllerOf
      /\ \A r \in Services : r # s => Same(r)
  BY Zenon DEF Beside
<1>3. ASSUME NEW r \in Services PROVE Published(r)' /\ FlagUp(r)'
  <2>1. CASE r = s
    BY <2>1, <1>2, Zenon DEF Published, FlagUp
  <2>2. CASE r # s
    <3>1. Same(r) /\ Published(r) /\ FlagUp(r)
      BY <2>2, <1>2, Zenon DEF TunnelCore
    <3>2. FlagUp(r)'
      BY <3>1, <1>2, Zenon DEF Same, FlagUp, Retrying, StopPath
    <3>3. Published(r)'
      BY <3>1, <1>2, Zenon DEF Same, Published, Reads
    <3> QED BY <3>2, <3>3, Zenon
  <2> QED BY <2>1, <2>2, Zenon
<1>4. \A r \in Services : Local(r)'
  <2>1. \A r \in Services : r # s => Local(r)'
    BY <1>2, SameKeeps, Zenon DEF Beside, TunnelCore
  <2>2. Local(s)'
    BY <1>2, Zenon DEF Local
  <2> QED BY <2>1, <2>2, Zenon
<1>5. Descriptors'
  <2> SUFFICES ASSUME NEW t \in pfd' PROVE \E r \in Services : Unread(r)' /\ t = vpn'[r]
    BY Zenon DEF Descriptors
  <2>1. PICK r \in Services : Unread(r) /\ t = vpn[r]
    BY Zenon DEF TunnelCore, Descriptors
  <2>2. r # s
    BY <2>1, Zenon DEF Unread
  <2>3. Unread(r)' /\ vpn'[r] = vpn[r]
    BY <2>1, <2>2, <1>2, SameKeeps, Zenon DEF Beside, Same
  <2> QED BY <2>1, <2>3, Zenon
<1>6. Posted'
  <2>1. Posted /\ posted' = posted /\ (dying' <=> dying)
    BY Zenon DEF TunnelCore
  <2>2. ASSUME posted' = "ahead" PROVE \E r \in Services : r = current' /\ (dying' \/ StopPath(r)')
    <3>1. PICK r \in Services : r = current /\ (dying \/ StopPath(r))
      BY <2>1, <2>2, Zenon DEF Posted
    <3>2. Same(r)
      BY <3>1, <1>2, Zenon
    <3>3. StopPath(r) => StopPath(r)'
      BY <3>2, Zenon DEF Same, StopPath
    <3>4. dying => dying'
      BY <2>1
    <3>5. r = current'
      BY <3>1, <1>2, Zenon
    <3> QED BY <3>1, <3>3, <3>4, <3>5, Zenon
  <2> QED BY <2>1, <2>2, Zenon DEF Posted
<1> QED BY <1>1, <1>3, <1>4, <1>5, <1>6, Zenon DEF TunnelCore
-----------------------------------------------------------------------------
(* Type correctness, disturbed or not.                                        *)
TunnelConstants == MaxServices \in Nat /\ MaxScopes \in Nat /\ MaxScopes >= 1

LEMMA CurrentService ==
    ASSUME TunnelConstants, TunnelTypeOK
    PROVE  /\ current # None => current \in Services
           /\ made < MaxServices => made + 1 \in Services
           /\ current # made + 1 /\ ~(current > made)
           /\ \A s \in Services : s # None
BY DEF TunnelConstants, TunnelTypeOK, ServiceTypes, Services, None

LEMMA ReceiveTypes ==
    ASSUME TunnelConstants, TunnelTypeOK, NEW cmd \in Commands, receive(cmd), scope' \in Controllers
    PROVE  TunnelTypeOK'
<1> DEFINE s == IF current = None THEN made + 1 ELSE current
<1>1. s \in Services
  BY CurrentService, Zenon DEF receive
<1>2. /\ current' = s /\ made' = IF current = None THEN s ELSE made
      /\ controllerOf' = IF current = None THEN [controllerOf EXCEPT ![s] = scope'] ELSE controllerOf
      /\ mailbox' = [mailbox EXCEPT ![s] = queue(mailbox[s], cmd)]
      /\ UNCHANGED <<dying, at, task, vpn, prev, tuns, pfd, loop, bound>> /\ ~dying
  BY Zenon DEF receive, actorVars, tunVars
<1>3. ServiceTypes'
  BY <1>1, <1>2 DEF TunnelConstants, TunnelTypeOK, ServiceTypes, Services, None
<1> HIDE DEF s
<1>4. BoxTypes'
  <2>1. mailbox[s] \in Seq(Commands) /\ Once(mailbox[s]) /\ DOMAIN mailbox = Services
    BY <1>1, Zenon DEF TunnelTypeOK, BoxTypes
  <2>2. queue(mailbox[s], cmd) \in Seq(Commands) /\ Once(queue(mailbox[s], cmd))
    BY <2>1, QueueFacts, Zenon
  <2>3. DOMAIN mailbox' = Services
    BY <2>1, <1>2, Zenon
  <2>4. ASSUME NEW r \in Services PROVE mailbox'[r] \in Seq(Commands) /\ Once(mailbox'[r])
    <3>1. CASE r = s
      <4>1. mailbox'[r] = queue(mailbox[s], cmd)
        BY <3>1, <2>1, <1>2, Zenon
      <4> QED BY <4>1, <2>2, Zenon
    <3>2. CASE r # s
      <4>1. mailbox'[r] = mailbox[r]
        BY <3>2, <2>1, <1>2, Zenon
      <4> QED BY <4>1, Zenon DEF TunnelTypeOK, BoxTypes
    <3> QED BY <3>1, <3>2, Zenon
  <2> QED BY <2>3, <2>4, Zenon DEF BoxTypes
<1>5. controllerOf' \in [Services -> Controllers]
  <2>1. controllerOf \in [Services -> Controllers]
    BY Zenon DEF TunnelTypeOK, ControlTypes
  <2>2. [controllerOf EXCEPT ![s] = scope'] \in [Services -> Controllers]
    BY <2>1, Zenon
  <2> QED BY <2>1, <2>2, <1>2, Zenon
<1>6. ControlTypes' /\ TunTypes' /\ ActorTypes'
  BY <1>2, <1>5, Zenon DEF TunnelTypeOK, ControlTypes, TunTypes, ActorTypes
<1> QED BY <1>3, <1>4, <1>6, Zenon DEF TunnelTypeOK

\* The main thread: intents, the destroy of a service, a new scope, the posted
\* write.
LEMMA MainTypes ==
    ASSUME TunnelConstants, TunnelTypeOK,
           \/ startVpnService \/ reloadVpnService \/ stopVpnService \/ alwaysOnIntent
           \/ onRevoke \/ onDestroy \/ postedWrite \/ releaseScope
    PROVE  TunnelTypeOK'
<1>0. "START" \in Commands /\ "RELOAD" \in Commands /\ "STOP" \in Commands
  BY Zenon DEF Commands
<1>1. ASSUME NEW cmd \in Commands, deliver(cmd) PROVE TunnelTypeOK'
  <2>1. scope' \in Controllers /\ receive(cmd)
    BY <1>1, Zenon DEF deliver, TunnelTypeOK, ControlTypes
  <2> QED BY <2>1, ReceiveTypes, Zenon
<1>2. CASE startVpnService \/ reloadVpnService \/ stopVpnService
  BY <1>0, <1>1, <1>2, Zenon DEF startVpnService, reloadVpnService, stopVpnService
<1>3. ASSUME current # None, dying' = TRUE,
             UNCHANGED <<current, made, mailbox, actorVars, tunVars, controlVars>>
      PROVE  TunnelTypeOK'
  BY <1>3, Zenon DEF actorVars, tunVars, controlVars, TunnelTypeOK, ServiceTypes, BoxTypes,
                     ActorTypes, TunTypes, ControlTypes
<1>4. CASE alwaysOnIntent
  BY <1>0, <1>1, <1>3, <1>4, Zenon DEF alwaysOnIntent
<1>5. CASE onRevoke
  BY <1>3, <1>5, Zenon DEF onRevoke
<1>6. CASE onDestroy
  <2>0. current # None
    BY <1>6, Zenon DEF onDestroy, TunnelTypeOK, ServiceTypes
  <2>1. current \in Services
    BY <2>0, CurrentService, Zenon
  <2>2. /\ current' = None /\ dying' = FALSE /\ mailbox' = [mailbox EXCEPT ![current] = <<>>]
        /\ goto(executor(current), "destroy")
        /\ UNCHANGED <<made, vpn, prev, tuns, scope, controllerOf, loop, bound>>
    BY <1>6, Zenon DEF onDestroy, tunVars, controlVars, executor
  <2>3. ActorTypes'
    BY <2>1, <2>2, ExecutorGoes, Zenon
  <2>4. ServiceTypes'
    BY <2>2 DEF TunnelTypeOK, ServiceTypes, None
  <2>5. BoxTypes'
    <3>1. <<>> \in Seq(Commands) /\ Once(<<>>)
      BY DEF Once
    <3>2. DOMAIN mailbox' = Services
      BY <2>2, Zenon DEF TunnelTypeOK, BoxTypes
    <3>3. ASSUME NEW r \in Services PROVE mailbox'[r] = <<>> \/ mailbox'[r] = mailbox[r]
      BY <2>2, Zenon DEF TunnelTypeOK, BoxTypes
    <3> QED BY <3>1, <3>2, <3>3, Zenon DEF TunnelTypeOK, BoxTypes
  <2>6. TunTypes' /\ ControlTypes'
    BY <2>2, Zenon DEF TunnelTypeOK, TunTypes, ControlTypes
  <2> QED BY <2>3, <2>4, <2>5, <2>6, Zenon DEF TunnelTypeOK
<1>7. ASSUME UNCHANGED <<serviceVars, actorVars, tunVars>>, scope' \in Controllers,
             UNCHANGED <<controllerOf, loop, bound>>
      PROVE  TunnelTypeOK'
  BY <1>7, Zenon DEF serviceVars, actorVars, tunVars, TunnelTypeOK, ServiceTypes, BoxTypes,
                     ActorTypes, TunTypes, ControlTypes
<1>8. CASE postedWrite
  <2>1. scope' \in Controllers /\ UNCHANGED <<controllerOf, loop, bound>>
    BY <1>8, Zenon DEF postedWrite, controlVars, TunnelTypeOK, ControlTypes
  <2> QED BY <1>7, <1>8, <2>1, Zenon DEF postedWrite
<1>9. CASE releaseScope
  <2>1. scope' \in Controllers
    BY <1>9 DEF releaseScope, TunnelTypeOK, ControlTypes, Controllers, TunnelConstants
  <2>2. CASE enabled /\ receive("STOP") /\ UNCHANGED commands
    BY <1>0, <2>1, <2>2, ReceiveTypes, Zenon
  <2>3. CASE ~(enabled /\ receive("STOP") /\ UNCHANGED commands)
    BY <1>7, <1>9, <2>1, <2>3, Zenon DEF releaseScope
  <2> QED BY <2>2, <2>3, Zenon
<1> QED BY <1>2, <1>4, <1>5, <1>6, <1>8, <1>9, Zenon
LEMMA GoTypes ==
    ASSUME TunnelTypeOK, NEW a, NEW p, goto(a, p) \/ callStop(a, p)
    PROVE  ActorTypes'
BY Zenon DEF goto, callStop, TunnelTypeOK, ActorTypes

\* TunnelController.start and stop.
LEMMA NativeTypes ==
    ASSUME TunnelTypeOK, NEW a \in Actors,
           startNative(a) \/ publish(a) \/ stopNative(a) \/ retire(a) \/ join(a)
    PROVE  TunnelTypeOK'
<1>1. ASSUME UNCHANGED <<serviceVars, vpn, prev, tuns, scope, controllerOf>>, ActorTypes',
             DOMAIN loop' = DOMAIN loop, DOMAIN bound' = DOMAIN bound
      PROVE  TunnelTypeOK'
  BY <1>1, Zenon DEF serviceVars, TunnelTypeOK, ServiceTypes, BoxTypes, TunTypes, ControlTypes
<1>2. CASE startNative(a)
  <2>1. ActorTypes' /\ UNCHANGED <<serviceVars, vpn, prev, tuns, scope, controllerOf>>
    BY <1>2, GoTypes, Zenon DEF startNative
  <2>2. DOMAIN loop' = DOMAIN loop /\ DOMAIN bound' = DOMAIN bound
    BY <1>2, Zenon DEF startNative, doubleStart, spawnLoop
  <2> QED BY <1>1, <2>1, <2>2, Zenon
<1>3. CASE publish(a)
  BY <1>1, <1>3, GoTypes, Zenon DEF publish, tunVars
<1>4. CASE stopNative(a)
  BY <1>1, <1>4, GoTypes, Zenon DEF stopNative, tunVars
<1>5. CASE retire(a)
  BY <1>1, <1>5, GoTypes, Zenon DEF retire, tunVars
<1>6. CASE join(a)
  <2>1. ActorTypes' /\ UNCHANGED <<serviceVars, vpn, prev, tuns, scope, controllerOf>>
    BY <1>6, GoTypes, Zenon DEF join, tunVars
  <2>2. DOMAIN loop' = DOMAIN loop /\ DOMAIN bound' = DOMAIN bound
    BY <1>6, Zenon DEF join
  <2> QED BY <1>1, <2>1, <2>2, Zenon
<1> QED BY <1>2, <1>3, <1>4, <1>5, <1>6, Zenon

\* establish() gives a new tun or none.
LEMMA TunFacts ==
    ASSUME TunTypes, NEW s \in Services, NEW open, newTun(s, open) \/ noTun(s, open)
    PROVE  /\ tuns' \in Nat /\ vpn' \in [Services -> 0..tuns'] /\ prev \in [Services -> 0..tuns']
           /\ vpn[s] \in 0..tuns' /\ None \in 0..tuns' /\ tuns + 1 # None
           /\ newTun(s, open) => vpn'[s] = tuns + 1
           /\ noTun(s, open) => vpn'[s] = None
           /\ \A r \in Services : r # s => vpn'[r] = vpn[r]
<1>1. tuns \in Nat /\ vpn \in [Services -> 0..tuns] /\ prev \in [Services -> 0..tuns]
  BY Zenon DEF TunTypes
<1>2. tuns' \in Nat /\ (tuns' = tuns \/ tuns' = tuns + 1) /\ tuns + 1 # None
  BY <1>1 DEF newTun, noTun, None
<1>3. 0..tuns \subseteq 0..tuns' /\ None \in 0..tuns' /\ tuns + 1 \in 0..(tuns + 1)
  BY <1>1, <1>2 DEF None
<1>4. prev \in [Services -> 0..tuns'] /\ vpn \in [Services -> 0..tuns']
  BY <1>1, <1>3
<1>5. CASE newTun(s, open)
  <2>1. vpn' = [vpn EXCEPT ![s] = tuns + 1] /\ tuns + 1 \in 0..tuns'
    BY <1>3, <1>5, Zenon DEF newTun
  <2>2. vpn' \in [Services -> 0..tuns'] /\ vpn'[s] = tuns + 1 /\ \A r \in Services : r # s => vpn'[r] = vpn[r]
    BY <2>1, <1>4
  <2>3. noTun(s, open) => vpn'[s] = None
    BY <1>1, Zenon DEF noTun
  <2> QED BY <1>2, <1>3, <1>4, <2>2, <2>3, Zenon
<1>6. CASE noTun(s, open)
  <2>1. vpn' = [vpn EXCEPT ![s] = None]
    BY <1>6, Zenon DEF noTun
  <2>2. vpn' \in [Services -> 0..tuns'] /\ vpn'[s] = None /\ \A r \in Services : r # s => vpn'[r] = vpn[r]
    BY <2>1, <1>3, <1>4
  <2>3. newTun(s, open) => vpn'[s] = tuns + 1
    BY <1>1, Zenon DEF newTun
  <2> QED BY <1>2, <1>3, <1>4, <2>2, <2>3, Zenon
<1> QED BY <1>5, <1>6, Zenon

LEMMA PrevFacts ==
    ASSUME NEW s \in Services, NEW T, NEW v \in T, prev \in [Services -> T],
           prev' = [prev EXCEPT ![s] = v]
    PROVE  /\ prev' \in [Services -> T] /\ prev'[s] = v
           /\ \A r \in Services : r # s => prev'[r] = prev[r]
OBVIOUS

\* The handler thread.
LEMMA HandlerTypes ==
    ASSUME TunnelConstants, TunnelTypeOK, NEW s \in Services,
           \/ handleIntent(s) \/ establish(s) \/ handover(s) \/ swapped(s)
           \/ retry(s) \/ closed(s) \/ stopped(s) \/ check(s)
           \/ destroy(s) \/ destroyed(s)
    PROVE  TunnelTypeOK'
<1>0. TunTypes /\ None \in 0..tuns /\ s # None /\ prev \in [Services -> 0..tuns]
      /\ vpn \in [Services -> 0..tuns]
  BY CurrentService DEF TunnelTypeOK, TunTypes, None
<1>1. ASSUME UNCHANGED <<current, made, controlVars>>, dying' => dying \/ s = current,
             ActorTypes', TunTypes', BoxTypes'
      PROVE  TunnelTypeOK'
  <2>1. ControlTypes'
    BY <1>1, Zenon DEF controlVars, TunnelTypeOK, ControlTypes
  <2>2. ServiceTypes'
    BY <1>0, <1>1, Zenon DEF TunnelTypeOK, ServiceTypes
  <2> QED BY <1>1, <2>1, <2>2, Zenon DEF TunnelTypeOK
<1>2. ASSUME UNCHANGED mailbox PROVE BoxTypes'
  BY <1>2, Zenon DEF TunnelTypeOK, BoxTypes
<1>3. ASSUME UNCHANGED tunVars PROVE TunTypes'
  BY <1>0, <1>3, Zenon DEF tunVars, TunTypes
<1>4. ASSUME vpn' = [vpn EXCEPT ![s] = None], UNCHANGED <<prev, tuns>> PROVE TunTypes'
  <2>1. vpn' \in [Services -> 0..tuns]
    BY <1>0, <1>4
  <2> QED BY <1>0, <1>4, <2>1, Zenon DEF TunTypes
<1>5. CASE handleIntent(s)
  <2>1. ActorTypes' /\ UNCHANGED <<current, made, dying, tunVars, controlVars>>
    BY <1>5, GoTypes, Zenon DEF handleIntent
  <2>2. BoxTypes'
    <3>1. mailbox[s] \in Seq(Commands) /\ Once(mailbox[s]) /\ DOMAIN mailbox = Services
          /\ mailbox[s] # <<>> /\ mailbox' = [mailbox EXCEPT ![s] = Tail(mailbox[s])]
      BY <1>5, Zenon DEF TunnelTypeOK, BoxTypes, handleIntent
    <3>2. Tail(mailbox[s]) \in Seq(Commands) /\ Once(Tail(mailbox[s]))
      BY <3>1, HeadFacts, Zenon
    <3>3. DOMAIN mailbox' = Services /\ mailbox'[s] = Tail(mailbox[s])
          /\ \A r \in Services : r # s => mailbox'[r] = mailbox[r]
      BY <3>1, Zenon
    <3>4. \A r \in Services : r # s => mailbox'[r] \in Seq(Commands) /\ Once(mailbox'[r])
      BY <3>3, Zenon DEF TunnelTypeOK, BoxTypes
    <3>5. mailbox'[s] \in Seq(Commands) /\ Once(mailbox'[s])
      BY <3>2, <3>3, Zenon
    <3> QED BY <3>3, <3>4, <3>5, Zenon DEF BoxTypes
  <2> QED BY <1>1, <1>3, <2>1, <2>2, Zenon
<1>6. CASE establish(s)
  <2>1. ActorTypes' /\ UNCHANGED <<serviceVars, prev, controlVars>>
    BY <1>6, GoTypes, Zenon DEF establish, thrown
  <2>2. TunTypes'
    <3>1. newTun(s, pfd) \/ noTun(s, pfd)
      BY <1>6, Zenon DEF establish
    <3> QED BY <1>0, <2>1, <3>1, TunFacts, Zenon DEF TunTypes
  <2> QED BY <1>1, <1>2, <2>1, <2>2, Zenon DEF serviceVars
<1>7. CASE handover(s)
  <2>1. ActorTypes' /\ UNCHANGED <<serviceVars, controlVars>>
    BY <1>7, GoTypes, Zenon DEF handover, thrown
  <2>2. TunTypes'
    <3>1. prev' = [prev EXCEPT ![s] = vpn[s]]
      BY <1>7, Zenon DEF handover
    <3>2. CASE newTun(s, pfd) \/ noTun(s, pfd)
      <4>1. tuns' \in Nat /\ vpn' \in [Services -> 0..tuns'] /\ prev \in [Services -> 0..tuns'] /\ vpn[s] \in 0..tuns'
        BY <3>2, <1>0, TunFacts, Zenon
      <4>2. prev' \in [Services -> 0..tuns']
        BY <4>1, <3>1, PrevFacts, Zenon
      <4> QED BY <4>1, <4>2, Zenon DEF TunTypes
    <3>3. CASE UNCHANGED <<vpn, tuns, pfd>>
      <4>1. prev' \in [Services -> 0..tuns]
        BY <1>0, <3>1, PrevFacts, Zenon
      <4> QED BY <4>1, <1>0, <3>3, Zenon DEF TunTypes
    <3> QED BY <3>2, <3>3, <1>7, Zenon DEF handover
  <2> QED BY <1>1, <1>2, <2>1, <2>2, Zenon DEF serviceVars
<1>8. CASE retry(s)
  <2>1. ActorTypes' /\ UNCHANGED <<serviceVars, controlVars>>
    BY <1>8, GoTypes, Zenon DEF retry, thrown
  <2>2. TunTypes'
    <3>1. newTun(s, pfd \ {prev[s]}) \/ noTun(s, pfd \ {prev[s]})
      BY <1>8, Zenon DEF retry
    <3>2. tuns' \in Nat /\ vpn' \in [Services -> 0..tuns'] /\ prev \in [Services -> 0..tuns'] /\ None \in 0..tuns'
      BY <3>1, <1>0, TunFacts, Zenon
    <3>3. prev' \in [Services -> 0..tuns']
      BY <3>2, <1>8, PrevFacts, Zenon DEF retry
    <3> QED BY <3>2, <3>3, Zenon DEF TunTypes
  <2> QED BY <1>1, <1>2, <2>1, <2>2, Zenon DEF serviceVars
<1>9. CASE swapped(s)
  <2>1. ActorTypes' /\ UNCHANGED <<serviceVars, vpn, tuns, controlVars>>
    BY <1>9, GoTypes, Zenon DEF swapped
  <2>2. prev' \in [Services -> 0..tuns]
    BY <1>0, <1>9, PrevFacts, Zenon DEF swapped
  <2>3. TunTypes'
    BY <2>1, <2>2, <1>0, Zenon DEF TunTypes
  <2> QED BY <1>1, <1>2, <2>1, <2>3, Zenon DEF serviceVars
<1>10. CASE closed(s)
  <2>1. ActorTypes' /\ UNCHANGED <<serviceVars, controlVars>> /\ TunTypes'
    BY <1>10, GoTypes, <1>4, Zenon DEF closed
  <2> QED BY <1>1, <1>2, <2>1, Zenon DEF serviceVars
<1>11. CASE destroyed(s)
  <2>1. ActorTypes' /\ UNCHANGED <<serviceVars, controlVars>> /\ TunTypes'
    BY <1>11, GoTypes, <1>4, Zenon DEF destroyed
  <2> QED BY <1>1, <1>2, <2>1, Zenon DEF serviceVars
<1>12. CASE stopped(s)
  <2>1. ActorTypes' /\ UNCHANGED <<current, made, mailbox, tunVars, controlVars>>
        /\ (dying' => dying \/ s = current)
    BY <1>12, GoTypes, Zenon DEF stopped, stopServiceVPN
  <2> QED BY <1>1, <1>2, <1>3, <2>1, Zenon
<1>13. CASE check(s)
  <2>1. ActorTypes' /\ UNCHANGED <<current, made, mailbox, tunVars, controlVars>>
        /\ (dying' => dying \/ s = current)
    BY <1>13, GoTypes, Zenon DEF check, stopServiceVPN
  <2> QED BY <1>1, <1>2, <1>3, <2>1, Zenon
<1>14. CASE destroy(s)
  <2>1. ActorTypes' /\ UNCHANGED <<serviceVars, tunVars, controlVars>>
    BY <1>14, GoTypes, Zenon DEF destroy
  <2> QED BY <1>1, <1>2, <1>3, <2>1, Zenon DEF serviceVars
<1> QED BY <1>5, <1>6, <1>7, <1>8, <1>9, <1>10, <1>11, <1>12, <1>13, <1>14, Zenon
-----------------------------------------------------------------------------
(* What the invariant says of the service that an actor works for.            *)
LEMMA HandlerIs ==
    ASSUME TunnelCore, NEW s \in Services, H(s) \notin {"idle", "check"} \/ mailbox[s] # <<>>
    PROVE  s = current /\ HandlerOK(s)
BY Zenon DEF TunnelCore, Local, ExecutorOK

LEMMA ExecutorIs ==
    ASSUME TunnelCore, NEW s \in Services, X(s) # "idle"
    PROVE  s # current /\ ExecutorOK(s)
BY Zenon DEF TunnelCore, Local, HandlerOK

LEMMA PfdIs ==
    ASSUME TunnelCore, NEW s \in Services, s = current
    PROVE  pfd \subseteq {vpn[s]} /\ (~Unread(s) => pfd = {})
BY Zenon DEF TunnelCore, Descriptors, Unread

LEMMA BesideIs ==
    ASSUME NEW s \in Services, ActorsBeside(s), UNCHANGED <<current, made, controllerOf>>,
           \A r \in Services : r # s => /\ vpn'[r] = vpn[r] /\ prev'[r] = prev[r]
                                        /\ mailbox'[r] = mailbox[r]
    PROVE  Beside(s)
BY Zenon DEF Beside, Same, ActorsBeside

LEMMA PostedKeeps ==
    ASSUME TunnelCore, NEW s \in Services, s = current, UNCHANGED <<current, posted>>,
           dying \/ StopPath(s) => dying' \/ StopPath(s)'
    PROVE  Posted'
<1>1. posted \in {"none", "ahead"}
  BY Zenon DEF TunnelCore, Posted
<1>2. ASSUME posted = "ahead" PROVE dying' \/ StopPath(s)'
  BY <1>2, Zenon DEF TunnelCore, Posted
<1> QED BY <1>1, <1>2, Zenon DEF Posted

(* The commands that handle a tun, one lemma for each place of the handler.   *)
LEMMA EstablishCore ==
    ASSUME TunnelTypeOK, TunnelCore, NEW s \in Services, establish(s)
    PROVE  TunnelCore'
<1>1. H(s) = "establish" /\ UNCHANGED <<serviceVars, prev, controlVars, posted>>
  BY Zenon DEF establish, H
<1>2. s = current /\ HandlerOK(s)
  BY <1>1, HandlerIs
<1>3. X(s) = "idle" /\ vpn[s] = None
  BY <1>1, <1>2 DEF HandlerOK
<1>4. pfd = {} /\ Held(s) = None /\ ~StopPath(s)
  <2>1. ~Unread(s) /\ Held(s) = None /\ ~StopPath(s)
    BY <1>1, <1>2 DEF Unread, Held, Serving, Swapping, StopPath, Stopping
  <2> QED BY <2>1, <1>2, PfdIs, Zenon
<1>5. TunTypes
  BY Zenon DEF TunnelTypeOK
<1>6. ASSUME NEW p \in {"startNative", "idle"}, goto(handler(s), p), p = "startNative" => vpn'[s] # None /\ enabled',
             p = "idle" => vpn'[s] = None, vpn'[s] = tuns + 1 \/ vpn'[s] = None,
             pfd' \subseteq (IF p = "startNative" THEN {vpn'[s]} ELSE {}),
             \A r \in Services : r # s => vpn'[r] = vpn[r]
      PROVE  TunnelCore'
  <2>1. H(s)' = p /\ X(s)' = "idle" /\ ActorsBeside(s)
    BY <1>6, <1>3, HandlerGoes, Zenon
  <2>2. Beside(s)
    BY <2>1, <1>1, <1>6, BesideIs, Zenon DEF serviceVars, controlVars
  <2>3. current' = current
    BY <1>1, Zenon DEF serviceVars
  <2>4. HandlerOK(s)' /\ ~Swapping(s)' /\ ~StopPath(s)' /\ ~Retrying(s)'
    BY <1>6, <2>1 DEF HandlerOK, Stopping, Swapping, StopPath, Retrying
  <2>5. Held(s)' = None /\ Published(s)' /\ (p = "startNative" => Unread(s)')
    BY <1>2, <1>6, <2>1, <2>3, <2>4 DEF Held, Serving, Published, Unread, Stopping
  <2>6. FlagUp(s)'
    BY <1>6, <2>1, <2>4 DEF FlagUp
  <2>7. LoopMoves(s) /\ TunMoves(s)
    BY <1>1, <1>4, <1>6, <2>4, <2>5, Zenon DEF LoopMoves, TunMoves, controlVars
  <2>8. Posted'
    BY <1>1, <1>2, <1>4, PostedKeeps, Zenon DEF serviceVars
  <2>9. pfd' \subseteq (IF Unread(s)' THEN {vpn'[s]} ELSE {})
    BY <1>6, <2>5, Zenon
  <2> QED BY <1>2, <2>2, <2>4, <2>5, <2>6, <2>7, <2>8, <2>9, HandlerStep, Zenon
<1>7. CASE newTun(s, pfd) /\ enabled' = TRUE /\ goto(handler(s), "startNative")
  <2>1. vpn'[s] = tuns + 1 /\ tuns + 1 # None /\ \A r \in Services : r # s => vpn'[r] = vpn[r]
    BY <1>5, <1>7, TunFacts, Zenon
  <2>2. pfd' \subseteq {vpn'[s]} /\ enabled'
    BY <1>4, <1>7, <2>1 DEF newTun
  <2> QED BY <1>6, <1>7, <2>1, <2>2
<1>8. CASE noTun(s, pfd) /\ thrown(s)
  <2>1. vpn'[s] = None /\ \A r \in Services : r # s => vpn'[r] = vpn[r]
    BY <1>5, <1>8, TunFacts, Zenon
  <2>2. pfd' = {} /\ goto(handler(s), "idle")
    BY <1>4, <1>8, Zenon DEF noTun, thrown
  <2> QED BY <1>6, <2>1, <2>2
<1> QED BY <1>7, <1>8, Zenon DEF establish
LEMMA HandoverCore ==
    ASSUME TunnelTypeOK, TunnelCore, NEW s \in Services, handover(s), ~disturbed'
    PROVE  TunnelCore'
<1>1. /\ H(s) = "handover" /\ UNCHANGED <<serviceVars, controlVars, posted>>
      /\ prev' = [prev EXCEPT ![s] = vpn[s]]
  BY Zenon DEF handover, H
<1>2. s = current /\ HandlerOK(s) /\ FlagUp(s) /\ Published(s)
  BY <1>1, HandlerIs DEF TunnelCore
<1>3. X(s) = "idle"
  BY <1>1, <1>2 DEF HandlerOK
<1>4. pfd = {} /\ Held(s) = vpn[s] /\ ~StopPath(s)
  <2>1. ~Unread(s) /\ Held(s) = vpn[s] /\ ~StopPath(s)
    BY <1>1, <1>2 DEF Unread, Held, Serving, Swapping, StopPath, Stopping
  <2> QED BY <2>1, <1>2, PfdIs, Zenon
<1>5. TunTypes
  BY Zenon DEF TunnelTypeOK
<1>6. /\ UNCHANGED <<current, made, dying, mailbox, controllerOf, loop, bound, live, posted>>
      /\ prev'[s] = vpn[s] /\ \A r \in Services : r # s => prev'[r] = prev[r]
  <2>1. DOMAIN prev = Services
    BY <1>5, Zenon DEF TunTypes
  <2> QED BY <1>1, <2>1, Zenon DEF serviceVars, controlVars
<1>7. Posted'
  BY <1>2, <1>4, <1>6, PostedKeeps, Zenon
<1>8. CASE newTun(s, pfd) /\ vpn[s] = None /\ goto(handler(s), "startNative") /\ UNCHANGED enabled
  <2>1. H(s)' = "startNative" /\ X(s)' = "idle" /\ ActorsBeside(s)
    BY <1>3, <1>8, HandlerGoes, Zenon
  <2>2. vpn'[s] = tuns + 1 /\ tuns + 1 # None /\ \A r \in Services : r # s => vpn'[r] = vpn[r]
    BY <1>5, <1>8, TunFacts, Zenon
  <2>3. Beside(s)
    BY <1>6, <2>1, <2>2, BesideIs, Zenon
  <2>4. HandlerOK(s)' /\ ~Swapping(s)' /\ Held(s)' = None /\ Published(s)' /\ Unread(s)'
    BY <1>2, <1>6, <2>1, <2>2 DEF HandlerOK, Stopping, Swapping, Held, Serving, Published, Unread
  <2>5. FlagUp(s)'
    BY <1>1, <1>2, <1>6, <1>8, <2>1 DEF FlagUp, Retrying, StopPath, Stopping
  <2>6. LoopMoves(s) /\ TunMoves(s)
    BY <1>4, <1>6, <1>8, <2>2, <2>4, Zenon DEF LoopMoves, TunMoves
  <2>7. pfd' \subseteq (IF Unread(s)' THEN {vpn'[s]} ELSE {})
    BY <1>4, <1>8, <2>2, <2>4 DEF newTun
  <2> QED BY <1>2, <1>7, <2>3, <2>4, <2>5, <2>6, <2>7, HandlerStep, Zenon
<1>9. CASE newTun(s, pfd) /\ vpn[s] # None /\ callStop(handler(s), "swapped") /\ UNCHANGED enabled
  <2>1. H(s)' = "stopNative" /\ Then(s)' = "swapped" /\ X(s)' = "idle" /\ ActorsBeside(s)
    BY <1>3, <1>9, HandlerStops, Zenon
  <2>2. vpn'[s] = tuns + 1 /\ tuns + 1 # None /\ \A r \in Services : r # s => vpn'[r] = vpn[r]
    BY <1>5, <1>9, TunFacts, Zenon
  <2>3. Beside(s)
    BY <1>6, <2>1, <2>2, BesideIs, Zenon
  <2>4. HandlerOK(s)' /\ Swapping(s)' /\ Held(s)' = prev'[s] /\ Published(s)' /\ Unread(s)'
    BY <1>2, <1>6, <1>9, <2>1, <2>2 DEF HandlerOK, Stopping, Swapping, Held, Serving, Published, Unread
  <2>5. FlagUp(s)'
    <3>1. enabled \/ dying
      BY <1>1, <1>2, <1>4, <1>9 DEF FlagUp
    <3> QED BY <3>1, <1>6, <1>9 DEF FlagUp
  <2>6. LoopMoves(s) /\ TunMoves(s)
    BY <1>4, <1>6, <2>2, <2>4, Zenon DEF LoopMoves, TunMoves
  <2>7. pfd' \subseteq (IF Unread(s)' THEN {vpn'[s]} ELSE {})
    BY <1>4, <1>9, <2>2, <2>4 DEF newTun
  <2> QED BY <1>2, <1>7, <2>3, <2>4, <2>5, <2>6, <2>7, HandlerStep, Zenon
<1>10. CASE noTun(s, pfd) /\ vpn[s] # None /\ callStop(handler(s), "retry") /\ UNCHANGED enabled
  <2>1. H(s)' = "stopNative" /\ Then(s)' = "retry" /\ X(s)' = "idle" /\ ActorsBeside(s)
    BY <1>3, <1>10, HandlerStops, Zenon
  <2>2. vpn'[s] = None /\ \A r \in Services : r # s => vpn'[r] = vpn[r]
    BY <1>5, <1>10, TunFacts, Zenon
  <2>3. Beside(s)
    BY <1>6, <2>1, <2>2, BesideIs, Zenon
  <2>4. HandlerOK(s)' /\ Swapping(s)' /\ Held(s)' = prev'[s] /\ Published(s)'
    BY <1>2, <1>6, <1>10, <2>1, <2>2, Zenon DEF HandlerOK, Stopping, Swapping, Held, Serving, Published
  <2>5. FlagUp(s)'
    <3>1. enabled \/ dying
      BY <1>1, <1>2, <1>4, <1>10 DEF FlagUp
    <3> QED BY <3>1, <1>6, <1>10 DEF FlagUp
  <2>6. LoopMoves(s) /\ TunMoves(s)
    BY <1>4, <1>6, <2>2, <2>4, Zenon DEF LoopMoves, TunMoves
  <2>7. pfd' = {}
    BY <1>4, <1>10, Zenon DEF noTun
  <2> QED BY <1>2, <1>7, <2>3, <2>4, <2>5, <2>6, <2>7, HandlerStep, Zenon
<1>11. CASE UNCHANGED <<vpn, tuns, pfd>> /\ thrown(s)
  <2>1. H(s)' = "idle" /\ X(s)' = "idle" /\ ActorsBeside(s) /\ UNCHANGED <<vpn, pfd>>
    BY <1>3, <1>11, HandlerGoes, Zenon DEF thrown
  <2>2. Beside(s)
    BY <1>6, <2>1, BesideIs, Zenon
  <2>3. HandlerOK(s)' /\ ~Swapping(s)' /\ Held(s)' = vpn[s] /\ Published(s)'
    BY <1>1, <1>2, <1>6, <2>1 DEF HandlerOK, Stopping, Swapping, Held, Serving, Published
  <2>4. enabled' = enabled
    BY Zenon DEF handover
  <2>5. FlagUp(s)'
    BY <1>1, <1>2, <1>4, <1>6, <2>1, <2>4 DEF FlagUp, Retrying, Stopping
  <2>6. LoopMoves(s) /\ TunMoves(s)
    BY <1>4, <1>6, <2>1, <2>3, Zenon DEF LoopMoves, TunMoves
  <2>7. pfd' = {}
    BY <1>4, <2>1, Zenon
  <2> QED BY <1>2, <1>7, <2>2, <2>3, <2>5, <2>6, <2>7, HandlerStep, Zenon
<1> QED BY <1>8, <1>9, <1>10, <1>11, Zenon DEF handover
LEMMA SwappedCore ==
    ASSUME TunnelTypeOK, TunnelCore, NEW s \in Services, swapped(s)
    PROVE  TunnelCore'
<1>1. /\ H(s) = "swapped" /\ UNCHANGED <<current, made, dying, mailbox, vpn, controllerOf, loop, bound, live,
                                         enabled, posted>>
      /\ prev' = [prev EXCEPT ![s] = None] /\ pfd' \subseteq pfd /\ goto(handler(s), "startNative")
  BY Zenon DEF swapped, H, serviceVars, controlVars, flagVars
<1>2. s = current /\ HandlerOK(s) /\ FlagUp(s)
  BY <1>1, HandlerIs DEF TunnelCore
<1>3. X(s) = "idle" /\ vpn[s] # None
  BY <1>1, <1>2 DEF HandlerOK
<1>4. pfd \subseteq {vpn[s]} /\ Held(s) = None /\ ~StopPath(s)
  <2>1. Held(s) = None /\ ~StopPath(s)
    BY <1>1, <1>2 DEF Held, Serving, Swapping, StopPath, Stopping
  <2> QED BY <2>1, <1>2, PfdIs, Zenon
<1>5. H(s)' = "startNative" /\ X(s)' = "idle" /\ ActorsBeside(s)
  BY <1>1, <1>3, HandlerGoes, Zenon
<1>6. \A r \in Services : r # s => prev'[r] = prev[r]
  BY <1>1, Zenon DEF TunnelTypeOK, TunTypes
<1>7. Beside(s)
  BY <1>1, <1>5, <1>6, BesideIs, Zenon
<1>8. HandlerOK(s)' /\ ~Swapping(s)' /\ Held(s)' = None /\ Published(s)' /\ Unread(s)'
  BY <1>1, <1>2, <1>3, <1>5 DEF HandlerOK, Stopping, Swapping, Held, Serving, Published, Unread
<1>9. FlagUp(s)'
  <2>1. enabled \/ dying
    BY <1>1, <1>2, <1>3, <1>4 DEF FlagUp
  <2> QED BY <2>1, <1>1 DEF FlagUp
<1>10. LoopMoves(s) /\ TunMoves(s)
  BY <1>1, <1>4, <1>8, Zenon DEF LoopMoves, TunMoves
<1>11. Posted'
  BY <1>1, <1>2, <1>4, PostedKeeps, Zenon
<1>12. pfd' \subseteq (IF Unread(s)' THEN {vpn'[s]} ELSE {})
  BY <1>1, <1>4, <1>8, Zenon
<1> QED BY <1>2, <1>7, <1>8, <1>9, <1>10, <1>11, <1>12, HandlerStep, Zenon

LEMMA RetryCore ==
    ASSUME TunnelTypeOK, TunnelCore, NEW s \in Services, retry(s)
    PROVE  TunnelCore'
<1>1. /\ H(s) = "retry" /\ UNCHANGED <<current, made, dying, mailbox, controllerOf, loop, bound, live, posted>>
      /\ prev' = [prev EXCEPT ![s] = None]
  BY Zenon DEF retry, H, serviceVars, controlVars
<1>2. s = current /\ HandlerOK(s) /\ FlagUp(s)
  BY <1>1, HandlerIs DEF TunnelCore
<1>3. X(s) = "idle" /\ vpn[s] = None /\ TunTypes
  BY <1>1, <1>2 DEF HandlerOK, TunnelTypeOK
<1>4. pfd = {} /\ pfd \ {prev[s]} = {} /\ Held(s) = None /\ ~StopPath(s)
  <2>1. Held(s) = None /\ ~StopPath(s) /\ ~Unread(s)
    BY <1>1, <1>2 DEF Held, Serving, Swapping, StopPath, Stopping, Unread
  <2> QED BY <2>1, <1>2, PfdIs, Zenon
<1>5. enabled \/ dying
  BY <1>1, <1>2 DEF FlagUp, Retrying
<1>6. \A r \in Services : r # s => prev'[r] = prev[r]
  BY <1>1, Zenon DEF TunnelTypeOK, TunTypes
<1>7. Posted'
  BY <1>1, <1>2, <1>4, PostedKeeps, Zenon
<1>8. CASE newTun(s, pfd \ {prev[s]}) /\ goto(handler(s), "startNative") /\ UNCHANGED enabled
  <2>1. H(s)' = "startNative" /\ X(s)' = "idle" /\ ActorsBeside(s)
    BY <1>3, <1>8, HandlerGoes, Zenon
  <2>2. vpn'[s] = tuns + 1 /\ tuns + 1 # None /\ \A r \in Services : r # s => vpn'[r] = vpn[r]
    BY <1>3, <1>8, TunFacts, Zenon
  <2>3. Beside(s)
    BY <1>1, <1>6, <2>1, <2>2, BesideIs, Zenon
  <2>4. HandlerOK(s)' /\ ~Swapping(s)' /\ Held(s)' = None /\ Published(s)' /\ Unread(s)'
    BY <1>1, <1>2, <2>1, <2>2 DEF HandlerOK, Stopping, Swapping, Held, Serving, Published, Unread
  <2>5. FlagUp(s)'
    BY <1>1, <1>5, <1>8 DEF FlagUp
  <2>6. LoopMoves(s) /\ TunMoves(s)
    BY <1>1, <1>4, <2>2, <2>4, Zenon DEF LoopMoves, TunMoves
  <2>7. pfd' \subseteq (IF Unread(s)' THEN {vpn'[s]} ELSE {})
    BY <1>4, <1>8, <2>2, <2>4 DEF newTun
  <2> QED BY <1>2, <1>7, <2>3, <2>4, <2>5, <2>6, <2>7, HandlerStep, Zenon
<1>9. CASE noTun(s, pfd \ {prev[s]}) /\ thrown(s)
  <2>1. H(s)' = "idle" /\ X(s)' = "idle" /\ ActorsBeside(s)
    BY <1>3, <1>9, HandlerGoes, Zenon DEF thrown
  <2>2. vpn'[s] = None /\ \A r \in Services : r # s => vpn'[r] = vpn[r]
    BY <1>3, <1>9, TunFacts, Zenon
  <2>3. Beside(s)
    BY <1>1, <1>6, <2>1, <2>2, BesideIs, Zenon
  <2>4. HandlerOK(s)' /\ ~Swapping(s)' /\ Held(s)' = None /\ Published(s)'
    BY <1>1, <1>2, <2>1, <2>2 DEF HandlerOK, Stopping, Swapping, Held, Serving, Published
  <2>5. FlagUp(s)'
    BY <2>1, <2>2 DEF FlagUp, Retrying, Stopping
  <2>6. LoopMoves(s) /\ TunMoves(s)
    BY <1>1, <1>4, <2>2, <2>4, Zenon DEF LoopMoves, TunMoves
  <2>7. pfd' = {}
    BY <1>4, <1>9, Zenon DEF noTun
  <2> QED BY <1>2, <1>7, <2>3, <2>4, <2>5, <2>6, <2>7, HandlerStep, Zenon
<1> QED BY <1>8, <1>9, Zenon DEF retry

LEMMA ClosedCore ==
    ASSUME TunnelTypeOK, TunnelCore, NEW s \in Services, closed(s)
    PROVE  TunnelCore'
<1>1. /\ H(s) = "closed" /\ UNCHANGED <<current, made, dying, mailbox, prev, controllerOf, loop, bound, live, posted>>
      /\ vpn' = [vpn EXCEPT ![s] = None] /\ pfd' \subseteq pfd /\ goto(handler(s), "stopped")
  BY Zenon DEF closed, H, serviceVars, controlVars, flagVars
<1>2. s = current /\ HandlerOK(s)
  BY <1>1, HandlerIs
<1>3. X(s) = "idle"
  BY <1>2 DEF HandlerOK
<1>4. pfd' = {} /\ Held(s) = None
  <2>1. Held(s) = None /\ ~Unread(s)
    BY <1>1, <1>2 DEF Held, Serving, Swapping, Stopping, Unread
  <2> QED BY <2>1, <1>1, <1>2, PfdIs, Zenon
<1>5. H(s)' = "stopped" /\ X(s)' = "idle" /\ ActorsBeside(s)
  BY <1>1, <1>3, HandlerGoes, Zenon
<1>6. vpn'[s] = None /\ \A r \in Services : r # s => vpn'[r] = vpn[r]
  BY <1>1, Zenon DEF TunnelTypeOK, TunTypes
<1>7. Beside(s)
  BY <1>1, <1>5, <1>6, BesideIs, Zenon
<1>8. HandlerOK(s)' /\ ~Swapping(s)' /\ Held(s)' = None /\ Published(s)' /\ FlagUp(s)' /\ StopPath(s)'
  BY <1>1, <1>2, <1>5, <1>6 DEF HandlerOK, Stopping, Swapping, Held, Serving, Published, FlagUp, Retrying, StopPath
<1>9. LoopMoves(s) /\ TunMoves(s)
  BY <1>1, <1>4, <1>6, <1>8, Zenon DEF LoopMoves, TunMoves
<1>10. Posted'
  BY <1>1, <1>2, <1>8, PostedKeeps, Zenon
<1> QED BY <1>2, <1>4, <1>7, <1>8, <1>9, <1>10, HandlerStep, Zenon

LEMMA StoppedCore ==
    ASSUME TunnelTypeOK, TunnelCore, NEW s \in Services, stopped(s)
    PROVE  TunnelCore'
<1>1. /\ H(s) = "stopped" /\ UNCHANGED <<current, made, mailbox, vpn, prev, pfd, controllerOf, loop, bound, live, posted>>
      /\ goto(handler(s), "check") /\ dying' = (dying \/ s = current)
  BY Zenon DEF stopped, stopServiceVPN, H, tunVars, controlVars
<1>2. s = current /\ HandlerOK(s)
  BY <1>1, HandlerIs
<1>3. X(s) = "idle" /\ vpn[s] = None /\ dying'
  BY <1>1, <1>2, Zenon DEF HandlerOK
<1>4. pfd' = {} /\ Held(s) = None
  <2>1. Held(s) = None /\ ~Unread(s)
    BY <1>1, <1>2 DEF Held, Serving, Swapping, Stopping, Unread
  <2> QED BY <2>1, <1>1, <1>2, PfdIs, Zenon
<1>5. H(s)' = "check" /\ X(s)' = "idle" /\ ActorsBeside(s)
  BY <1>1, <1>3, HandlerGoes, Zenon
<1>6. Beside(s)
  BY <1>1, <1>5, BesideIs, Zenon
<1>7. HandlerOK(s)' /\ ~Swapping(s)' /\ Held(s)' = None /\ Published(s)' /\ FlagUp(s)'
  BY <1>1, <1>2, <1>3, <1>5 DEF HandlerOK, Stopping, Swapping, Held, Serving, Published, FlagUp
<1>8. LoopMoves(s) /\ TunMoves(s)
  BY <1>1, <1>4, <1>7, Zenon DEF LoopMoves, TunMoves
<1>9. Posted'
  BY <1>1, <1>2, <1>3, PostedKeeps, Zenon
<1> QED BY <1>2, <1>4, <1>6, <1>7, <1>8, <1>9, HandlerStep, Zenon
LEMMA HandleIntentCore ==
    ASSUME TunnelTypeOK, TunnelCore, NEW s \in Services, handleIntent(s), ~disturbed'
    PROVE  TunnelCore'
<1> DEFINE box == mailbox[s]
           cmd == Head(box)
<1>1. /\ H(s) = "idle" /\ box # <<>> /\ mailbox' = [mailbox EXCEPT ![s] = Tail(box)]
      /\ UNCHANGED <<current, made, dying, vpn, prev, pfd, controllerOf, loop, bound, live>>
      /\ posted' # "behind"
  BY Zenon DEF handleIntent, H, tunVars, controlVars
<1>2. s = current /\ HandlerOK(s) /\ FlagUp(s) /\ Published(s)
  BY <1>1, HandlerIs, Zenon DEF TunnelCore
<1>3. X(s) = "idle"
  BY <1>2 DEF HandlerOK
<1>4. /\ cmd \in Commands /\ Among(cmd, box)
      /\ \A q : Among(q, Tail(box)) <=> (Among(q, box) /\ q # cmd)
  BY <1>1, HeadFacts, Zenon DEF TunnelTypeOK, BoxTypes
<1>5. mailbox'[s] = Tail(box) /\ \A r \in Services : r # s => mailbox'[r] = mailbox[r]
  BY <1>1, Zenon DEF TunnelTypeOK, BoxTypes
<1>6. pfd' = {} /\ Held(s) = vpn[s] /\ ~StopPath(s)
  <2>1. Held(s) = vpn[s] /\ ~Unread(s) /\ ~StopPath(s)
    BY <1>1, <1>2 DEF Held, Serving, Swapping, Stopping, Unread, StopPath
  <2> QED BY <2>1, <1>1, <1>2, PfdIs, Zenon
<1>7. ASSUME ActorsBeside(s), HandlerOK(s)', Held(s)' = vpn[s], ~Swapping(s)', Published(s)',
             FlagUp(s)', Posted'
      PROVE  TunnelCore'
  <2>1. Beside(s)
    BY <1>1, <1>5, <1>7, BesideIs, Zenon
  <2>2. LoopMoves(s) /\ TunMoves(s)
    BY <1>1, <1>6, <1>7, Zenon DEF LoopMoves, TunMoves
  <2> QED BY <1>2, <1>6, <1>7, <2>1, <2>2, HandlerStep, Zenon
<1> HIDE DEF box, cmd
<1>8. CASE cmd = "START" /\ UNCHANGED flagVars
           /\ goto(handler(s), IF vpn[s] = None THEN "establish" ELSE "check")
  <2>0. UNCHANGED <<enabled, posted>>
    BY <1>8, Zenon DEF flagVars
  <2>1. Posted'
    BY <1>1, <1>2, <1>6, <2>0, PostedKeeps, Zenon
  <2>2. CASE vpn[s] = None
    <3>1. H(s)' = "establish" /\ X(s)' = "idle" /\ ActorsBeside(s)
      BY <1>3, <1>8, <2>2, HandlerGoes, Zenon
    <3>2. /\ HandlerOK(s)' /\ Held(s)' = vpn[s] /\ ~Swapping(s)' /\ Published(s)' /\ FlagUp(s)'
      BY <1>1, <1>2, <2>2, <3>1, Zenon DEF HandlerOK, Held, Serving, Swapping, Stopping, Published, FlagUp, Retrying
    <3> QED BY <1>7, <2>1, <3>1, <3>2, Zenon
  <2>3. CASE vpn[s] # None
    <3>1. H(s)' = "check" /\ X(s)' = "idle" /\ ActorsBeside(s)
      BY <1>3, <1>8, <2>3, HandlerGoes, Zenon
    <3>2. /\ HandlerOK(s)' /\ Held(s)' = vpn[s] /\ ~Swapping(s)' /\ Published(s)'
      BY <1>1, <1>2, <2>3, <3>1 DEF HandlerOK, Held, Serving, Swapping, Stopping, Published
    <3>3. ~Among("RELOAD", box) => ~Among("RELOAD", mailbox'[s])
      BY <1>4, <1>5, Zenon
    <3>4. FlagUp(s)'
      BY <1>1, <1>2, <1>6, <2>0, <3>1, <3>3 DEF FlagUp, Retrying, Stopping, box
    <3> QED BY <1>7, <2>1, <3>1, <3>2, <3>4, Zenon
  <2> QED BY <2>2, <2>3, Zenon
<1>9. CASE cmd = "RELOAD" /\ UNCHANGED flagVars
           /\ (goto(handler(s), "handover") \/ (vpn[s] # None /\ goto(handler(s), "check")))
  <2>0. UNCHANGED <<enabled, posted>>
    BY <1>9, Zenon DEF flagVars
  <2>1. Posted'
    BY <1>1, <1>2, <1>6, <2>0, PostedKeeps, Zenon
  <2>2. enabled \/ dying \/ vpn[s] = None
    BY <1>2, <1>4, <1>6, <1>9, Zenon DEF FlagUp, box
  <2>3. CASE goto(handler(s), "handover")
    <3>1. H(s)' = "handover" /\ X(s)' = "idle" /\ ActorsBeside(s)
      BY <1>3, <2>3, HandlerGoes, Zenon
    <3>2. /\ HandlerOK(s)' /\ Held(s)' = vpn[s] /\ ~Swapping(s)' /\ Published(s)'
      BY <1>1, <1>2, <3>1 DEF HandlerOK, Held, Serving, Swapping, Stopping, Published
    <3>3. ~Among("RELOAD", mailbox'[s])
      BY <1>4, <1>5, <1>9, Zenon
    <3>4. FlagUp(s)'
      BY <1>1, <2>0, <2>2, <3>1, <3>3 DEF FlagUp, Retrying, Stopping
    <3> QED BY <1>7, <2>1, <3>1, <3>2, <3>4, Zenon
  <2>4. CASE vpn[s] # None /\ goto(handler(s), "check")
    <3>1. H(s)' = "check" /\ X(s)' = "idle" /\ ActorsBeside(s)
      BY <1>3, <2>4, HandlerGoes, Zenon
    <3>2. /\ HandlerOK(s)' /\ Held(s)' = vpn[s] /\ ~Swapping(s)' /\ Published(s)'
      BY <1>1, <1>2, <3>1 DEF HandlerOK, Held, Serving, Swapping, Stopping, Published
    <3>3. FlagUp(s)'
      BY <1>1, <2>0, <2>2, <2>4 DEF FlagUp
    <3> QED BY <1>7, <2>1, <3>1, <3>2, <3>3, Zenon
  <2> QED BY <1>9, <2>3, <2>4, Zenon
<1>10. CASE /\ cmd = "STOP" /\ enabled' = FALSE
            /\ posted' = IF dying /\ s = current THEN "behind" ELSE "ahead"
            /\ IF vpn[s] = None THEN goto(handler(s), "stopped") ELSE callStop(handler(s), "closed")
  <2>1. posted' = "ahead"
    BY <1>1, <1>10, Zenon
  <2>2. ASSUME StopPath(s)' PROVE Posted'
    BY <1>1, <1>2, <2>1, <2>2, Zenon DEF Posted
  <2>3. CASE vpn[s] = None
    <3>1. H(s)' = "stopped" /\ X(s)' = "idle" /\ ActorsBeside(s)
      BY <1>3, <1>10, <2>3, HandlerGoes, Zenon
    <3>2. /\ HandlerOK(s)' /\ Held(s)' = vpn[s] /\ ~Swapping(s)' /\ Published(s)' /\ FlagUp(s)' /\ StopPath(s)'
      BY <1>1, <1>2, <2>3, <3>1, Zenon DEF HandlerOK, Held, Serving, Swapping, Stopping, Published, FlagUp, Retrying, StopPath
    <3> QED BY <1>7, <2>2, <3>1, <3>2, Zenon
  <2>4. CASE vpn[s] # None
    <3>1. H(s)' = "stopNative" /\ Then(s)' = "closed" /\ X(s)' = "idle" /\ ActorsBeside(s)
      BY <1>3, <1>10, <2>4, HandlerStops, Zenon
    <3>2. /\ HandlerOK(s)' /\ Held(s)' = vpn[s] /\ ~Swapping(s)' /\ Published(s)' /\ FlagUp(s)' /\ StopPath(s)'
      BY <1>1, <1>2, <2>4, <3>1 DEF HandlerOK, Held, Serving, Swapping, Stopping, Published, FlagUp, Retrying, StopPath
    <3> QED BY <1>7, <2>2, <3>1, <3>2, Zenon
  <2> QED BY <2>3, <2>4, Zenon
<1> QED BY <1>8, <1>9, <1>10, Zenon DEF handleIntent, cmd, box

LEMMA CheckCore ==
    ASSUME TunnelTypeOK, TunnelCore, NEW s \in Services, check(s)
    PROVE  TunnelCore'
<1>1. /\ H(s) = "check" /\ goto(handler(s), "idle")
      /\ UNCHANGED <<current, made, mailbox, vpn, prev, pfd, controllerOf, loop, bound, live, posted>>
      /\ IF ~enabled /\ ~waiting(s) THEN stopServiceVPN(s) ELSE UNCHANGED <<enabled, dying>>
  BY Zenon DEF check, H, tunVars, controlVars
<1>2. H(s)' = "idle" /\ X(s)' = X(s) /\ task'[executor(s)] = task[executor(s)] /\ ActorsBeside(s)
  BY <1>1, HandlerGoes, Zenon
<1>3. Beside(s)
  BY <1>1, <1>2, BesideIs, Zenon
<1>4. CASE s = current
  <2>1. HandlerOK(s) /\ FlagUp(s) /\ Published(s)
    BY <1>4, Zenon DEF TunnelCore, Local
  <2>2. pfd' = {} /\ Held(s) = vpn[s]
    <3>1. Held(s) = vpn[s] /\ ~Unread(s)
      BY <1>1, <1>4, Zenon DEF Held, Serving, Stopping, Unread
    <3> QED BY <3>1, <1>1, <1>4, PfdIs, Zenon
  <2>3. HandlerOK(s)' /\ ~Swapping(s)' /\ Held(s)' = vpn[s] /\ Published(s)'
    BY <1>1, <1>2, <1>4, <2>1, Zenon DEF HandlerOK, Stopping, Swapping, Held, Serving, Published
  <2>4. LoopMoves(s) /\ TunMoves(s)
    BY <1>1, <2>2, <2>3, Zenon DEF LoopMoves, TunMoves
  <2>5. (dying => dying') /\ ~StopPath(s) /\ ~Retrying(s)'
    BY <1>1, <1>2, Zenon DEF stopServiceVPN, StopPath, Retrying, Stopping
  <2>6. Posted'
    BY <1>1, <1>4, <2>5, PostedKeeps, Zenon
  <2>7. FlagUp(s)'
    <3>1. CASE ~enabled /\ ~waiting(s)
      BY <1>1, <1>4, <3>1, Zenon DEF stopServiceVPN, FlagUp
    <3>2. CASE ~(~enabled /\ ~waiting(s))
      <4>1. UNCHANGED <<enabled, dying, mailbox, vpn>> /\ (enabled \/ Waits(mailbox[s]))
        BY <1>1, <3>2, Zenon DEF waiting, Waits
      <4> QED BY <1>2, <1>4, <2>1, <2>5, <4>1 DEF FlagUp
    <3> QED BY <3>1, <3>2, Zenon
  <2> QED BY <1>3, <1>4, <2>2, <2>3, <2>4, <2>6, <2>7, HandlerStep, Zenon
<1>5. CASE s # current
  <2>1. ExecutorOK(s)
    BY <1>5, Zenon DEF TunnelCore, Local
  <2>2. ExecutorOK(s)' /\ Held(s)' = Held(s) /\ ~Swapping(s)'
    BY <1>1, <1>2, <1>5, <2>1, Zenon DEF ExecutorOK, Held, Serving, Swapping
  <2>3. LoopMoves(s) /\ TunMoves(s)
    BY <1>1, <2>2, Zenon DEF LoopMoves, TunMoves
  <2>4. (enabled' <=> enabled) /\ (dying' <=> dying)
    BY <1>1, <1>5, Zenon DEF stopServiceVPN
  <2>5. pfd' \subseteq pfd /\ bound' = bound /\ live' = live /\ posted' = posted
    BY <1>1, Zenon
  <2> QED BY <1>3, <1>5, <2>2, <2>3, <2>4, <2>5, ExecutorStep, Zenon
<1> QED BY <1>4, <1>5, Zenon
(* The teardown task, and a service that reads beside it.                     *)
LEMMA DestroyCore ==
    ASSUME TunnelTypeOK, TunnelCore, NEW s \in Services, destroy(s)
    PROVE  TunnelCore'
<1>1. /\ X(s) = "destroy"
      /\ UNCHANGED <<current, made, mailbox, dying, vpn, prev, pfd, controllerOf, loop, bound, live, enabled, posted>>
      /\ IF vpn[s] = None THEN goto(executor(s), "idle") ELSE callStop(executor(s), "destroyed")
  BY Zenon DEF destroy, X, executor, serviceVars, tunVars, controlVars, flagVars
<1>2. s # current /\ ExecutorOK(s)
  BY <1>1, ExecutorIs
<1>3. Held(s) = vpn[s] /\ ~(s > made)
  BY <1>1, <1>2 DEF Held, Serving, ExecutorOK
<1>4. H(s)' = H(s) /\ ActorsBeside(s)
      /\ (vpn[s] = None => X(s)' = "idle")
      /\ (vpn[s] # None => X(s)' = "stopNative" /\ task'[executor(s)] = "destroyed")
  BY <1>1, ExecutorGoes, ExecutorStops, Zenon
<1>5. ExecutorOK(s)' /\ Held(s)' = vpn[s] /\ ~Swapping(s)'
  BY <1>1, <1>2, <1>3, <1>4 DEF ExecutorOK, Held, Serving, Swapping, Stopping
<1>6. Beside(s) /\ LoopMoves(s) /\ TunMoves(s)
  BY <1>1, <1>3, <1>4, <1>5, BesideIs, Zenon DEF LoopMoves, TunMoves
<1>7. (enabled' <=> enabled) /\ (dying' <=> dying) /\ pfd' \subseteq pfd /\ bound' = bound /\ live' = live /\ posted' = posted
  BY <1>1, Zenon
<1> QED BY <1>2, <1>5, <1>6, <1>7, ExecutorStep, Zenon

LEMMA DestroyedCore ==
    ASSUME TunnelTypeOK, TunnelCore, NEW s \in Services, destroyed(s)
    PROVE  TunnelCore'
<1>1. /\ X(s) = "destroyed" /\ goto(executor(s), "idle")
      /\ UNCHANGED <<current, made, mailbox, dying, prev, controllerOf, loop, bound, live, enabled, posted>>
      /\ vpn' = [vpn EXCEPT ![s] = None] /\ pfd' \subseteq pfd
  BY Zenon DEF destroyed, X, executor, serviceVars, controlVars, flagVars
<1>2. s # current /\ ExecutorOK(s)
  BY <1>1, ExecutorIs
<1>3. Held(s) = None
  BY <1>1, <1>2 DEF Held, Serving, Swapping, Stopping
<1>4. H(s)' = H(s) /\ X(s)' = "idle" /\ ActorsBeside(s)
  BY <1>1, ExecutorGoes, Zenon
<1>5. vpn'[s] = None /\ \A r \in Services : r # s => vpn'[r] = vpn[r]
  BY <1>1, Zenon DEF TunnelTypeOK, TunTypes
<1>6. ExecutorOK(s)' /\ Held(s)' = None /\ ~Swapping(s)'
  BY <1>1, <1>2, <1>4, <1>5 DEF ExecutorOK, Held, Serving, Swapping, Stopping
<1>7. Beside(s) /\ LoopMoves(s) /\ TunMoves(s)
  BY <1>1, <1>3, <1>4, <1>5, <1>6, BesideIs, Zenon DEF LoopMoves, TunMoves
<1>8. (enabled' <=> enabled) /\ (dying' <=> dying) /\ bound' = bound /\ live' = live /\ posted' = posted
  BY <1>1, Zenon
<1> QED BY <1>1, <1>2, <1>6, <1>7, <1>8, ExecutorStep, Zenon

LEMMA ReaderElsewhere ==
    ASSUME TunnelCore, NEW s \in Services, s # current, Held(s) # None,
           NEW r \in Services, Reads(r)
    PROVE  controllerOf[r] # controllerOf[s]
<1>1. r = current /\ Held(r) = vpn[r] /\ vpn[r] # None
  BY Zenon DEF Reads, Held, Serving
<1>2. Held(s) # Held(r)
  BY <1>1, HeldApart, Zenon DEF TunnelCore
<1> QED BY <1>1, <1>2, Zenon DEF TunnelCore, Holding

(* TunnelController.start and stop, called by the handler or the executor.    *)
LEMMA StartNativeCore ==
    ASSUME TunnelTypeOK, TunnelCore, NEW s \in Services, startNative(handler(s)), ~disturbed'
    PROVE  TunnelCore'
<1> DEFINE c == controllerOf[s]
<1>0. nativeOf(handler(s)) = c /\ handler(s)[1] = s
  BY DEF nativeOf, handler
<1>1. /\ H(s) = "startNative" /\ UNCHANGED <<serviceVars, vpn, prev, tuns, controllerOf, live, flagVars>>
      /\ \/ vpn[s] = None
         \/ disturbed' = TRUE
         \/ /\ loop[c] = None /\ spawnLoop(c, s) /\ loop'[c] # None /\ goto(handler(s), "publish")
  BY <1>0, Zenon DEF startNative, H
<1>2. s = current /\ HandlerOK(s) /\ FlagUp(s)
  BY <1>1, HandlerIs DEF TunnelCore
<1>3. X(s) = "idle" /\ vpn[s] # None
  BY <1>1, <1>2 DEF HandlerOK
<1>4. /\ loop[c] = None /\ goto(handler(s), "publish") /\ pfd' = pfd \ {vpn[s]}
      /\ loop' = [loop EXCEPT ![c] = vpn[s]] /\ bound' = [bound EXCEPT ![c] = s]
  BY <1>1, <1>3, Zenon DEF spawnLoop
<1>5. pfd' = {}
  BY <1>2, <1>4, PfdIs, Zenon
<1>6. bound'[c] = s
  BY <1>4, Zenon DEF TunnelTypeOK, ControlTypes
<1>7. H(s)' = "publish" /\ X(s)' = "idle" /\ ActorsBeside(s)
  BY <1>3, <1>4, HandlerGoes, Zenon
<1>8. UNCHANGED <<current, made, dying, mailbox, vpn, prev, controllerOf, live, enabled, posted>>
  BY <1>1, Zenon DEF serviceVars, flagVars
<1>9. Beside(s)
  BY <1>7, <1>8, BesideIs, Zenon
<1>10. HandlerOK(s)' /\ ~Swapping(s)' /\ Held(s)' = vpn[s]
  BY <1>2, <1>3, <1>7, <1>8 DEF HandlerOK, Stopping, Swapping, Held, Serving
<1>11. Published(s)'
  BY <1>6, <1>7, <1>8, Zenon DEF Published
<1>12. FlagUp(s)'
  BY <1>1, <1>2, <1>3, <1>7, <1>8, Zenon DEF FlagUp, Retrying, StopPath, Stopping
<1>13. LoopMoves(s) /\ TunMoves(s)
  BY <1>3, <1>4, <1>8, <1>10, Zenon DEF LoopMoves, TunMoves
<1>14. Posted'
  <2>1. ~StopPath(s)
    BY <1>1 DEF StopPath, Stopping
  <2> QED BY <2>1, <1>2, <1>8, PostedKeeps, Zenon
<1> QED BY <1>2, <1>5, <1>9, <1>10, <1>11, <1>12, <1>13, <1>14, HandlerStep, Zenon

LEMMA PublishCore ==
    ASSUME TunnelTypeOK, TunnelCore, NEW s \in Services, publish(handler(s))
    PROVE  TunnelCore'
<1>0. nativeOf(handler(s)) = controllerOf[s]
  BY DEF nativeOf, handler
<1>1. /\ H(s) = "publish" /\ live' = controllerOf[s] /\ goto(handler(s), "check")
      /\ UNCHANGED <<current, made, dying, mailbox, vpn, prev, pfd, controllerOf, loop, bound, enabled, posted>>
  BY <1>0, Zenon DEF publish, H, serviceVars, tunVars, flagVars
<1>2. s = current /\ HandlerOK(s) /\ FlagUp(s) /\ Published(s)
  BY <1>1, HandlerIs DEF TunnelCore
<1>3. X(s) = "idle" /\ vpn[s] # None
  BY <1>1, <1>2 DEF HandlerOK
<1>4. pfd' = {} /\ Held(s) = vpn[s] /\ ~StopPath(s)
  <2>1. Held(s) = vpn[s] /\ ~Unread(s) /\ ~StopPath(s)
    BY <1>1, <1>2 DEF Held, Serving, Stopping, Unread, StopPath
  <2> QED BY <2>1, <1>1, <1>2, PfdIs, Zenon
<1>5. H(s)' = "check" /\ X(s)' = "idle" /\ ActorsBeside(s)
  BY <1>1, <1>3, HandlerGoes, Zenon
<1>6. Beside(s)
  BY <1>1, <1>5, BesideIs, Zenon
<1>7. HandlerOK(s)' /\ ~Swapping(s)' /\ Held(s)' = vpn[s] /\ Published(s)'
  BY <1>1, <1>2, <1>3, <1>5, Zenon DEF HandlerOK, Stopping, Swapping, Held, Serving, Published
<1>8. FlagUp(s)'
  BY <1>1, <1>2, <1>3, <1>4, <1>5 DEF FlagUp, Retrying, Stopping
<1>9. LoopMoves(s) /\ TunMoves(s)
  BY <1>1, <1>4, <1>7, Zenon DEF LoopMoves, TunMoves
<1>10. Posted'
  BY <1>1, <1>2, <1>4, PostedKeeps, Zenon
<1> QED BY <1>2, <1>4, <1>6, <1>7, <1>8, <1>9, <1>10, HandlerStep, Zenon
LEMMA StopHandlerCore ==
    ASSUME TunnelTypeOK, TunnelCore, NEW s \in Services, H(s) \in Stopping,
           NEW p \in Stopping, goto(handler(s), p),
           UNCHANGED <<current, made, dying, mailbox, vpn, prev, pfd, controllerOf, loop, enabled, posted>>
    PROVE  TunnelCore'
<1>1. s = current /\ HandlerOK(s) /\ FlagUp(s)
  BY HandlerIs DEF TunnelCore, Stopping
<1>2. H(s)' = p /\ X(s)' = X(s) /\ Then(s)' = Then(s) /\ ActorsBeside(s)
  BY HandlerGoes, Zenon
<1>3. Beside(s)
  BY <1>2, BesideIs, Zenon
<1>4. /\ HandlerOK(s)' /\ (Swapping(s)' <=> Swapping(s)) /\ (Serving(s)' <=> Serving(s))
      /\ (Unread(s)' <=> Unread(s)) /\ Published(s)' /\ (StopPath(s)' <=> StopPath(s))
      /\ (Retrying(s)' <=> Retrying(s)) /\ H(s) \notin {"startNative", "publish", "check", "idle", "handover"}
  BY <1>1, <1>2 DEF HandlerOK, Stopping, Swapping, Serving, Unread, Published, StopPath, Retrying
<1>5. Held(s)' = Held(s)
  BY <1>4, Zenon DEF Held
<1>6. FlagUp(s)'
  <2>1. p # "handover"
    BY DEF Stopping
  <2> QED BY <2>1, <1>1, <1>2, <1>4 DEF FlagUp
<1>7. LoopMoves(s) /\ TunMoves(s)
  BY <1>4, <1>5, Zenon DEF LoopMoves, TunMoves
<1>8. Posted'
  BY <1>1, <1>4, PostedKeeps
<1>9. pfd' \subseteq (IF Unread(s)' THEN {vpn'[s]} ELSE {})
  BY <1>1, <1>4, PfdIs, Zenon
<1> QED BY <1>1, <1>3, <1>4, <1>6, <1>7, <1>8, <1>9, HandlerStep, Zenon

LEMMA StopExecutorCore ==
    ASSUME TunnelTypeOK, TunnelCore, NEW s \in Services, X(s) \in Stopping,
           NEW p \in Stopping, goto(executor(s), p),
           UNCHANGED <<current, made, dying, mailbox, vpn, prev, pfd, controllerOf, loop, bound, enabled, posted>>,
           live' = live \/ live = controllerOf[s]
    PROVE  TunnelCore'
<1>1. s # current /\ ExecutorOK(s)
  BY ExecutorIs DEF Stopping
<1>2. H(s)' = H(s) /\ X(s)' = p /\ task'[executor(s)] = task[executor(s)] /\ ActorsBeside(s)
  BY ExecutorGoes, Zenon
<1>3. Held(s) = vpn[s] /\ vpn[s] # None
  BY <1>1, Zenon DEF Held, Serving, ExecutorOK
<1>4. ExecutorOK(s)' /\ Held(s)' = vpn[s] /\ ~Swapping(s)'
  BY <1>1, <1>2, <1>3 DEF ExecutorOK, Held, Serving, Swapping, Stopping
<1>5. Beside(s) /\ LoopMoves(s) /\ TunMoves(s)
  BY <1>2, <1>3, <1>4, BesideIs, Zenon DEF LoopMoves, TunMoves
<1>6. \A r \in Services : Reads(r) => /\ bound'[controllerOf[r]] = bound[controllerOf[r]]
                                      /\ live = controllerOf[r] => live' = live
  BY <1>1, <1>3, ReaderElsewhere, Zenon
<1>7. (enabled' <=> enabled) /\ (dying' <=> dying) /\ pfd' \subseteq pfd
  BY Zenon
<1> QED BY <1>1, <1>4, <1>5, <1>6, <1>7, ExecutorStep, Zenon

LEMMA JoinHandlerCore ==
    ASSUME TunnelTypeOK, TunnelCore, NEW s \in Services, join(handler(s))
    PROVE  TunnelCore'
<1>0. nativeOf(handler(s)) = controllerOf[s]
  BY DEF nativeOf, handler
<1>1. /\ H(s) = "join" /\ loop' = [loop EXCEPT ![controllerOf[s]] = None] /\ goto(handler(s), Then(s))
      /\ UNCHANGED <<current, made, dying, mailbox, vpn, prev, pfd, controllerOf, enabled, posted>>
  BY <1>0, Zenon DEF join, H, Then, serviceVars, tunVars, flagVars
<1>2. s = current /\ HandlerOK(s) /\ FlagUp(s)
  BY <1>1, HandlerIs, Zenon DEF TunnelCore
<1>3. /\ X(s) = "idle"
      /\ \/ Then(s) = "closed" /\ vpn[s] # None
         \/ Then(s) = "swapped" /\ vpn[s] # None /\ prev[s] # None
         \/ Then(s) = "retry" /\ vpn[s] = None /\ prev[s] # None
  BY <1>1, <1>2 DEF HandlerOK, Stopping
<1>4. H(s)' = Then(s) /\ X(s)' = "idle" /\ ActorsBeside(s)
  BY <1>1, <1>3, HandlerGoes, Zenon
<1>5. Held(s) # None
  BY <1>1, <1>2, <1>3, Zenon DEF Held, Serving, Swapping, Stopping
<1>6. HandlerOK(s)' /\ ~Swapping(s)' /\ Held(s)' = None /\ Published(s)'
  BY <1>1, <1>2, <1>3, <1>4, Zenon DEF HandlerOK, Stopping, Swapping, Held, Serving, Published
<1>7. /\ Unread(s) => Unread(s)'
      /\ StopPath(s)' <=> StopPath(s)
      /\ Retrying(s)' <=> Retrying(s)
  BY <1>1, <1>2, <1>3, <1>4, Zenon DEF Unread, StopPath, Retrying, Stopping
<1>8. FlagUp(s)'
  <2>1. H(s)' # "handover"
    BY <1>3, <1>4
  <2> QED BY <2>1, <1>1, <1>2, <1>7 DEF FlagUp
<1>9. Beside(s) /\ LoopMoves(s) /\ TunMoves(s)
  BY <1>1, <1>4, <1>5, <1>6, BesideIs, Zenon DEF LoopMoves, TunMoves
<1>10. Posted'
  BY <1>1, <1>2, <1>7, PostedKeeps
<1>11. pfd' \subseteq (IF Unread(s)' THEN {vpn'[s]} ELSE {})
  BY <1>1, <1>2, <1>7, PfdIs, Zenon
<1> QED BY <1>2, <1>6, <1>8, <1>9, <1>10, <1>11, HandlerStep, Zenon

LEMMA JoinExecutorCore ==
    ASSUME TunnelTypeOK, TunnelCore, NEW s \in Services, join(executor(s))
    PROVE  TunnelCore'
<1> DEFINE c == controllerOf[s]
<1>0. nativeOf(executor(s)) = c
  BY DEF nativeOf, executor
<1>1. /\ X(s) = "join" /\ loop' = [loop EXCEPT ![c] = None] /\ goto(executor(s), task[executor(s)])
      /\ bound' = [bound EXCEPT ![c] = None] \/ bound' = bound
      /\ UNCHANGED <<current, made, dying, mailbox, vpn, prev, pfd, controllerOf, live, enabled, posted>>
  BY <1>0, Zenon DEF join, X, serviceVars, tunVars, flagVars
<1>2. s # current /\ ExecutorOK(s)
  BY <1>1, ExecutorIs
<1>3. Held(s) = vpn[s] /\ vpn[s] # None /\ task[executor(s)] = "destroyed"
  BY <1>1, <1>2 DEF Held, Serving, ExecutorOK, Stopping
<1>4. H(s)' = H(s) /\ X(s)' = "destroyed" /\ ActorsBeside(s)
  BY <1>1, <1>3, ExecutorGoes, Zenon
<1>5. ExecutorOK(s)' /\ Held(s)' = None /\ ~Swapping(s)'
  BY <1>1, <1>2, <1>4 DEF ExecutorOK, Held, Serving, Swapping, Stopping
<1>6. Beside(s) /\ LoopMoves(s) /\ TunMoves(s)
  BY <1>1, <1>3, <1>4, <1>5, BesideIs, Zenon DEF LoopMoves, TunMoves
<1>7. ASSUME NEW r \in Services, Reads(r) PROVE bound'[controllerOf[r]] = bound[controllerOf[r]]
  <2>1. controllerOf[r] # c /\ controllerOf[r] \in DOMAIN bound
    BY <1>2, <1>3, <1>7, ReaderElsewhere, Zenon DEF TunnelTypeOK, ControlTypes
  <2> QED BY <1>1, <2>1, Zenon
<1>8. (enabled' <=> enabled) /\ (dying' <=> dying) /\ pfd' \subseteq pfd /\ live' = live /\ posted' = posted
  BY <1>1, Zenon
<1> QED BY <1>2, <1>5, <1>6, <1>7, <1>8, ExecutorStep, Zenon

LEMMA NativeCore ==
    ASSUME TunnelTypeOK, TunnelCore, NEW a \in Actors, ~disturbed',
           startNative(a) \/ publish(a) \/ stopNative(a) \/ retire(a) \/ join(a)
    PROVE  TunnelCore'
<1> DEFINE s == a[1]
<1>1. s \in Services /\ (a = handler(s) \/ a = executor(s))
  BY ActorFacts, Zenon
<1>2. "stopNative" \in Stopping /\ "retire" \in Stopping /\ "join" \in Stopping
  BY Zenon DEF Stopping
<1> HIDE DEF s
<1>3. CASE a = handler(s)
  <2>1. CASE startNative(a) \/ publish(a) \/ join(a)
    BY <1>1, <1>3, <2>1, StartNativeCore, PublishCore, JoinHandlerCore, Zenon
  <2>2. CASE stopNative(a)
    <3>1. /\ H(s) = "stopNative" /\ goto(handler(s), "retire")
          /\ UNCHANGED <<current, made, dying, mailbox, vpn, prev, pfd, controllerOf, loop, enabled, posted>>
      BY <1>3, <2>2, Zenon DEF stopNative, H, serviceVars, tunVars, flagVars
    <3> QED BY <1>1, <1>2, <3>1, StopHandlerCore, Zenon
  <2>3. CASE retire(a)
    <3>1. /\ H(s) = "retire" /\ goto(handler(s), "join")
          /\ UNCHANGED <<current, made, dying, mailbox, vpn, prev, pfd, controllerOf, loop, enabled, posted>>
      BY <1>3, <2>3, Zenon DEF retire, H, serviceVars, tunVars, flagVars
    <3> QED BY <1>1, <1>2, <3>1, StopHandlerCore, Zenon
  <2> QED BY <2>1, <2>2, <2>3, Zenon
<1>4. CASE a = executor(s)
  <2>1. CASE startNative(a) \/ publish(a)
    <3>1. X(s) \in {"startNative", "publish"}
      BY <1>4, <2>1, Zenon DEF startNative, publish, X
    <3>2. ExecutorOK(s)
      BY <1>1, <3>1, ExecutorIs
    <3> QED BY <3>1, <3>2 DEF ExecutorOK, Stopping
  <2>2. CASE join(a)
    BY <1>1, <1>4, <2>2, JoinExecutorCore, Zenon
  <2>3. CASE stopNative(a)
    <3>1. /\ X(s) = "stopNative" /\ goto(executor(s), "retire") /\ live' = live
          /\ UNCHANGED <<current, made, dying, mailbox, vpn, prev, pfd, controllerOf, loop, bound, enabled, posted>>
      BY <1>4, <2>3, Zenon DEF stopNative, X, serviceVars, tunVars, flagVars
    <3> QED BY <1>1, <1>2, <3>1, StopExecutorCore, Zenon
  <2>4. CASE retire(a)
    <3>0. nativeOf(a) = controllerOf[s]
      BY Zenon DEF nativeOf, s
    <3>1. /\ X(s) = "retire" /\ goto(executor(s), "join")
          /\ UNCHANGED <<current, made, dying, mailbox, vpn, prev, pfd, controllerOf, loop, bound, enabled, posted>>
      BY <1>4, <2>4, Zenon DEF retire, X, serviceVars, tunVars, flagVars
    <3>2. live' = live \/ live = controllerOf[s]
      BY <2>4, <3>0, Zenon DEF retire, ownsHolder
    <3> QED BY <1>1, <1>2, <3>1, <3>2, StopExecutorCore, Zenon
  <2> QED BY <2>1, <2>2, <2>3, <2>4, Zenon
<1> QED BY <1>1, <1>3, <1>4, Zenon
-----------------------------------------------------------------------------
(* The main thread.                                                           *)
ActorsStay == /\ UNCHANGED <<vpn, prev, pfd, loop, bound, live>>
              /\ \A r \in Services : /\ H(r)' = H(r) /\ X(r)' = X(r) /\ Then(r)' = Then(r)
                                     /\ task'[executor(r)] = task[executor(r)]

LEMMA StayIs ==
    ASSUME UNCHANGED <<at, task, vpn, prev, pfd, loop, bound, live>>
    PROVE  ActorsStay
BY Zenon DEF ActorsStay, H, X, Then

(* The service stays; its mailbox or the flags change.                        *)
LEMMA FlagsCore ==
    ASSUME TunnelTypeOK, TunnelCore, NEW s \in Services, s = current, ActorsStay,
           UNCHANGED <<current, made, controllerOf>>,
           \A r \in Services : r # s => mailbox'[r] = mailbox[r],
           FlagUp(s)', Posted'
    PROVE  TunnelCore'
<1>1. HandlerOK(s) /\ Published(s)
  BY Zenon DEF TunnelCore, Local
<1>2. H(s)' = H(s) /\ X(s)' = X(s) /\ Then(s)' = Then(s) /\ UNCHANGED <<vpn, prev, pfd, loop, bound, live>>
      /\ Beside(s)
  BY BesideIs, Zenon DEF ActorsStay, ActorsBeside
<1>3. HandlerOK(s)' /\ Published(s)'
  BY <1>1, <1>2, Zenon DEF HandlerOK, Published
<1>4. (Unread(s)' <=> Unread(s)) /\ (Swapping(s)' <=> Swapping(s)) /\ Held(s)' = Held(s)
  BY <1>2, Zenon DEF Unread, Swapping, Serving, Held
<1>5. LoopMoves(s) /\ TunMoves(s)
  BY <1>2, <1>4, Zenon DEF LoopMoves, TunMoves
<1>6. pfd' \subseteq (IF Unread(s)' THEN {vpn'[s]} ELSE {})
  BY <1>2, <1>4, PfdIs, Zenon
<1> QED BY <1>2, <1>3, <1>5, <1>6, HandlerStep, Zenon

LEMMA ReceiveCore ==
    ASSUME TunnelConstants, TunnelTypeOK, TunnelCore, NEW cmd \in Commands, receive(cmd),
           cmd = "RELOAD" => enabled
    PROVE  TunnelCore'
<1>1. ActorsStay /\ UNCHANGED <<dying, enabled, posted>>
  BY StayIs, Zenon DEF receive, actorVars, tunVars, flagVars
<1>2. CASE current # None
  <2>1. PICK s \in Services : s = current
    BY <1>2, CurrentService, Zenon
  <2> DEFINE box == mailbox[s]
  <2>2. /\ UNCHANGED <<current, made, controllerOf>>
        /\ mailbox' = [mailbox EXCEPT ![s] = queue(box, cmd)]
    BY <1>2, <2>1, Zenon DEF receive
  <2>3. mailbox'[s] = queue(box, cmd) /\ \A r \in Services : r # s => mailbox'[r] = mailbox[r]
    BY <2>1, <2>2, Zenon DEF TunnelTypeOK, BoxTypes
  <2>4. FlagUp(s) /\ box \in Seq(Commands) /\ Once(box)
    BY <2>1, Zenon DEF TunnelCore, TunnelTypeOK, BoxTypes
  <2>5. /\ H(s)' = H(s) /\ Then(s)' = Then(s) /\ vpn' = vpn
        /\ (Retrying(s)' <=> Retrying(s)) /\ (StopPath(s)' <=> StopPath(s))
    BY <1>1, <2>1, Zenon DEF ActorsStay, Retrying, StopPath
  <2> HIDE DEF box
  <2>6. /\ queue(box, cmd) \in Seq(Commands)
        /\ \A q : Among(q, queue(box, cmd)) <=>
                     \/ q = cmd
                     \/ Among(q, box) /\ (cmd = "STOP" \/ q # "STOP")
    BY <2>4, QueueFacts, Zenon
  <2>7. (~enabled /\ ~Among("RELOAD", box)) => ~Among("RELOAD", mailbox'[s])
    BY <2>3, <2>6, Zenon
  <2>8. (Waits(box) /\ ~Among("RELOAD", box)) => Waits(mailbox'[s])
    <3>1. Among("START", box) => Among("START", queue(box, cmd))
      BY <2>6
    <3> QED BY <2>3, <2>4, <2>6, <3>1, WaitsIs, Zenon
  <2>9. FlagUp(s)'
    BY <1>1, <2>2, <2>4, <2>5, <2>7, <2>8, Zenon DEF FlagUp, box
  <2>10. Posted'
    BY <1>1, <2>1, <2>2, <2>5, PostedKeeps, Zenon
  <2> QED BY <1>1, <2>1, <2>2, <2>3, <2>9, <2>10, FlagsCore, Zenon
<1>3. CASE current = None
  <2>0. PICK s \in Services : s = made + 1
    BY <1>3, CurrentService, Zenon DEF receive
  <2>1. /\ current' = s /\ made' = s /\ mailbox' = [mailbox EXCEPT ![s] = queue(mailbox[s], cmd)]
        /\ controllerOf' = [controllerOf EXCEPT ![s] = scope']
    BY <1>3, <2>0, Zenon DEF receive
  <2>2. /\ made \in Nat /\ s > made /\ \A r \in Services : r \in Nat /\ r # None
        /\ \A r \in Services : r > s => r > made
    BY <2>0 DEF TunnelTypeOK, ServiceTypes, Services, None
  <2>3. \A r \in Services : ExecutorOK(r) /\ r # current
    BY <1>3, <2>2, Zenon DEF TunnelCore, Local
  <2>4. X(s) = "idle" /\ H(s) \in {"idle", "check"} /\ vpn[s] = None
    BY <2>1, <2>2, <2>3, Zenon DEF ExecutorOK
  <2>5. \A r \in Services : r # s => mailbox'[r] = mailbox[r] /\ controllerOf'[r] = controllerOf[r]
    BY <2>1, Zenon DEF TunnelTypeOK, BoxTypes, ControlTypes
  <2>6. H(s)' = H(s) /\ X(s)' = X(s) /\ UNCHANGED <<vpn, prev, pfd, loop, bound, live>>
    BY <1>1, <2>1, Zenon DEF ActorsStay
  <2>7. \A r \in Services : Local(r)'
    <3>1. HandlerOK(s)'
      BY <2>4, <2>6 DEF HandlerOK, Stopping
    <3>2. ASSUME NEW r \in Services, r # s PROVE ExecutorOK(r)'
      BY <1>1, <2>1, <2>2, <2>3, <2>5, <3>2, Zenon DEF ActorsStay, ExecutorOK
    <3> QED BY <2>1, <3>1, <3>2, Zenon DEF Local
  <2>8. \A r \in Services : ~Swapping(r)' /\ ~Unread(r)
    BY <2>1, <2>3, <2>4, <2>6 DEF Swapping, Unread, Stopping
  <2>9. Held(s) = None /\ Held(s)' = None
    BY <2>1, <2>3, <2>4, <2>6 DEF Held, Serving, Swapping, Stopping
  <2>10. ASSUME NEW r \in Services, r # s PROVE Held(r)' = Held(r)
    <3>1. (Serving(r)' <=> Serving(r)) /\ ~Swapping(r) /\ ~Swapping(r)' /\ vpn'[r] = vpn[r]
      BY <1>1, <2>1, <2>3, <2>8, <2>10, Zenon DEF Serving, Swapping, ActorsStay
    <3> QED BY <3>1, Zenon DEF Held
  <2>11. Holding'
    BY <2>5, <2>6, <2>9, <2>10, Zenon DEF TunnelCore, Holding
  <2>12. Owned'
    <3> SUFFICES ASSUME NEW c \in Controllers, loop'[c] # None
                 PROVE  \E r \in Services : controllerOf'[r] = c /\ Held(r)' = loop'[c]
      BY Zenon DEF Owned
    <3>1. PICK r \in Services : controllerOf[r] = c /\ Held(r) = loop[c]
      BY <2>6, Zenon DEF TunnelCore, Owned
    <3>2. r # s
      BY <2>6, <2>9, <3>1, Zenon
    <3> QED BY <2>5, <2>6, <2>10, <3>1, <3>2, Zenon
  <2>13. Apart' /\ Descriptors'
    BY <2>6, <2>8, Zenon DEF TunnelCore, Apart, Descriptors
  <2>14. ASSUME NEW r \in Services PROVE Published(r)' /\ FlagUp(r)'
    <3>1. CASE r # s
      BY <2>1, <3>1, Zenon DEF Published, FlagUp
    <3>2. CASE r = s
      BY <2>4, <2>6, <3>2, Zenon DEF Published, FlagUp, Retrying, Stopping
    <3> QED BY <3>1, <3>2, Zenon
  <2>15. Posted'
    <3>1. posted = "none"
      BY <2>3, Zenon DEF TunnelCore, Posted
    <3> QED BY <1>1, <3>1 DEF Posted
  <2> QED BY <2>7, <2>11, <2>12, <2>13, <2>14, <2>15, Zenon DEF TunnelCore
<1> QED BY <1>2, <1>3, Zenon

LEMMA OnDestroyCore ==
    ASSUME TunnelConstants, TunnelTypeOK, TunnelCore, onDestroy, ~disturbed'
    PROVE  TunnelCore'
<1>0. PICK s \in Services : s = current
  BY CurrentService, Zenon DEF onDestroy, TunnelTypeOK, ServiceTypes
<1>1. /\ s = current /\ dying /\ ~(s > made) /\ \A r \in Services : r # None
  BY <1>0, CurrentService, Zenon DEF onDestroy
<1>2. /\ posted # "ahead" /\ current' = None /\ mailbox' = [mailbox EXCEPT ![s] = <<>>]
      /\ goto(executor(s), "destroy") /\ H(s) \in {"idle", "check"}
      /\ UNCHANGED <<made, vpn, prev, pfd, controllerOf, loop, bound, live, enabled, posted>>
  BY <1>1, Zenon DEF onDestroy, executor, H, handler, tunVars, controlVars, flagVars
<1>3. X(s)' = "destroy" /\ H(s)' = H(s) /\ ActorsBeside(s)
  BY <1>1, <1>2, ExecutorGoes, Zenon
<1>4. mailbox'[s] = <<>> /\ \A r \in Services : r # s => mailbox'[r] = mailbox[r]
  BY <1>1, <1>2, Zenon DEF TunnelTypeOK, BoxTypes
<1>5. \A r \in Services : r # current'
  BY <1>1, <1>2, Zenon
<1>6. \A r \in Services : Local(r)'
  <2>1. ExecutorOK(s)'
    BY <1>1, <1>2, <1>3, <1>4 DEF ExecutorOK, Stopping
  <2>2. ASSUME NEW r \in Services, r # s PROVE ExecutorOK(r)'
    <3>1. ExecutorOK(r)
      BY <1>1, <2>2, Zenon DEF TunnelCore, Local
    <3> QED BY <1>2, <1>3, <1>4, <2>2, <3>1, Zenon DEF ActorsBeside, ExecutorOK
  <2> QED BY <1>5, <2>1, <2>2, Zenon DEF Local
<1>7. \A r \in Services : ~Swapping(r)' /\ ~Unread(r) /\ ~Swapping(r)
  BY <1>1, <1>2, <1>5 DEF Swapping, Unread, Stopping
<1>8. ASSUME NEW r \in Services PROVE Held(r)' = Held(r)
  <2>1. CASE r = s
    BY <1>1, <1>2, <1>3, <1>5, <2>1 DEF Held, Serving
  <2>2. CASE r # s
    <3>1. (Serving(r)' <=> Serving(r)) /\ vpn'[r] = vpn[r]
      BY <1>1, <1>2, <1>3, <1>5, <2>2, Zenon DEF Serving, ActorsBeside
    <3> QED BY <1>7, <3>1, Zenon DEF Held
  <2> QED BY <2>1, <2>2, Zenon
<1>9. Holding'
  BY <1>2, <1>8, Zenon DEF TunnelCore, Holding
<1>10. Owned'
  <2> SUFFICES ASSUME NEW c \in Controllers, loop'[c] # None
               PROVE  \E r \in Services : controllerOf'[r] = c /\ Held(r)' = loop'[c]
    BY Zenon DEF Owned
  <2>1. PICK r \in Services : controllerOf[r] = c /\ Held(r) = loop[c]
    BY <1>2, Zenon DEF TunnelCore, Owned
  <2> QED BY <1>2, <1>8, <2>1, Zenon
<1>11. Apart' /\ Descriptors'
  BY <1>2, <1>7, Zenon DEF TunnelCore, Apart, Descriptors
<1>12. \A r \in Services : Published(r)' /\ FlagUp(r)'
  BY <1>5, Zenon DEF Published, FlagUp
<1>13. Posted'
  <2>1. posted' = "none"
    BY <1>2, Zenon DEF TunnelCore, Posted
  <2> QED BY <2>1 DEF Posted
<1> QED BY <1>6, <1>9, <1>10, <1>11, <1>12, <1>13, Zenon DEF TunnelCore

\* The variables the core speaks of; a step that leaves them alone keeps it.
coreVars == <<current, made, dying, mailbox, at, task, vpn, prev, pfd, controllerOf, loop, bound, live,
              enabled, posted>>

LEMMA SameCore ==
    ASSUME TunnelCore, UNCHANGED coreVars
    PROVE  TunnelCore'
<1>1. ActorsStay /\ UNCHANGED <<current, made, dying, mailbox, vpn, prev, pfd, controllerOf, loop, bound, live,
                                enabled, posted>>
  BY StayIs, Zenon DEF coreVars
<1>2. \A r \in Services : Same(r)
  BY <1>1, Zenon DEF ActorsStay, Same
<1>3. \A r \in Services : /\ Local(r)' /\ Held(r)' = Held(r) /\ (Swapping(r)' <=> Swapping(r))
                          /\ (Unread(r)' <=> Unread(r))
  BY <1>1, <1>2, SameKeeps, Zenon DEF TunnelCore
<1>4. \A r \in Services : Published(r)' /\ FlagUp(r)'
  BY <1>1, <1>2, Zenon DEF TunnelCore, Published, FlagUp, Same, Retrying, StopPath
<1>5. Holding' /\ Apart'
  BY <1>1, <1>3, Zenon DEF TunnelCore, Holding, Apart
<1>6. Owned'
  <2> SUFFICES ASSUME NEW c \in Controllers, loop'[c] # None
               PROVE  \E r \in Services : controllerOf'[r] = c /\ Held(r)' = loop'[c]
    BY Zenon DEF Owned
  <2>1. PICK r \in Services : controllerOf[r] = c /\ Held(r) = loop[c]
    BY <1>1, Zenon DEF TunnelCore, Owned
  <2> QED BY <1>1, <1>3, <2>1, Zenon
<1>7. Descriptors'
  <2> SUFFICES ASSUME NEW t \in pfd' PROVE \E r \in Services : Unread(r)' /\ t = vpn'[r]
    BY Zenon DEF Descriptors
  <2>1. PICK r \in Services : Unread(r) /\ t = vpn[r]
    BY <1>1, Zenon DEF TunnelCore, Descriptors
  <2> QED BY <1>1, <1>3, <2>1, Zenon
<1>8. Posted'
  <2>1. posted' \in {"none", "ahead"}
    BY <1>1, Zenon DEF TunnelCore, Posted
  <2>2. ASSUME posted' = "ahead" PROVE \E r \in Services : r = current' /\ (dying' \/ StopPath(r)')
    <3>1. PICK r \in Services : r = current /\ (dying \/ StopPath(r))
      BY <1>1, <2>2, Zenon DEF TunnelCore, Posted
    <3>2. StopPath(r)' <=> StopPath(r)
      BY <1>2, Zenon DEF Same, StopPath
    <3>3. dying => dying'
      BY <1>1
    <3> QED BY <1>1, <3>1, <3>2, <3>3, Zenon
  <2> QED BY <2>1, <2>2, Zenon DEF Posted
<1> QED BY <1>3, <1>4, <1>5, <1>6, <1>7, <1>8, Zenon DEF TunnelCore

LEMMA MainCore ==
    ASSUME TunnelConstants, TunnelTypeOK, TunnelCore, ~disturbed',
           \/ startVpnService \/ reloadVpnService \/ stopVpnService \/ alwaysOnIntent
           \/ onRevoke \/ onDestroy \/ postedWrite \/ releaseScope
    PROVE  TunnelCore'
<1>0. "START" \in Commands /\ "RELOAD" \in Commands /\ "STOP" \in Commands
      /\ "START" # "RELOAD" /\ "STOP" # "RELOAD"
  BY DEF Commands
<1>1. CASE startVpnService \/ stopVpnService \/ reloadVpnService
  BY <1>0, <1>1, ReceiveCore, Zenon DEF startVpnService, stopVpnService, reloadVpnService, deliver
<1>2. ASSUME current # None, dying' = TRUE, UNCHANGED <<current, made, mailbox, actorVars, tunVars, controlVars, posted>>
      PROVE  TunnelCore'
  <2>1. PICK s \in Services : s = current
    BY <1>2, CurrentService, Zenon
  <2>2. ActorsStay /\ UNCHANGED <<current, made, mailbox, controllerOf, posted>> /\ dying'
    BY <1>2, StayIs DEF actorVars, tunVars, controlVars
  <2>3. FlagUp(s)'
    BY <2>2, Zenon DEF FlagUp
  <2>4. Posted'
    BY <2>1, <2>2, PostedKeeps, Zenon
  <2> QED BY <2>1, <2>2, <2>3, <2>4, FlagsCore, Zenon
<1>3. CASE alwaysOnIntent
  <2>1. CASE ~enabled /\ deliver("STOP")
    BY <1>0, <2>1, ReceiveCore, Zenon DEF deliver
  <2>2. CASE ~(~enabled /\ deliver("STOP"))
    BY <1>2, <1>3, <2>2, Zenon DEF alwaysOnIntent, flagVars
  <2> QED BY <2>1, <2>2, Zenon
<1>4. CASE onRevoke
  BY <1>2, <1>4, Zenon DEF onRevoke
<1>5. CASE onDestroy
  BY <1>5, OnDestroyCore
<1>6. CASE postedWrite
  <2>1. /\ ActorsStay /\ posted = "ahead" /\ posted' = "none" /\ Posted
        /\ UNCHANGED <<current, made, dying, mailbox, controllerOf>>
    BY <1>6, StayIs, Zenon DEF postedWrite, serviceVars, actorVars, tunVars, controlVars, TunnelCore, Posted
  <2>2. PICK s \in Services : s = current /\ (dying \/ StopPath(s))
    BY <2>1, Zenon DEF Posted
  <2>3. H(s)' = H(s) /\ Then(s)' = Then(s)
    BY <2>1, Zenon DEF ActorsStay
  <2>4. FlagUp(s)'
    <3>1. CASE dying
      BY <2>1, <3>1 DEF FlagUp
    <3>2. CASE StopPath(s)
      BY <2>3, <3>2 DEF FlagUp, StopPath, Retrying, Stopping
    <3> QED BY <2>2, <3>1, <3>2, Zenon
  <2>5. Posted'
    BY <2>1 DEF Posted
  <2> QED BY <2>1, <2>2, <2>4, <2>5, FlagsCore, Zenon
<1>7. CASE releaseScope
  <2>1. CASE receive("STOP")
    BY <1>0, <2>1, ReceiveCore, Zenon
  <2>2. CASE ~receive("STOP")
    <3>1. UNCHANGED coreVars
      BY <1>7, <2>2, Zenon DEF releaseScope, coreVars, serviceVars, actorVars, tunVars, flagVars
    <3> QED BY <3>1, SameCore, Zenon
  <2> QED BY <2>1, <2>2, Zenon
<1> QED BY <1>1, <1>3, <1>4, <1>5, <1>6, <1>7, Zenon

\* Once disturbed, always disturbed.
LEMMA DisturbedStays ==
    ASSUME TunnelNext, ~disturbed'
    PROVE  ~disturbed
<1>1. CASE startVpnService \/ reloadVpnService \/ stopVpnService \/ alwaysOnIntent
  BY <1>1, Zenon DEF startVpnService, reloadVpnService, stopVpnService, alwaysOnIntent, deliver, receive
<1>2. CASE onRevoke \/ onDestroy \/ postedWrite \/ releaseScope
  BY <1>2, Zenon DEF onRevoke, onDestroy, postedWrite, releaseScope, receive
<1>3. ASSUME NEW a \in Actors, startNative(a) \/ publish(a) \/ stopNative(a) \/ retire(a) \/ join(a)
      PROVE  ~disturbed
  BY <1>3, Zenon DEF startNative, publish, stopNative, retire, join
<1>4. ASSUME NEW s \in Services,
             \/ handleIntent(s) \/ establish(s) \/ handover(s) \/ swapped(s)
             \/ retry(s) \/ closed(s) \/ stopped(s) \/ check(s)
             \/ destroy(s) \/ destroyed(s)
      PROVE  ~disturbed
  BY <1>4, Zenon DEF handleIntent, establish, handover, swapped, retry, closed, stopped, check, destroy, destroyed
<1> QED BY <1>1, <1>2, <1>3, <1>4, Zenon DEF TunnelNext

\* Every step keeps the invariant, the start establishes it, and it gives the
\* property.
LEMMA TunnelStep ==
    ASSUME TunnelConstants, TunnelInv, [TunnelNext]_tunnelVars
    PROVE  TunnelInv'
<1>0. TunnelTypeOK /\ (~disturbed => TunnelCore)
  BY Zenon DEF TunnelInv
<1>1. CASE UNCHANGED tunnelVars
  <2>1. UNCHANGED <<serviceVars, actorVars, tunVars, controlVars, flagVars, disturbed>>
    BY <1>1, Zenon DEF tunnelVars
  <2>2. TunnelTypeOK'
    BY <1>0, <2>1, Zenon DEF serviceVars, actorVars, tunVars, controlVars, TunnelTypeOK, ServiceTypes, BoxTypes,
                     ActorTypes, TunTypes, ControlTypes
  <2>3. UNCHANGED coreVars
    BY <2>1, Zenon DEF coreVars, serviceVars, actorVars, tunVars, controlVars, flagVars
  <2>4. ~disturbed' => ~disturbed
    BY <2>1
  <2> QED BY <1>0, <2>2, <2>3, <2>4, SameCore, Zenon DEF TunnelInv
<1>2. ASSUME \/ startVpnService \/ reloadVpnService \/ stopVpnService \/ alwaysOnIntent
             \/ onRevoke \/ onDestroy \/ postedWrite \/ releaseScope,
             ~disturbed' => ~disturbed
      PROVE  TunnelInv'
  BY <1>0, <1>2, MainTypes, MainCore, Zenon DEF TunnelInv
<1>3. ASSUME NEW a \in Actors, startNative(a) \/ publish(a) \/ stopNative(a) \/ retire(a) \/ join(a),
             ~disturbed' => ~disturbed
      PROVE  TunnelInv'
  BY <1>0, <1>3, NativeTypes, NativeCore, Zenon DEF TunnelInv
<1>4. ASSUME NEW s \in Services,
             \/ handleIntent(s) \/ establish(s) \/ handover(s) \/ swapped(s)
             \/ retry(s) \/ closed(s) \/ stopped(s) \/ check(s)
             \/ destroy(s) \/ destroyed(s),
             ~disturbed' => ~disturbed
      PROVE  TunnelInv'
  <2>1. TunnelTypeOK'
    BY <1>0, <1>4, HandlerTypes, Zenon
  <2>2. ASSUME ~disturbed' PROVE TunnelCore'
    <3>1. TunnelCore
      BY <1>0, <1>4, <2>2, Zenon
    <3> QED BY <1>0, <1>4, <2>2, <3>1, HandleIntentCore, EstablishCore, HandoverCore, SwappedCore, RetryCore,
               ClosedCore, StoppedCore, CheckCore, DestroyCore, DestroyedCore, Zenon
  <2> QED BY <2>1, <2>2, Zenon DEF TunnelInv
<1>5. CASE TunnelNext
  BY <1>2, <1>3, <1>4, <1>5, DisturbedStays, Zenon DEF TunnelNext
<1> QED BY <1>1, <1>5, Zenon

LEMMA TunnelStart ==
    ASSUME TunnelConstants, TunnelInit
    PROVE  TunnelInv
<1>1. TunnelTypeOK
  <2>1. ServiceTypes /\ TunTypes /\ ControlTypes /\ ActorTypes
    BY DEF TunnelConstants, TunnelInit, ServiceTypes, TunTypes, ControlTypes, ActorTypes, Controllers, None
  <2>2. BoxTypes
    BY DEF TunnelInit, BoxTypes, Once
  <2> QED BY <2>1, <2>2, Zenon DEF TunnelTypeOK
<1>2. /\ \A s \in Services : /\ H(s) = "idle" /\ X(s) = "idle" /\ s # current /\ mailbox[s] = <<>>
                             /\ vpn[s] = None
      /\ pfd = {} /\ \A c \in Controllers : loop[c] = None
      /\ posted = "none"
  <2>1. \A s \in Services : s # current
    BY DEF TunnelInit, Services, None
  <2>2. \A s \in Services : H(s) = "idle" /\ X(s) = "idle"
    BY ActorFacts, Zenon DEF TunnelInit, H, X
  <2> QED BY <2>1, <2>2, Zenon DEF TunnelInit
<1>3. \A s \in Services : Local(s) /\ Published(s) /\ FlagUp(s)
  BY <1>2, Zenon DEF Local, ExecutorOK, Published, FlagUp, Stopping
<1>4. \A s \in Services : Held(s) = None
  BY <1>2 DEF Held, Serving, Swapping, Stopping
<1>5. Holding /\ Owned /\ Apart /\ Descriptors
  BY <1>2, <1>4, Zenon DEF Holding, Owned, Apart, Descriptors
<1>6. Posted
  BY <1>2 DEF Posted
<1> QED BY <1>1, <1>3, <1>5, <1>6, Zenon DEF TunnelInv, TunnelCore

LEMMA TunnelServes ==
    ASSUME TunnelConstants, TunnelInv
    PROVE  TunServed
<1> SUFFICES ASSUME Quiet, ~disturbed
             PROVE  /\ Open \subseteq (IF Up THEN {vpn[current]} ELSE {})
                    /\ Up => /\ loop[controllerOf[current]] = vpn[current] /\ live = controllerOf[current]
                             /\ bound[controllerOf[current]] = current /\ enabled
  BY Zenon DEF TunServed
<1>1. TunnelTypeOK /\ TunnelCore
  BY Zenon DEF TunnelInv
<1>2. /\ ~dying /\ \A s \in Services : H(s) = "idle" /\ X(s) = "idle" /\ ~Waits(mailbox[s])
  BY ActorFacts, Zenon DEF Quiet, H, X, waiting, Waits
<1>3. \A s \in Services : ~Unread(s) /\ ~Swapping(s) /\ ~StopPath(s) /\ (s = current => Serving(s))
  BY <1>2 DEF Unread, Swapping, StopPath, Stopping, Serving
<1>4. pfd = {}
  BY <1>1, <1>3, Zenon DEF TunnelCore, Descriptors
<1>5. ASSUME NEW s \in Services, Held(s) # None PROVE s = current /\ Held(s) = vpn[s]
  <2>1. s # current => ExecutorOK(s)
    BY <1>1, Zenon DEF TunnelCore, Local
  <2>2. s # current => vpn[s] = None
    BY <1>2, <2>1, Zenon DEF ExecutorOK
  <2> QED BY <1>3, <1>5, <2>2, Zenon DEF Held
<1>6. ASSUME NEW c \in Controllers, loop[c] # None PROVE Up /\ loop[c] = vpn[current]
  <2>1. PICK s \in Services : controllerOf[s] = c /\ Held(s) = loop[c]
    BY <1>1, <1>6, Zenon DEF TunnelCore, Owned
  <2>2. s = current /\ vpn[s] = loop[c]
    BY <1>5, <1>6, <2>1, Zenon
  <2> QED BY <1>6, <2>2, CurrentService, <1>1, Zenon DEF Up
<1>7. Open \subseteq (IF Up THEN {vpn[current]} ELSE {})
  BY <1>4, <1>6, Zenon DEF Open
<1>8. ASSUME Up
      PROVE  /\ loop[controllerOf[current]] = vpn[current] /\ live = controllerOf[current]
             /\ bound[controllerOf[current]] = current /\ enabled
  <2>1. PICK s \in Services : s = current /\ vpn[s] # None
    BY <1>1, <1>8, CurrentService, Zenon DEF Up
  <2>2. Held(s) = vpn[s] /\ Published(s) /\ FlagUp(s) /\ Holding
    BY <1>1, <1>3, <2>1, Zenon DEF Held, TunnelCore
  <2>3. loop[controllerOf[s]] = vpn[s]
    BY <2>1, <2>2, Zenon DEF Holding
  <2>4. live = controllerOf[s] /\ bound[controllerOf[s]] = s
    BY <1>2, <2>1, <2>2, Zenon DEF Published
  <2>5. enabled
    BY <1>2, <1>3, <2>1, <2>2 DEF FlagUp
  <2> QED BY <2>1, <2>3, <2>4, <2>5, Zenon
<1> QED BY <1>7, <1>8, Zenon

\* For any number of ServiceVPN instances, scopes, tuns and commands: between
\* commands no tun is open but the running service's own, its controller's
\* loop reads it, the live holder that isDatapathLive() tests names that
\* controller, the protect callback is bound to the service and
\* vpnServiceEnabled is set; only a teardown that was overtaken, a start or a
\* destroy that met a command under way, a consent gone at a reload or a loop
\* Rust did not spawn can leave it otherwise.
THEOREM TunServedAlways ==
    ASSUME TunnelConstants
    PROVE  TunnelSpec => []TunServed
<1>1. TunnelInit => TunnelInv
  BY TunnelStart
<1>2. TunnelInv /\ [TunnelNext]_tunnelVars => TunnelInv'
  BY TunnelStep
<1>3. TunnelInv => TunServed
  BY TunnelServes
<1> QED BY <1>1, <1>2, <1>3, PTL DEF TunnelSpec
===============================================================================
