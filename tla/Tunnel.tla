------------------------------- MODULE Tunnel -------------------------------
(***************************************************************************)
(* The life of the VPN tunnel in one process.  ServiceVPN instances come   *)
(* and go; each has a handler thread that works its mailbox of START,      *)
(* RELOAD and STOP commands (ServiceVPNHandler), and a teardown task that  *)
(* onDestroy submits to an executor.  Both call the TunnelController of    *)
(* the ModulesService scope the service was injected from, which owns the  *)
(* Rust loop and publishes itself in the process-wide `live` holder.       *)
(*                                                                         *)
(* An actor is the handler or the executor of one service.  A tun stays up *)
(* while any descriptor on it is open: the ParcelFileDescriptor of         *)
(* establish(), until it is detached or closed, and the loop's dup.        *)
(***************************************************************************)
EXTENDS Integers, Sequences

CONSTANTS MaxServices,   \* ServiceVPN instances created
          MaxScopes,     \* ModulesService scopes, hence controllers
          MaxTuns,       \* calls of establish() that succeed
          MaxCommands    \* intents delivered to the service

None == 0
Services == 1 .. MaxServices
Controllers == 1 .. MaxScopes
Actors == Services \X {"handler", "executor"}

VARIABLES
  current,        \* the ServiceVPN instance the system knows, or None
  made,           \* instances created so far
  dying,          \* stopSelf() was called on current
  mailbox,        \* service -> its handler's queued commands
  at,             \* actor -> where it is in its command or task
  task,           \* actor -> what it does after TunnelController.stop()
  prev,           \* service -> the tun reload() replaces
  vpn,            \* service -> ServiceVPN.vpn: a tun or None
  tuns,           \* tuns established so far
  pfd,            \* tuns whose ParcelFileDescriptor owns an open descriptor
  scope,          \* the current ModulesService scope
  controllerOf,   \* service -> the controller it was injected with
  loop,           \* controller -> the tun its running Rust loop holds, or None
  bound,          \* controller -> the service its protect callback is bound to
  live,           \* the published controller, or None
  lock,           \* controller -> the actor inside start() or stop(), or <<>>
  seen,           \* controller -> the holder its stop() in progress looked at
  enabled,        \* VPN_SERVICE_ENABLED
  posted,         \* stop()'s posted write of FALSE: "none" waits, or it waits in the
                  \* main queue "ahead" of the destroy of its service or "behind" it
  commands,       \* intents delivered so far
  disturbed       \* a start or a destroy met a command under way, a reload found
                  \* the consent gone, or Rust spawned no loop

serviceVars == <<current, made, dying, mailbox, commands>>
tunVars == <<vpn, prev, tuns, pfd>>
controlVars == <<scope, controllerOf, loop, bound, live, lock, seen>>
flagVars == <<enabled, posted>>
actorVars == <<at, task>>
tunnelVars == <<serviceVars, actorVars, tunVars, controlVars, flagVars, disturbed>>

TunnelInit ==
  /\ current = None /\ made = 0 /\ dying = FALSE /\ commands = 0
  /\ mailbox = [s \in Services |-> <<>>]
  /\ at = [a \in Actors |-> "idle"]
  /\ task = [a \in Actors |-> "none"]
  /\ prev = [s \in Services |-> None]
  /\ vpn = [s \in Services |-> None]
  /\ tuns = 0 /\ pfd = {}
  /\ scope = 1 /\ controllerOf = [s \in Services |-> 1]
  /\ loop = [c \in Controllers |-> None]
  /\ bound = [c \in Controllers |-> None]
  /\ live = None
  /\ lock = [c \in Controllers |-> <<>>]
  /\ seen = [c \in Controllers |-> None]
  /\ enabled = FALSE /\ posted = "none"
  /\ disturbed = FALSE

goto(a, place) ==
  /\ at' = [at EXCEPT ![a] = place]
  /\ UNCHANGED task

(* Call TunnelController.stop() and go on with `next`.                      *)
callStop(a, next) ==
  /\ at' = [at EXCEPT ![a] = "stopNative"]
  /\ task' = [task EXCEPT ![a] = next]

(***************************************************************************)
(* The service, on the main thread.                                        *)
(***************************************************************************)

(* A command waits once at most.                                            *)
removeMessages(box, cmd) ==
  IF \E i \in 1..Len(box): box[i] = cmd
    THEN LET i == CHOOSE i \in 1..Len(box): box[i] = cmd
         IN  [k \in 1..(Len(box) - 1) |-> IF k < i THEN box[k] ELSE box[k + 1]]
    ELSE box

(* A command removes its like; START and RELOAD also remove a waiting STOP, *)
(* which is delayed by three seconds and so is always the last.             *)
queue(box, cmd) ==
  Append(IF cmd = "STOP" THEN removeMessages(box, "STOP")
         ELSE removeMessages(removeMessages(box, "STOP"), cmd), cmd)

(* An intent reaches onStartCommand: the service is created if there is     *)
(* none, with the controller of the current scope.                          *)
receive(cmd) ==
  /\ ~dying
  /\ current = None => made < MaxServices
  /\ LET s == IF current = None THEN made + 1 ELSE current
     IN  /\ current' = s
         /\ made' = IF current = None THEN s ELSE made
         /\ controllerOf' = IF current = None
                              THEN [controllerOf EXCEPT ![s] = scope']
                              ELSE controllerOf
         /\ mailbox' = [mailbox EXCEPT ![s] = queue(@, cmd)]
  /\ UNCHANGED <<dying, actorVars, tunVars, loop, bound, live, lock, seen,
                 flagVars, disturbed>>

deliver(cmd) ==
  /\ commands < MaxCommands
  /\ commands' = commands + 1
  /\ UNCHANGED scope
  /\ receive(cmd)

startVpnService == deliver("START")
reloadVpnService == enabled /\ deliver("RELOAD")
stopVpnService == enabled /\ deliver("STOP")

(* The system's always-on intent carries no command.  With the flag set the *)
(* service stops itself and leaves the start to a broadcast.                *)
alwaysOnIntent ==
  \/ ~enabled /\ deliver("STOP")
  \/ /\ enabled /\ current # None /\ ~dying
     /\ dying' = TRUE
     /\ UNCHANGED <<current, made, mailbox, commands, actorVars, tunVars, controlVars,
                    flagVars, disturbed>>

onRevoke ==
  /\ current # None /\ ~dying /\ vpn[current] # None
  /\ enabled' = FALSE
  /\ dying' = TRUE
  /\ UNCHANGED <<current, made, mailbox, commands, actorVars, tunVars, controlVars,
                 posted, disturbed>>

(* The looper quits: the command in hand finishes, the others are dropped.  *)
onDestroy ==
  /\ dying /\ posted # "ahead"
  /\ current' = None /\ dying' = FALSE
  /\ mailbox' = [mailbox EXCEPT ![current] = <<>>]
  /\ goto(<<current, "executor">>, "destroy")
  /\ disturbed' = (disturbed \/ at[<<current, "handler">>] \notin {"idle", "check"})
  /\ UNCHANGED <<made, commands, tunVars, controlVars, flagVars>>

(* The write of FALSE that ServiceVPNHandler.stop() posted.                 *)
postedWrite ==
  /\ posted # "none"
  /\ enabled' = FALSE /\ posted' = "none"
  /\ UNCHANGED <<serviceVars, actorVars, tunVars, controlVars, disturbed>>

(* ModulesService.onDestroy: a running tunnel is asked to stop, the scope   *)
(* is released, and the next service gets a new controller.                 *)
releaseScope ==
  /\ scope < MaxScopes
  /\ scope' = scope + 1
  /\ \/ enabled /\ receive("STOP") /\ UNCHANGED commands
     \/ /\ ~enabled
        /\ UNCHANGED <<serviceVars, actorVars, tunVars, controllerOf, loop, bound,
                       live, lock, seen, flagVars, disturbed>>

(***************************************************************************)
(* TunnelController.start and stop, under the controller's own lock.       *)
(***************************************************************************)
nativeOf(a) == controllerOf[a[1]]

(* The descriptor is detached, dup'd by Rust and the original closed.  A    *)
(* closed descriptor cannot be detached and a dup can fail: either way      *)
(* there is no loop and the callback is unbound again.                      *)
spawnLoop(c, s) ==
  /\ pfd' = pfd \ {vpn[s]}
  /\ \/ /\ vpn[s] \in pfd
        /\ loop' = [loop EXCEPT ![c] = vpn[s]]
        /\ bound' = [bound EXCEPT ![c] = s]
     \/ /\ bound' = [bound EXCEPT ![c] = None]
        /\ UNCHANGED loop

(* The double-start guard: with a loop running nothing is touched.          *)
doubleStart(c, s) ==
  /\ loop[c] # None
  /\ UNCHANGED <<loop, bound, pfd>>

startNative(a) ==
  LET s == a[1]  c == nativeOf(a)
  IN  /\ at[a] = "startNative" /\ lock[c] = <<>>
      /\ \/ /\ vpn[s] = None      \* vpn!! throws into handleIntent
            /\ goto(a, "idle")
            /\ UNCHANGED <<loop, bound, pfd, lock, disturbed>>
         \/ /\ vpn[s] # None /\ doubleStart(c, s)
            /\ goto(a, "check")
            /\ disturbed' = TRUE
            /\ UNCHANGED lock
         \/ /\ vpn[s] # None /\ loop[c] = None /\ spawnLoop(c, s)
            /\ IF loop'[c] = None
                 THEN goto(a, "check") /\ disturbed' = TRUE /\ UNCHANGED lock
                 ELSE /\ goto(a, "publish")
                      /\ lock' = [lock EXCEPT ![c] = a]
                      /\ UNCHANGED disturbed
      /\ UNCHANGED <<serviceVars, vpn, prev, tuns, scope, controllerOf, live,
                     seen, flagVars>>

publish(a) ==
  LET c == nativeOf(a)
  IN  /\ at[a] = "publish"
      /\ live' = c
      /\ lock' = [lock EXCEPT ![c] = <<>>]
      /\ goto(a, "check")
      /\ UNCHANGED <<serviceVars, tunVars, scope, controllerOf, loop, bound,
                     seen, flagVars, disturbed>>

(* Slip: stop() without the identity guard.                                 *)
ownsAlways(c) == TRUE

ownsHolder(c) == seen[c] = c

(* stop() looks at the holder first ...                                     *)
stopNative(a) ==
  LET c == nativeOf(a)
  IN  /\ at[a] = "stopNative" /\ lock[c] = <<>>
      /\ lock' = [lock EXCEPT ![c] = a]
      /\ seen' = [seen EXCEPT ![c] = live]
      /\ goto(a, "retire")
      /\ UNCHANGED <<serviceVars, tunVars, scope, controllerOf, loop, bound, live,
                     flagVars, disturbed>>

(* ... then retires it, if it was its own when it looked ...                *)
retire(a) ==
  LET c == nativeOf(a)
  IN  /\ at[a] = "retire"
      /\ live' = IF ownsHolder(c) THEN None ELSE live
      /\ disturbed' = (disturbed \/ (seen[c] = c /\ live # c))
      /\ goto(a, "join")
      /\ UNCHANGED <<serviceVars, tunVars, scope, controllerOf, loop, bound, lock,
                     seen, flagVars>>

(* ... and joins the loop, which closes the dup, before it unbinds.         *)
join(a) ==
  LET c == nativeOf(a)
  IN  /\ at[a] = "join"
      /\ loop' = [loop EXCEPT ![c] = None]
      /\ bound' = IF ownsHolder(c) THEN [bound EXCEPT ![c] = None] ELSE bound
      /\ lock' = [lock EXCEPT ![c] = <<>>]
      /\ seen' = [seen EXCEPT ![c] = None]
      /\ goto(a, task[a])
      /\ UNCHANGED <<serviceVars, tunVars, scope, controllerOf, live, flagVars,
                     disturbed>>

(***************************************************************************)
(* ServiceVPNHandler: one command at a time, and the executor's teardown.  *)
(***************************************************************************)
handler(s) == <<s, "handler">>

(* The command at the head of the mailbox.                                  *)
handleIntent(s) ==
  /\ at[handler(s)] = "idle" /\ mailbox[s] # <<>>
  /\ mailbox' = [mailbox EXCEPT ![s] = Tail(@)]
  /\ LET cmd == Head(mailbox[s])  a == handler(s)
     IN  \/ /\ cmd = "START" /\ UNCHANGED flagVars
            /\ goto(a, IF vpn[s] = None THEN "establish" ELSE "check")
         \/ /\ cmd = "RELOAD" /\ UNCHANGED flagVars
            /\ \/ goto(a, "handover")
               \/ vpn[s] # None /\ goto(a, "check")      \* the same builder
         \/ /\ cmd = "STOP" /\ enabled' = FALSE
            /\ posted' = IF dying /\ s = current THEN "behind" ELSE "ahead"
            /\ IF vpn[s] = None THEN goto(a, "stopped") ELSE callStop(a, "closed")
  /\ disturbed' = (disturbed \/ posted' = "behind")
  /\ UNCHANGED <<current, made, dying, commands, tunVars, controlVars>>

(* builder.establish(): a new tun beside the open ones, or nothing.         *)
newTun(s, open) ==
  /\ tuns < MaxTuns
  /\ tuns' = tuns + 1
  /\ vpn' = [vpn EXCEPT ![s] = tuns + 1]
  /\ pfd' = open \cup {tuns + 1}

noTun(s, open) ==
  /\ vpn' = [vpn EXCEPT ![s] = None]
  /\ pfd' = open
  /\ UNCHANGED tuns

(* The exception branch of handleIntent: no stop check, and the flag falls  *)
(* when the consent is gone.                                                *)
thrown(s) ==
  /\ enabled' \in {enabled, FALSE}
  /\ goto(handler(s), "idle")

(* start(): the flag is raised once there is an interface.                  *)
establish(s) ==
  /\ at[handler(s)] = "establish"
  /\ \/ newTun(s, pfd) /\ enabled' = TRUE /\ goto(handler(s), "startNative")
     \/ noTun(s, pfd) /\ thrown(s)
  /\ UNCHANGED <<serviceVars, prev, controlVars, posted, disturbed>>

(* reload() with a new builder: the new interface before the old one goes   *)
(* and, when there is none to be had, once more after it went.  An          *)
(* exception leaves the old one in place.                                   *)
handover(s) ==
  LET a == handler(s)
  IN  /\ at[a] = "handover"
      /\ prev' = [prev EXCEPT ![s] = vpn[s]]
      /\ \/ newTun(s, pfd) /\ vpn[s] = None /\ goto(a, "startNative") /\ UNCHANGED enabled
         \/ newTun(s, pfd) /\ vpn[s] # None /\ callStop(a, "swapped") /\ UNCHANGED enabled
         \/ noTun(s, pfd) /\ vpn[s] # None /\ callStop(a, "retry") /\ UNCHANGED enabled
         \/ UNCHANGED <<vpn, tuns, pfd>> /\ thrown(s)
      /\ disturbed' = (disturbed \/ (enabled' # enabled))
      /\ UNCHANGED <<serviceVars, controlVars, posted>>

(* stopVPN(prev), then the native start.                                    *)
swapped(s) ==
  /\ at[handler(s)] = "swapped"
  /\ pfd' = pfd \ {prev[s]}
  /\ prev' = [prev EXCEPT ![s] = None]
  /\ goto(handler(s), "startNative")
  /\ UNCHANGED <<serviceVars, vpn, tuns, controlVars, flagVars, disturbed>>

retry(s) ==
  /\ at[handler(s)] = "retry"
  /\ prev' = [prev EXCEPT ![s] = None]
  /\ \/ newTun(s, pfd \ {prev[s]}) /\ goto(handler(s), "startNative") /\ UNCHANGED enabled
     \/ noTun(s, pfd \ {prev[s]}) /\ thrown(s)
  /\ UNCHANGED <<serviceVars, controlVars, posted, disturbed>>

(* stop() closes what vpn names by then and drops it whatever happened.     *)
closed(s) ==
  /\ at[handler(s)] = "closed"
  /\ pfd' = pfd \ {vpn[s]}
  /\ vpn' = [vpn EXCEPT ![s] = None]
  /\ goto(handler(s), "stopped")
  /\ UNCHANGED <<serviceVars, prev, tuns, controlVars, flagVars, disturbed>>

stopServiceVPN(s) ==
  /\ enabled' = FALSE
  /\ dying' = (dying \/ s = current)

(* The end of stop().                                                       *)
stopped(s) ==
  /\ at[handler(s)] = "stopped"
  /\ stopServiceVPN(s)
  /\ goto(handler(s), "check")
  /\ UNCHANGED <<current, made, mailbox, commands, tunVars, controlVars, posted,
                 disturbed>>

waiting(s) == \E i \in DOMAIN mailbox[s]: mailbox[s][i] # "STOP"

(* The end of handleIntent: the service stops when the flag is down and no  *)
(* START or RELOAD waits.                                                   *)
check(s) ==
  /\ at[handler(s)] = "check"
  /\ IF ~enabled /\ ~waiting(s)
       THEN stopServiceVPN(s) ELSE UNCHANGED <<enabled, dying>>
  /\ goto(handler(s), "idle")
  /\ UNCHANGED <<current, made, mailbox, commands, tunVars, controlVars, posted,
                 disturbed>>

(* The task of onDestroy.                                                   *)
destroy(s) ==
  LET a == <<s, "executor">>
  IN  /\ at[a] = "destroy"
      /\ IF vpn[s] = None THEN goto(a, "idle") ELSE callStop(a, "destroyed")
      /\ UNCHANGED <<serviceVars, tunVars, controlVars, flagVars, disturbed>>

destroyed(s) ==
  /\ at[<<s, "executor">>] = "destroyed"
  /\ pfd' = pfd \ {vpn[s]}
  /\ vpn' = [vpn EXCEPT ![s] = None]
  /\ goto(<<s, "executor">>, "idle")
  /\ UNCHANGED <<serviceVars, prev, tuns, controlVars, flagVars, disturbed>>

TunnelNext ==
  \/ startVpnService \/ reloadVpnService \/ stopVpnService \/ alwaysOnIntent
  \/ onRevoke \/ onDestroy \/ postedWrite \/ releaseScope
  \/ \E a \in Actors: startNative(a) \/ publish(a) \/ stopNative(a) \/ retire(a)
                       \/ join(a)
  \/ \E s \in Services: handleIntent(s) \/ establish(s) \/ handover(s) \/ swapped(s)
                         \/ retry(s) \/ closed(s) \/ stopped(s) \/ check(s)
                         \/ destroy(s) \/ destroyed(s)

TunnelSpec == TunnelInit /\ [][TunnelNext]_tunnelVars

(***************************************************************************)
(* Properties.                                                             *)
(***************************************************************************)
Open == (pfd \cup {loop[c] : c \in Controllers}) \ {None}
Quiet ==
  /\ ~dying /\ posted = "none"
  /\ \A a \in Actors: at[a] = "idle"
  /\ \A s \in Services: ~waiting(s)
Up == current # None /\ vpn[current] # None

(* Between commands no tun is open but the running service's own; that one  *)
(* is the tun its controller's loop reads, the `live` holder                *)
(* isDatapathLive() tests names that controller, the protect callback is    *)
(* bound to the service and vpnServiceEnabled is set -- unless a teardown   *)
(* was overtaken or Rust spawned no loop.                                   *)
TunServed ==
  (Quiet /\ ~disturbed) =>
     /\ Open \subseteq (IF Up THEN {vpn[current]} ELSE {})
     /\ Up => LET c == controllerOf[current]
              IN  loop[c] = vpn[current] /\ live = c /\ bound[c] = current /\ enabled

(* Does not hold: only the controller that owns the holder retires it.      *)
OwnerRetires ==
  [][(live # None /\ live' = None) => lock[live] # <<>>]_tunnelVars

(* Does not hold: no interleaving leaves a tun without a service.           *)
TunNeverLeft == Quiet => Open \subseteq (IF Up THEN {vpn[current]} ELSE {})
=============================================================================
