----------------------------- MODULE ModulesLoop -----------------------------
(***************************************************************************)
(* The life of DNSCrypt in VPN mode without root, with the legacy firewall *)
(* off: the master switch (TortaSlintBridge), ModulesService with its      *)
(* starter and killer threads, the one-second ModulesStateLoop, process    *)
(* death and the ways back from it (BootCompleteManager, recoverAppState). *)
(*                                                                         *)
(* Four kinds of actor share ModulesStatus without a lock: the main        *)
(* thread, which works the intents in order; the threads it spawns; the    *)
(* loop, which reads the state, writes it and reads it again; and the      *)
(* tunnel, seen here only as a mailbox of commands and a datapath that is  *)
(* live or not (module Tunnel looks inside).                               *)
(***************************************************************************)
EXTENDS Integers, Sequences

CONSTANTS STOP_COUNTER_DELAY, PENDING_START_GRACE,
          Requests,      \* what is asked: "on", "off", "restart", "revoke"
          MaxCommands,   \* starts, stops and restarts asked of a process
          PortBusy,      \* what the check of dnscrypt's port may answer
          Starts,        \* ways in which the process is started
          Leftovers      \* what the earlier ones may have left on disk

VARIABLES
  dnsCryptState,         \* ModulesStatus.dnsCryptState
  wanted,                \* "DNSCrypt Running": the user's last command, on disk
  appState,              \* savedDNSCryptState in the durable app-state record
  service,               \* a ModulesService instance exists
  restored,              \* this process knows its operation mode
  intents,               \* what the main thread will deliver to the service
  threads,               \* place -> how many worker threads are there
  starterThread,         \* "DNSCryptThread": "none", "running", or "known" to the loop
  loopAt, decided,       \* where the loop is, and the state it is about to write
  savedDNSCryptState, savedFirewallState, pendingStartGrace, blocked,
  stopCounter, stopPosted, startPosted,
  runningEdgeFired, configured, engine,
  live, enabled, consent, dialog, mailbox,
  commands,
  crossed,               \* ghost: something the loop has read in this run has changed
  overtook               \* ghost: a RUNNING was written that a stop had overtaken

processVars == <<dnsCryptState, restored, runningEdgeFired, configured, starterThread>>
durableVars == <<wanted, appState>>
serviceVars == <<service, intents, threads>>
loopVars    == <<loopAt, decided, savedDNSCryptState, savedFirewallState,
                 pendingStartGrace, blocked, stopCounter, stopPosted, startPosted, engine>>
tunnelVars  == <<live, enabled, consent, dialog, mailbox>>
boundVars   == <<commands>>
modulesVars == <<processVars, durableVars, serviceVars, loopVars, tunnelVars, boundVars,
                 crossed, overtook>>

Places == {"kill", "begin", "portKill", "portWait", "settle", "restart", "restartKill",
           "restartWait", "boot"}
NoThreads == [p \in Places |-> 0]

spawn(ts, p)    == [ts EXCEPT ![p] = @ + 1]
leave(ts, p)    == [ts EXCEPT ![p] = @ - 1]
move(ts, p, q)  == spawn(leave(ts, p), q)

(* A process starts over what earlier ones left on disk, killed at any moment *)
(* of their life: by hand, ...                                                *)
startPlain ==
  /\ intents = <<>> /\ restored = FALSE /\ dnsCryptState = "UNDEFINED"
  /\ threads = NoThreads

(* ... by the system, which delivers a null intent to a sticky service, ...   *)
startSticky ==
  /\ intents = <<"RECOVER">> /\ restored = FALSE /\ dnsCryptState = "UNDEFINED"
  /\ threads = NoThreads

(* ... or by a broadcast (boot, package replaced, always-on), which starts or *)
(* stops the modules and posts the start of the tunnel.                       *)
armModulesOnBoot(autoStart, wasWanted, sticky) ==
  /\ intents = sticky \o (IF autoStart THEN <<"START">>
                          ELSE IF wasWanted THEN <<"STOP">> ELSE <<>>)
  /\ dnsCryptState = IF autoStart \/ wasWanted THEN "UNDEFINED" ELSE "STOPPED"
  /\ wanted = autoStart
  /\ restored = TRUE
  /\ threads = IF autoStart /\ consent THEN spawn(NoThreads, "boot") ELSE NoThreads

startByBroadcast ==
  \/ \E sticky \in {<<>>, <<"RECOVER">>} : armModulesOnBoot(wanted, wanted, sticky)
  \/ appState = "UNDEFINED" /\ \E was \in BOOLEAN : armModulesOnBoot(wanted, was, <<>>)

ModulesInit ==
  /\ consent \in BOOLEAN
  /\ \E left \in Leftovers :
        wanted = left.wanted /\ enabled = left.enabled /\ appState = left.appState
  /\ \/ "plain" \in Starts /\ startPlain
     \/ "sticky" \in Starts /\ startSticky
     \/ "broadcast" \in Starts /\ startByBroadcast
  /\ service = FALSE /\ starterThread = "none" /\ loopAt = "idle" /\ decided = "none"
  /\ savedDNSCryptState = "UNDEFINED" /\ savedFirewallState = "UNDEFINED"
  /\ pendingStartGrace = 0 /\ blocked = FALSE
  /\ stopCounter = STOP_COUNTER_DELAY /\ stopPosted = FALSE /\ startPosted = FALSE
  /\ runningEdgeFired = FALSE /\ configured = FALSE /\ engine = FALSE
  /\ live = FALSE /\ dialog = FALSE /\ mailbox = <<>>
  /\ commands = Len(intents) /\ crossed = FALSE /\ overtook = FALSE

------------------------------------------------------------------------------
(* ServiceVPNHelper and ServiceVPNHandler.queue: START and RELOAD take a      *)
(* waiting STOP back, which is delayed by three seconds.                      *)
queue(cmd) ==
  mailbox' = Append(SelectSeq(mailbox, LAMBDA q : q # cmd /\ (cmd = "STOP" \/ q # "STOP")),
                    cmd)

stopVpnService == IF enabled THEN queue("STOP") ELSE UNCHANGED mailbox
reloadVpnService ==
  IF enabled /\ dnsCryptState = "RUNNING" THEN queue("RELOAD") ELSE UNCHANGED mailbox
raiseTunnel == enabled' = TRUE /\ queue("START")

(* One command of the tunnel, start to end.                                   *)
tunnelCommand ==
  /\ mailbox # <<>>
  /\ mailbox' = Tail(mailbox)
  /\ LET cmd == Head(mailbox)
     IN  /\ enabled' = /\ cmd # "STOP"
                       /\ IF live THEN enabled ELSE consent /\ (cmd = "START" \/ enabled)
         /\ live' = /\ cmd # "STOP"
                    /\ live \/ consent
                    /\ enabled' \/ \E i \in DOMAIN mailbox' : mailbox'[i] # "STOP"
  /\ UNCHANGED <<processVars, durableVars, serviceVars, loopVars, consent, dialog,
                 boundVars>>

------------------------------------------------------------------------------
(* The master switch.                                                         *)
startVpnServiceIfConsented ==
  IF live THEN UNCHANGED <<enabled, mailbox, dialog>>
  ELSE IF consent THEN raiseTunnel /\ UNCHANGED dialog
  ELSE dialog' = TRUE /\ UNCHANGED <<enabled, mailbox>>

setDnsCryptEnabled(enable) ==
  /\ commands < MaxCommands /\ commands' = commands + 1
  /\ wanted' = enable
  /\ intents' = Append(intents, IF enable THEN "START" ELSE "STOP")
  /\ restored' = (restored \/ enable)
  /\ IF enable THEN startVpnServiceIfConsented ELSE UNCHANGED <<enabled, mailbox, dialog>>
  /\ UNCHANGED <<dnsCryptState, runningEdgeFired, configured, starterThread, appState,
                 service, threads, loopVars, live, consent>>

(* The system's consent dialog is answered.                                   *)
startVpnFromConsent(granted) ==
  /\ dialog /\ dialog' = FALSE
  /\ consent' = (consent \/ granted)
  /\ IF granted THEN raiseTunnel ELSE enabled' = FALSE /\ UNCHANGED mailbox
  /\ UNCHANGED <<processVars, durableVars, serviceVars, loopVars, live, boundVars>>

(* A rotation, an import of rules or a proxy change asks for a restart.       *)
requestRestart ==
  /\ commands < MaxCommands /\ commands' = commands + 1
  /\ intents' = Append(intents, "RESTART")
  /\ UNCHANGED <<processVars, durableVars, service, threads, loopVars, tunnelVars>>

(* The user gives the VPN to another app.                                     *)
onRevoke ==
  /\ live
  /\ live' = FALSE /\ enabled' = FALSE /\ consent' = FALSE
  /\ UNCHANGED <<processVars, durableVars, serviceVars, loopVars, dialog, mailbox,
                 boundVars>>

------------------------------------------------------------------------------
(* Slip: the saved state is restored as it is, without the check of           *)
(* runningEdgeFiredThisProcess.                                               *)
restoreAsSaved == appState

(* ModulesService, on the main thread.  An intent creates the service if      *)
(* there is none; the new loop restores what the last one saved, unless that  *)
(* was an active state of a process whose pool died with it.                  *)
restoreModulesSavedState ==
  IF ~runningEdgeFired /\ appState \in {"RUNNING", "STARTING", "RESTARTING"}
  THEN "STOPPED" ELSE appState

onCreate ==
  IF service THEN UNCHANGED <<service, loopVars>>
  ELSE /\ service' = TRUE
       /\ loopAt' = "idle" /\ decided' = "none"
       /\ savedDNSCryptState' = restoreModulesSavedState
       /\ savedFirewallState' = "UNDEFINED" /\ pendingStartGrace' = 0 /\ blocked' = FALSE
       /\ stopCounter' = STOP_COUNTER_DELAY
       /\ stopPosted' = FALSE /\ startPosted' = FALSE /\ engine' = FALSE

(* startDNSCrypt on the main thread or a restart thread, from state s.        *)
startDNSCrypt(s) == dnsCryptState' = IF s = "STOPPED" THEN "STARTING" ELSE s

onStartDNSCrypt ==
  /\ startDNSCrypt(dnsCryptState)
  /\ threads' = spawn(threads, "begin")
  /\ UNCHANGED restored

onStopDNSCrypt ==
  /\ threads' = spawn(threads, "kill")
  /\ UNCHANGED <<dnsCryptState, restored>>

onRestartDNSCrypt ==
  /\ threads' = IF dnsCryptState = "RUNNING" THEN spawn(threads, "restart") ELSE threads
  /\ UNCHANGED <<dnsCryptState, restored>>

(* recoverAppState: the intent of a sticky restart is null.                   *)
recoverAppState ==
  /\ restored' = TRUE
  /\ IF restored \/ ~wanted
     THEN dnsCryptState' = "STOPPED" /\ UNCHANGED threads
     ELSE startDNSCrypt("STOPPED") /\ threads' = spawn(threads, "begin")

onStartCommand ==
  /\ intents # <<>> /\ Head(intents) # "DESTROY"
  /\ intents' = Tail(intents)
  /\ onCreate
  /\ \/ Head(intents) = "START"   /\ onStartDNSCrypt
     \/ Head(intents) = "STOP"    /\ onStopDNSCrypt
     \/ Head(intents) = "RESTART" /\ onRestartDNSCrypt
     \/ Head(intents) = "RECOVER" /\ recoverAppState
  /\ UNCHANGED <<runningEdgeFired, configured, starterThread, durableVars, tunnelVars,
                 boundVars>>

(* The posted stopSelf() of a loop whose counter has run out: the system      *)
(* destroys the service after the intents it has already accepted.            *)
stopSelf ==
  /\ stopPosted /\ stopPosted' = FALSE
  /\ intents' = IF \E i \in DOMAIN intents : intents[i] = "DESTROY"
                THEN intents ELSE Append(intents, "DESTROY")
  /\ UNCHANGED <<processVars, durableVars, service, threads, loopAt, decided,
                 savedDNSCryptState, savedFirewallState, pendingStartGrace, blocked,
                 stopCounter, startPosted, engine, tunnelVars, boundVars>>

(* onDestroy: posted tasks and the timer go, and the tunnel is asked to stop. *)
onDestroy ==
  /\ intents # <<>> /\ Head(intents) = "DESTROY" /\ loopAt = "idle"
  /\ intents' = Tail(intents)
  /\ service' = FALSE
  /\ stopPosted' = FALSE /\ startPosted' = FALSE /\ blocked' = FALSE /\ engine' = FALSE
  /\ stopVpnService
  /\ UNCHANGED <<processVars, durableVars, threads, loopAt, decided, savedDNSCryptState,
                 savedFirewallState, pendingStartGrace, stopCounter, live, enabled, consent,
                 dialog, boundVars>>

(* The two delayed posts of updateIptablesRules: eight and ten seconds.       *)
unblock ==
  /\ blocked /\ blocked' = FALSE
  /\ UNCHANGED <<processVars, durableVars, serviceVars, loopAt, decided,
                 savedDNSCryptState, savedFirewallState, pendingStartGrace, stopCounter,
                 stopPosted, startPosted, engine, tunnelVars, boundVars>>

startVPNService ==
  /\ startPosted /\ startPosted' = FALSE
  /\ IF ~enabled /\ dnsCryptState = "RUNNING" /\ consent
     THEN raiseTunnel ELSE UNCHANGED <<enabled, mailbox>>
  /\ UNCHANGED <<processVars, durableVars, serviceVars, loopAt, decided,
                 savedDNSCryptState, savedFirewallState, pendingStartGrace, blocked,
                 stopCounter, stopPosted, engine, live, consent, dialog, boundVars>>

------------------------------------------------------------------------------
(* The threads of ModulesService.                                             *)
threadStep(p) == threads[p] > 0
threadElse == <<restored, runningEdgeFired, configured, appState, service, intents,
                loopVars, tunnelVars, boundVars>>

(* ModulesKiller: a restart in progress makes it a no-op.  A thread that      *)
(* spawns one itself waits for it and goes on to q.                           *)
kill(p, q) ==
  /\ threadStep(p)
  /\ threads' = IF q = "none" THEN leave(threads, p) ELSE move(threads, p, q)
  /\ IF dnsCryptState = "RESTARTING" THEN UNCHANGED <<dnsCryptState, wanted>>
     ELSE dnsCryptState' = "STOPPED" /\ wanted' = FALSE
  /\ UNCHANGED <<starterThread, threadElse>>

(* The worker of startDNSCrypt: it waits on a starter that still runs, or     *)
(* makes way for itself on a busy port, or starts one.                        *)
begin(portBusy) ==
  /\ threadStep("begin")
  /\ LET waits == starterThread = "known"
                  \/ (starterThread = "running" /\ dnsCryptState # "RESTARTING")
     IN  /\ waits => ~portBusy
         /\ threads' = move(threads, "begin", IF portBusy THEN "portKill" ELSE "settle")
         /\ dnsCryptState' = IF portBusy THEN "RESTARTING" ELSE dnsCryptState
         /\ starterThread' = IF waits \/ portBusy THEN starterThread ELSE "running"
  /\ UNCHANGED <<wanted, threadElse>>

portWait ==
  /\ threadStep("portWait")
  /\ IF dnsCryptState = "RUNNING"
     THEN threads' = leave(threads, "portWait") /\ UNCHANGED <<dnsCryptState, starterThread>>
     ELSE /\ threads' = move(threads, "portWait", "settle")
          /\ dnsCryptState' = "STARTING" /\ starterThread' = "running"
  /\ UNCHANGED <<wanted, threadElse>>

starterReturns ==
  /\ starterThread # "none" /\ starterThread' = "none"
  /\ UNCHANGED <<dnsCryptState, wanted, threads, threadElse>>

(* changeDNSCryptStatus, two seconds later.                                   *)
changeDNSCryptStatus ==
  /\ threadStep("settle") /\ threads' = leave(threads, "settle")
  /\ IF starterThread # "none"
     THEN dnsCryptState' = "RUNNING" /\ starterThread' = "known"
     ELSE dnsCryptState' = "STOPPED" /\ UNCHANGED starterThread
  /\ UNCHANGED <<wanted, threadElse>>

(* restartDNSCrypt.                                                           *)
restart ==
  /\ threadStep("restart") /\ threads' = move(threads, "restart", "restartKill")
  /\ dnsCryptState' = "RESTARTING"
  /\ UNCHANGED <<wanted, starterThread, threadElse>>

restartWait ==
  /\ threadStep("restartWait")
  /\ IF dnsCryptState = "RUNNING"
     THEN threads' = leave(threads, "restartWait") /\ UNCHANGED dnsCryptState
     ELSE threads' = move(threads, "restartWait", "begin") /\ startDNSCrypt(dnsCryptState)
  /\ UNCHANGED <<wanted, starterThread, threadElse>>

------------------------------------------------------------------------------
(* ModulesStateLoop.run: updateModulesState reads the state, the datapath and *)
(* the user's command, and writes afterwards; updateIptablesRules reads the   *)
(* state again.                                                               *)
alive == starterThread = "known" \/ live

loopElse == <<savedDNSCryptState, savedFirewallState, blocked, stopPosted, startPosted,
              engine>>

goOn(state) ==
  /\ decided' = state
  /\ loopAt' = IF state = "none" THEN "apply" ELSE "write"

(* Slip: a live tunnel is promoted whatever the user's last command was.      *)
promoteUngated ==
  /\ alive
  /\ pendingStartGrace' = 0
  /\ IF dnsCryptState \in {"STOPPED", "UNDEFINED", "STARTING"}
     THEN goOn("RUNNING") /\ stopCounter' = STOP_COUNTER_DELAY
     ELSE goOn("none") /\ UNCHANGED stopCounter

promote ==
  /\ alive
  /\ pendingStartGrace' = 0
  /\ IF dnsCryptState \in {"STOPPED", "UNDEFINED", "STARTING"} /\ wanted
     THEN goOn("RUNNING") /\ stopCounter' = STOP_COUNTER_DELAY
     ELSE goOn("none") /\ UNCHANGED stopCounter

demote ==
  /\ ~alive
  /\ IF wanted /\ dnsCryptState # "RUNNING" /\ pendingStartGrace < PENDING_START_GRACE
     THEN /\ pendingStartGrace' = pendingStartGrace + 1
          /\ stopCounter' = STOP_COUNTER_DELAY
     ELSE /\ pendingStartGrace' = IF wanted THEN pendingStartGrace ELSE 0
          /\ UNCHANGED stopCounter
  /\ goOn(IF dnsCryptState \in {"RUNNING", "UNDEFINED"} THEN "STOPPED" ELSE "none")

updateModulesState ==
  /\ service /\ loopAt = "idle"
  /\ promote \/ demote
  /\ UNCHANGED <<processVars, durableVars, serviceVars, loopElse, tunnelVars, boundVars>>

writeState ==
  /\ loopAt = "write"
  /\ loopAt' = "apply" /\ decided' = "none"
  /\ dnsCryptState' = decided
  /\ UNCHANGED <<restored, runningEdgeFired, configured, starterThread, durableVars,
                 serviceVars, loopElse, pendingStartGrace, stopCounter, tunnelVars,
                 boundVars>>

Changed == dnsCryptState # savedDNSCryptState \/ savedFirewallState # "STOPPED"
Settled == dnsCryptState \in {"STOPPED", "RUNNING"}

(* The edge: every manager is told, the resolver's among them.                *)
saveDNSCryptState ==
  /\ savedDNSCryptState' = dnsCryptState /\ savedFirewallState' = "STOPPED"
  /\ appState' = IF dnsCryptState # savedDNSCryptState THEN dnsCryptState ELSE appState
  /\ IF dnsCryptState = savedDNSCryptState
     THEN UNCHANGED <<runningEdgeFired, configured, engine>>
     ELSE /\ runningEdgeFired' = (runningEdgeFired \/ dnsCryptState = "RUNNING")
          /\ configured' = (dnsCryptState = "RUNNING")
          /\ engine' = (dnsCryptState = "RUNNING")

tunnelLeg ==
  IF ~live THEN startPosted' = TRUE /\ UNCHANGED mailbox
  ELSE /\ UNCHANGED startPosted
       /\ IF dnsCryptState = "STOPPED" THEN stopVpnService ELSE reloadVpnService

(* updateEngineState and the countdown to stopSelf().                         *)
countDown(n) ==
  LET left == IF engine' THEN STOP_COUNTER_DELAY ELSE n
  IN  /\ stopCounter' = IF left < 0 THEN 0 ELSE left
      /\ stopPosted' = (stopPosted \/ left <= 0)

updateIptablesRules ==
  \/ /\ Changed /\ Settled /\ ~blocked
     /\ saveDNSCryptState
     /\ tunnelLeg
     /\ blocked' = (dnsCryptState # "STOPPED")
     /\ countDown(STOP_COUNTER_DELAY)
  \/ /\ IF Changed THEN ~Settled \/ blocked ELSE TRUE
     /\ UNCHANGED <<savedDNSCryptState, savedFirewallState, appState, runningEdgeFired,
                    configured, engine, startPosted, blocked, mailbox>>
     /\ countDown(IF ~Changed /\ dnsCryptState = "STOPPED" THEN stopCounter - 1
                  ELSE stopCounter)

applyState ==
  /\ loopAt = "apply" /\ loopAt' = "idle"
  /\ updateIptablesRules
  /\ UNCHANGED <<dnsCryptState, restored, starterThread, wanted, serviceVars, decided,
                 pendingStartGrace, live, enabled, consent, dialog, boundVars>>

------------------------------------------------------------------------------
(* The start of the tunnel that the boot manager posts.                       *)
bootRaises ==
  /\ threadStep("boot") /\ threads' = leave(threads, "boot")
  /\ raiseTunnel
  /\ UNCHANGED <<processVars, durableVars, service, intents, loopVars, live, consent,
                 dialog, boundVars>>

Threads ==
  \/ kill("kill", "none") \/ kill("portKill", "portWait") \/ kill("restartKill", "restartWait")
  \/ \E busy \in PortBusy : begin(busy)
  \/ portWait \/ changeDNSCryptStatus \/ restart \/ restartWait \/ starterReturns \/ bootRaises

LoopStep == updateModulesState \/ writeState \/ applyState

ModulesStep ==
  \/ "on" \in Requests /\ setDnsCryptEnabled(TRUE)
  \/ "off" \in Requests /\ setDnsCryptEnabled(FALSE)
  \/ \E granted \in BOOLEAN : startVpnFromConsent(granted)
  \/ "restart" \in Requests /\ requestRestart
  \/ "revoke" \in Requests /\ onRevoke
  \/ tunnelCommand
  \/ onStartCommand \/ stopSelf \/ onDestroy \/ unblock \/ startVPNService
  \/ Threads
  \/ LoopStep

(* What one run of the loop reads.                                            *)
Read == <<dnsCryptState, live, wanted, starterThread>>

noteCrossing ==
  /\ crossed' = /\ loopAt # "idle" /\ loopAt' # "idle"
                /\ crossed \/ (loopAt' = loopAt /\ Read' # Read)
  /\ overtook' = \/ overtook
                 \/ /\ dnsCryptState' = "RUNNING" /\ dnsCryptState # "RUNNING" /\ ~wanted
                    /\ loopAt = "write" => crossed

ModulesNext == ModulesStep /\ noteCrossing

ModulesSpec == ModulesInit /\ [][ModulesNext]_modulesVars

(* Every actor goes on: the main thread, the tunnel's handler, the loop's     *)
(* timer, the posted tasks and each thread.                                   *)
ModulesFairness ==
  /\ WF_modulesVars(tunnelCommand /\ noteCrossing)
  /\ WF_modulesVars(onStartCommand /\ noteCrossing)
  /\ SF_modulesVars(onDestroy /\ noteCrossing)
  /\ WF_modulesVars(stopSelf /\ noteCrossing)
  /\ WF_modulesVars(unblock /\ noteCrossing)
  /\ WF_modulesVars(startVPNService /\ noteCrossing)
  /\ WF_modulesVars(LoopStep /\ noteCrossing)
  /\ WF_modulesVars(Threads /\ noteCrossing)

------------------------------------------------------------------------------
(* The split-brain cure: the resolver pool of this process is configured      *)
(* exactly while the loop believes that DNSCrypt is running, whatever record  *)
(* a dead process left (restoreModulesSavedState, runningEdgeFiredThisProcess).*)
PoolFollowsLoop == service => (configured <=> savedDNSCryptState = "RUNNING")

(* A tunnel that the user wants gets its pool: while the service and the      *)
(* tunnel are there and the command is ON, the RUNNING edge comes, however    *)
(* late the consent was (the empty pool of a first start).                    *)
TunnelGetsPool ==
  (service /\ live /\ wanted) ~> (configured \/ ~(service /\ live /\ wanted))

(* After an OFF the tunnel follows the state down, unless a write of RUNNING  *)
(* was overtaken by the stop (the gate on the promotion).                     *)
OffTakesDown == (service /\ live /\ ~wanted) ~> (~live \/ wanted \/ overtook)
==============================================================================
