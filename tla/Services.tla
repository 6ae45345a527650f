------------------------------- MODULE Services -------------------------------
(***************************************************************************)
(* The web interface of the daemon (web/Webserver.scala) and what it       *)
(* controls: the dimmer and the backlight (service/), which are overlays   *)
(* above and below all others, the webhooks called when they change        *)
(* (web/Notifications.scala), and the list of the connections that the     *)
(* handlers of the network server keep (server/ServerStatus.scala,         *)
(* server/Server.scala), of which a user may have one closed.              *)
(*                                                                         *)
(* A step is what a thread does between two accesses to what it shares     *)
(* with others.  The dimmer's overlay is as opaque as dimness is not full; *)
(* here it holds the dimness itself.  The mixer is its summary: after a    *)
(* strobe it shows the fronts of the overlays (see Mixer).                 *)
(***************************************************************************)
EXTENDS Integers, Sequences, FiniteSets

LOCAL INSTANCE SequencesExt

CONSTANTS
  Thread,       (* threads of the web server                                 *)
  Led,
  Setting,      (* brightnesses and colours                                  *)
  Initial,      (* black and undimmed, one of them                           *)
  Url,          (* settings.notifications, of either service                 *)
  Pool,         (* threads of an executor: 5                                 *)
  Connection,   (* connections to the network server                         *)
  MaxPosts      (* bound: requests that change something                     *)

CONSTANTS NOBODY

ASSUME ServicesAssumption == Initial \in Setting /\ NOBODY \notin Thread

Service == {"dimmer", "backlight"}

VARIABLES
  pc, serving, arg, unset,   (* of each web thread: where it is, the service
                                and its argument; LEDs it still has to set   *)
  holder,                    (* of each service: who holds its monitor       *)
  value, back, front,        (* dimness or color; the service's overlay      *)
  requested, shown,          (* the mixer: a run is due; what LEDs show      *)
  tasks, running,            (* the executor: queue, notifications under way *)
  told,                      (* history: the setting last handed to notify   *)
  channel, local, status,    (* channels; the handlers' clients; ServerStatus *)
  overtaken,                 (* history: connections that had an error while a
                                kill was closing them                        *)
  victim,                    (* of each web thread: the client it closes     *)
  posts

web    == <<pc, serving, arg, unset, victim, posts>>
layers == <<holder, value, back, front>>
mixer  == <<requested, shown>>
hooks  == <<tasks, running, told>>
server == <<channel, local, status, overtaken>>
vars   == <<web, layers, mixer, hooks, server>>

(* Application: both services register their overlays before a server runs. *)
Init ==
  /\ pc = [w \in Thread |-> "idle"]
  /\ serving = [w \in Thread |-> "dimmer"]
  /\ arg = [w \in Thread |-> Initial]
  /\ unset = [w \in Thread |-> {}]
  /\ victim = [w \in Thread |-> NOBODY]
  /\ posts = 0
  /\ holder = [s \in Service |-> NOBODY]
  /\ value = [s \in Service |-> Initial]
  /\ back = [s \in Service |-> [led \in Led |-> Initial]]
  /\ front = back
  /\ requested = FALSE /\ shown = front
  /\ tasks = [s \in Service |-> <<>>] /\ running = [s \in Service |-> {}]
  /\ told = value
  /\ channel = [c \in Connection |-> "none"]
  /\ local = [c \in Connection |-> FALSE]
  /\ status = {} /\ overtaken = {}

Goto(w, where) == pc' = [pc EXCEPT ![w] = where]

Post(w) ==
  /\ pc[w] = "idle"
  /\ posts < MaxPosts
  /\ posts' = posts + 1

-----------------------------------------------------------------------------
(* dimTo, setColor: one step for each LED, the strobe, the notification *)

(* plan: the request; a body that is no brightness, or no colour, is a bad
   request and changes nothing. *)
PostSetting(w) ==
  /\ Post(w)
  /\ \E s \in Service, v \in Setting :
       serving' = [serving EXCEPT ![w] = s] /\ arg' = [arg EXCEPT ![w] = v]
  /\ Goto(w, "enter")
  /\ UNCHANGED <<unset, victim, layers, mixer, hooks, server>>

(* Mutant: dimTo and setColor are not synchronized. *)
EnterUnsynchronized(w) ==
  LET s == serving[w] IN
  /\ pc[w] = "enter"
  /\ Goto(w, "set")
  /\ unset' = [unset EXCEPT ![w] = Led]
  /\ value' = IF s = "dimmer" THEN [value EXCEPT ![s] = arg[w]] ELSE value
  /\ UNCHANGED <<serving, arg, victim, posts, holder, back, front, mixer, hooks, server>>

(* The monitor is taken; the dimmer changes its field first. *)
Enter(w) ==
  LET s == serving[w] IN
  /\ pc[w] = "enter" /\ holder[s] = NOBODY
  /\ Goto(w, "set")
  /\ holder' = [holder EXCEPT ![s] = w]
  /\ unset' = [unset EXCEPT ![w] = Led]
  /\ value' = IF s = "dimmer" THEN [value EXCEPT ![s] = arg[w]] ELSE value
  /\ UNCHANGED <<serving, arg, victim, posts, back, front, mixer, hooks, server>>

SetLed(w) ==
  /\ pc[w] = "set"
  /\ \E led \in unset[w] :
       /\ back' = [back EXCEPT ![serving[w]][led] = arg[w]]
       /\ unset' = [unset EXCEPT ![w] = @ \ {led}]
  /\ UNCHANGED <<pc, serving, arg, victim, posts, holder, value, front, mixer, hooks, server>>

(* Overlay.strobe; the backlight changes its field after it. *)
Strobe(w) ==
  LET s == serving[w] IN
  /\ pc[w] = "set" /\ unset[w] = {}
  /\ Goto(w, IF s = "backlight" THEN "field" ELSE "notify")
  /\ front' = [front EXCEPT ![s] = back[s]]
  /\ requested' = TRUE
  /\ UNCHANGED <<serving, arg, unset, victim, posts, holder, value, back, shown, hooks, server>>

SetField(w) ==
  /\ pc[w] = "field"
  /\ Goto(w, "notify")
  /\ value' = [value EXCEPT ![serving[w]] = arg[w]]
  /\ UNCHANGED <<serving, arg, unset, victim, posts, holder, back, front, mixer, hooks, server>>

(* notify: a future for each URL; the monitor is released. *)
Notify(w) ==
  LET s == serving[w] IN
  /\ pc[w] = "notify"
  /\ Goto(w, "idle")
  /\ tasks' = [tasks EXCEPT ![s] =
                 @ \o SetToSeq({[url |-> u, setting |-> arg[w]] : u \in Url})]
  /\ told' = [told EXCEPT ![s] = arg[w]]
  /\ holder' = [s_ \in Service |-> IF holder[s_] = w THEN NOBODY ELSE holder[s_]]
  /\ UNCHANGED <<serving, arg, unset, victim, posts, value, back, front, mixer, running, server>>

(* A thread of the executor takes up a notification, *)
TakeTask(s) ==
  /\ tasks[s] # <<>> /\ Cardinality(running[s]) < Pool
  /\ running' = [running EXCEPT ![s] = @ \cup {Head(tasks[s])}]
  /\ tasks' = [tasks EXCEPT ![s] = Tail(@)]
  /\ UNCHANGED <<web, layers, mixer, told, server>>

(* which succeeds or fails, in no order; a failure is logged. *)
EndTask(s) ==
  /\ \E task \in running[s] : running' = [running EXCEPT ![s] = @ \ {task}]
  /\ UNCHANGED <<web, layers, mixer, tasks, told, server>>

(* Mixer.run: one run for all the requests before it *)
Blend ==
  /\ requested
  /\ requested' = FALSE
  /\ shown' = front
  /\ UNCHANGED <<web, layers, hooks, server>>

-----------------------------------------------------------------------------
(* Connections *)

channelConnected(c) ==
  /\ channel[c] = "none"
  /\ channel' = [channel EXCEPT ![c] = "open"]
  /\ local' = [local EXCEPT ![c] = TRUE]
  /\ status' = status \cup {c}
  /\ UNCHANGED <<web, layers, mixer, hooks, overtaken>>

(* The channel is closed: by the client, after an exception of dispatch, or
   some time after a kill, which another thread does.  Without a client
   status.removeClient throws, which is caught. *)
channelClosed(c) ==
  /\ channel[c] \in {"open", "closing"}
  /\ channel' = [channel EXCEPT ![c] = "closed"]
  /\ local' = [local EXCEPT ![c] = FALSE]
  /\ status' = IF local[c] THEN status \ {c} ELSE status
  /\ UNCHANGED <<web, layers, mixer, hooks, overtaken>>

(* Mutant: the client is removed before the channel is closed. *)
ForgetFirst(c) ==
  /\ channel[c] \in {"open", "closing"} /\ local[c]
  /\ local' = [local EXCEPT ![c] = FALSE]
  /\ channel' = [channel EXCEPT ![c] = "closing"]
  /\ overtaken' = IF channel[c] = "closing" THEN overtaken \cup {c} ELSE overtaken
  /\ UNCHANGED <<web, layers, mixer, hooks, status>>

(* A protocol violation, or an error of the connection.  close, called by the
   channel's own thread, runs channelClosed before it returns; if a kill closes
   the channel at the same time, close does nothing, and channelClosed finds no
   client when its turn comes. *)
exceptionCaught(c) ==
  /\ local[c]
  /\ local' = [local EXCEPT ![c] = FALSE]
  /\ channel' = [channel EXCEPT ![c] = IF @ = "open" THEN "closed" ELSE @]
  /\ status' = IF channel[c] = "open" THEN status \ {c} ELSE status
  /\ overtaken' = IF channel[c] = "closing" THEN overtaken \cup {c} ELSE overtaken
  /\ UNCHANGED <<web, layers, mixer, hooks>>

(* POST /api/clients/<id>: the client is looked up, *)
PostKill(w) ==
  /\ Post(w)
  /\ \E c \in status : victim' = [victim EXCEPT ![w] = c]
  /\ Goto(w, "kill")
  /\ UNCHANGED <<serving, arg, unset, layers, mixer, hooks, server>>

(* and closed, unless that has happened in the meantime. *)
Kill(w) ==
  /\ pc[w] = "kill"
  /\ Goto(w, "idle")
  /\ channel' = IF channel[victim[w]] = "open"
                THEN [channel EXCEPT ![victim[w]] = "closing"] ELSE channel
  /\ victim' = [victim EXCEPT ![w] = NOBODY]
  /\ UNCHANGED <<serving, arg, unset, posts, layers, mixer, hooks, local, status, overtaken>>

-----------------------------------------------------------------------------

Serve(w) == Enter(w) \/ SetLed(w) \/ Strobe(w) \/ SetField(w) \/ Notify(w) \/ Kill(w)
Hooks(s) == TakeTask(s) \/ EndTask(s)
Handler(c) == channelConnected(c) \/ channelClosed(c) \/ exceptionCaught(c)

Next ==
  \/ \E w \in Thread : PostSetting(w) \/ PostKill(w) \/ Serve(w)
  \/ \E s \in Service : Hooks(s)
  \/ Blend
  \/ \E c \in Connection : Handler(c)

Spec == Init /\ [][Next]_vars

-----------------------------------------------------------------------------
(* Properties *)

(* When a service is at rest, what GET answers, what the overlay holds for
   every LED, what the webhooks were last called with and, unless a run of the
   mixer is due, what the LEDs show is one and the same, in whatever order
   requests came and threads ran. *)
SettledAlike ==
  \A s \in Service :
    (\A w \in Thread : serving[w] = s => pc[w] \in {"idle", "enter", "kill"}) =>
      /\ front[s] = [led \in Led |-> value[s]]
      /\ told[s] = value[s]
      /\ requested \/ shown[s] = front[s]

(* The list of clients that is shown, and that a user picks one to close from,
   holds every connection the server serves, and none that is gone, whether it
   ended by itself, by an error or by a kill.  The one exception is an error
   that comes while a kill is closing the channel: exceptionCaught removes the
   client which channelClosed needs to take it off the list, and it stays there
   for ever. *)
ListedIsServed ==
  status = {c \in Connection : channel[c] \in {"open", "closing"}} \cup overtaken

=============================================================================
