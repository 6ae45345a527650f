-------------------------------- MODULE Mixer --------------------------------
(***************************************************************************)
(* The mixer of the daemon: the connections' threads write colours into    *)
(* their overlays and swap them to the front on a strobe, the mixer thread *)
(* blends the overlays and updates the hardware (mixer/Overlay.scala,      *)
(* mixer/Mixer.scala, mixer/Delay.scala, mixer/Manager.scala,              *)
(* server/Client.scala).                                                   *)
(*                                                                         *)
(* A step is what a thread does between two lock acquisitions: while a     *)
(* thread holds the monitor of an overlay, or of the mixer, the others can *)
(* move.  holder says which thread holds a monitor (they are reentrant).   *)
(* The lock of Delay is never held from one step to the next.              *)
(*                                                                         *)
(* A connection has at most one overlay that is not persistent at a time,  *)
(* so the connection's name serves for that overlay; a persistent overlay  *)
(* is named by its token.  A colour is either opaque or TRANSPARENT; UNSET *)
(* stands for a LED an overlay has no entry for.                           *)
(***************************************************************************)
EXTENDS Integers, SequencesExt

CONSTANTS
  Client,        (* connections to the daemon                                *)
  Persistent,    (* tokens configured as persistent                          *)
  Private,       (* the other configured tokens                              *)
  Priority,      (* the priority of each token, a number, BOTTOM or above    *)
  Led, Opaque,   (* LED numbers, opaque colours                              *)
  MaxRequests    (* bound: requests of all connections together              *)

CONSTANTS BACKGROUND, MIXER, NONE, QUIT, BROKEN, UNKNOWN, UNSET, TRANSPARENT,
          BLACK

BOTTOM == -1   \* Integer.MIN_VALUE, the background's priority

Overlay == {BACKGROUND} \cup Persistent \cup Client
Token   == Persistent \cup Private
Colour  == Opaque \cup {TRANSPARENT}

ASSUME MixerAssumption ==
  /\ IsFiniteSet(Persistent)
  /\ Priority \in [Token -> Int] /\ \A token \in Token : Priority[token] >= BOTTOM
  /\ Client \cap Persistent = {} /\ BACKGROUND \notin Client \cup Persistent
  /\ NONE \notin Overlay \cup {MIXER} /\ MIXER \notin Overlay
  /\ {QUIT, BROKEN, UNKNOWN} \cap Token = {} /\ UNKNOWN \notin {QUIT, BROKEN}
  /\ QUIT # BROKEN
  /\ TRANSPARENT \notin Opaque /\ UNSET \notin Colour
  /\ MaxRequests \in Nat

VARIABLES
  overlays, priority,                   (* Mixer.overlays, Overlay.priority  *)
  front, frontDirty, back, backDirty,   (* of each overlay                   *)
  holder,                               (* who holds a monitor               *)
  realWakeup, mixer,                    (* Delay; the mixer thread           *)
  client, overlay, next,                (* the connections' threads          *)
  shown,                                (* colours on the LEDs               *)
  staged, requests                      (* history; bound                    *)

fronts == <<front, frontDirty>>
backs  == <<back, backDirty>>
lists  == <<overlays, priority>>
delay  == <<realWakeup, mixer>>
conns  == <<overlay, next>>
vars   == <<lists, fronts, backs, holder, delay, client, conns, shown, staged,
            requests>>

Registered == Range(overlays)

TypeOK ==
  /\ overlays \in Seq(Overlay)
  /\ front \in [Overlay -> [Led -> Colour \cup {UNSET}]]
  /\ back \in [Overlay -> [Led -> Colour \cup {UNSET}]]
  /\ frontDirty \in [Overlay -> SUBSET Led]
  /\ backDirty \in [Overlay -> SUBSET Led]
  /\ holder \in [Overlay \cup {MIXER} -> Client \cup {MIXER, NONE}]
  /\ realWakeup \in BOOLEAN
  /\ mixer \in {"check", "waiting", "strobe", "blend", "dead"}
  /\ client \in [Client -> {"closed", "ready", "free", "free_mixer",
                            "free_remove", "free_notify", "assign",
                            "strobe_mixer", "strobe_notify"}]
  /\ overlay \in [Client -> Overlay \cup {NONE}]
  /\ next \in [Client -> Token \cup {UNKNOWN, QUIT, BROKEN}]
  /\ shown \in [Led -> Opaque \cup {BLACK}]
  /\ staged \in [Client -> SUBSET Led]
  /\ requests \in 0 .. MaxRequests

Unset == [led \in Led |-> UNSET]

(* The background's and the persistent tokens' overlays are registered before
   the first connection; those of equal priority, in any order. *)
Init ==
  /\ priority = [o \in Overlay |->
                   IF o \in Persistent THEN Priority[o] ELSE BOTTOM]
  /\ \E rest \in SetToSeqs(Persistent) :
       /\ \A i, j \in DOMAIN rest :
            i < j => priority[rest[i]] <= priority[rest[j]]
       /\ overlays = <<BACKGROUND>> \o rest
  /\ front = [o \in Overlay |-> Unset]
  /\ back = [o \in Overlay |-> Unset]
  /\ frontDirty = [o \in Overlay |-> {}]
  /\ backDirty = [o \in Overlay |-> {}]
  /\ holder = [m \in Overlay \cup {MIXER} |-> NONE]
  /\ realWakeup = FALSE
  /\ mixer = "check"
  /\ client = [c \in Client |-> "closed"]
  /\ overlay = [c \in Client |-> NONE]
  /\ next = [c \in Client |-> QUIT]
  /\ shown = [led \in Led |-> BLACK]
  /\ staged = [c \in Client |-> {}]
  /\ requests = 0

Goto(c, pc) == client' = [client EXCEPT ![c] = pc]

Acquire(monitor, thread) ==
  /\ holder[monitor] = NONE
  /\ holder' = [holder EXCEPT ![monitor] = thread]

Release(thread) ==
  holder' = [m \in DOMAIN holder |->
               IF holder[m] = thread THEN NONE ELSE holder[m]]

(* Mutant: the waiting thread is not signalled. *)
FlagOnly == realWakeup' = TRUE /\ UNCHANGED mixer

(* Delay.requestRun *)
RequestRun ==
  /\ realWakeup' = TRUE
  /\ mixer' = IF mixer = "waiting" THEN "check" ELSE mixer

-----------------------------------------------------------------------------
(* Connections: requests *)

Request(c) ==
  /\ client[c] = "ready"
  /\ requests < MaxRequests
  /\ requests' = requests + 1

Connect(c) ==
  /\ client[c] = "closed"
  /\ requests < MaxRequests
  /\ requests' = requests + 1
  /\ Goto(c, "ready")
  /\ overlay' = [overlay EXCEPT ![c] = NONE]
  /\ staged' = [staged EXCEPT ![c] = {}]
  /\ UNCHANGED <<lists, fronts, backs, holder, delay, next, shown>>

(* Mutant: the overlay held so far is not freed. *)
AuthKeepsOverlay(c, token) ==
  /\ Request(c)
  /\ next' = [next EXCEPT ![c] = token]
  /\ Goto(c, "assign")
  /\ UNCHANGED <<lists, fronts, backs, holder, delay, overlay, shown, staged>>

(* Client.auth: the overlay of the token held so far is freed; free returns at
   once when it is persistent. *)
Auth(c, token) ==
  /\ Request(c)
  /\ next' = [next EXCEPT ![c] = token]
  /\ Goto(c, IF overlay[c] = c THEN "free" ELSE "assign")
  /\ UNCHANGED <<lists, fronts, backs, holder, delay, overlay, shown, staged>>

(* Client.disconnect, when the channel is closed (QUIT) or an exception is
   caught (BROKEN).  It happens without being asked for, so it does not count
   as a request. *)
Close(c, how) ==
  /\ client[c] = "ready"
  /\ next' = [next EXCEPT ![c] = how]
  /\ Goto(c, IF overlay[c] = c THEN "free" ELSE "closed")
  /\ UNCHANGED <<lists, fronts, backs, holder, delay, overlay, shown, staged,
                 requests>>

(* Mutant: the colour goes to the front as well. *)
SetBoth(c, led, colour) ==
  LET o == overlay[c] IN
  /\ Request(c)
  /\ o # NONE
  /\ holder[o] = NONE
  /\ back' = [back EXCEPT ![o][led] = colour]
  /\ front' = [front EXCEPT ![o][led] = colour]
  /\ backDirty' = [backDirty EXCEPT ![o] = @ \cup {led}]
  /\ staged' = [staged EXCEPT ![c] = @ \cup {led}]
  /\ UNCHANGED <<lists, frontDirty, holder, delay, client, conns, shown>>

(* Client.setLed and Overlay.set *)
Set(c, led, colour) ==
  LET o == overlay[c] IN
  /\ Request(c)
  /\ o # NONE
  /\ holder[o] = NONE
  /\ back' = [back EXCEPT ![o][led] = colour]
  /\ backDirty' = [backDirty EXCEPT ![o] = @ \cup {led}]
  /\ staged' = [staged EXCEPT ![c] = @ \cup {led}]
  /\ UNCHANGED <<lists, fronts, holder, delay, client, conns, shown>>

(* Client.strobe and Overlay.strobe, which takes the monitor of the overlay *)
Strobe(c) ==
  /\ Request(c)
  /\ overlay[c] # NONE
  /\ Acquire(overlay[c], c)
  /\ Goto(c, "strobe_mixer")
  /\ UNCHANGED <<lists, fronts, backs, delay, conns, shown, staged>>

-----------------------------------------------------------------------------
(* Connections: Overlay.strobe *)

(* Mutant: what was dirty already is forgotten. *)
SwapForgets(o, newBack, newDirty) ==
  /\ front' = [front EXCEPT ![o] = newBack]
  /\ frontDirty' = [frontDirty EXCEPT ![o] = newDirty]
  /\ back' = [back EXCEPT ![o] = newBack]
  /\ backDirty' = [backDirty EXCEPT ![o] = {}]

(* The back becomes the front of overlay o. *)
Swap(o, newBack, newDirty) ==
  /\ front' = [front EXCEPT ![o] = newBack]
  /\ frontDirty' = [frontDirty EXCEPT ![o] = @ \cup newDirty]
  /\ back' = [back EXCEPT ![o] = newBack]
  /\ backDirty' = [backDirty EXCEPT ![o] = {}]

(* with the monitor of the mixer too, *)
StrobeSwap(c) ==
  LET o == overlay[c] IN
  /\ client[c] = "strobe_mixer"
  /\ Acquire(MIXER, c)
  /\ Swap(o, back[o], backDirty[o])
  /\ staged' = [staged EXCEPT ![c] = {}]
  /\ Goto(c, "strobe_notify")
  /\ UNCHANGED <<lists, delay, conns, shown, requests>>

(* and the mixer thread is woken up. *)
StrobeNotify(c) ==
  /\ client[c] = "strobe_notify"
  /\ RequestRun
  /\ Release(c)
  /\ Goto(c, "ready")
  /\ UNCHANGED <<lists, fronts, backs, conns, shown, staged, requests>>

-----------------------------------------------------------------------------
(* Connections: Overlay.free *)

FreeOverlay(c) ==
  /\ client[c] = "free"
  /\ Acquire(overlay[c], c)
  /\ Goto(c, "free_mixer")
  /\ UNCHANGED <<lists, fronts, backs, delay, conns, shown, staged, requests>>

FreeMixer(c) ==
  /\ client[c] = "free_mixer"
  /\ Acquire(MIXER, c)
  /\ Goto(c, "free_remove")
  /\ UNCHANGED <<lists, fronts, backs, delay, conns, shown, staged, requests>>

(* The overlay is removed and, Mixer.markBackgroundDirty, the LEDs it had a
   colour for are made transparent in the background and so marked dirty.  The
   monitor of the background is taken inside that of the mixer. *)
FreeRemove(c) ==
  LET leds == {led \in Led : front[c][led] # UNSET}
      b    == BACKGROUND
  IN
  /\ client[c] = "free_remove"
  /\ Acquire(b, c)
  /\ overlays' = RemoveFirst(overlays, c)
  /\ Swap(b, [led \in Led |-> IF led \in leds THEN TRANSPARENT
                              ELSE back[b][led]],
          backDirty[b] \cup leds)
  /\ Goto(c, "free_notify")
  /\ UNCHANGED <<priority, delay, conns, shown, staged, requests>>

(* exceptionCaught disconnects the client and then closes the channel, which
   disconnects it again: the overlay is freed twice. *)
FreeNotify(c) ==
  /\ client[c] = "free_notify"
  /\ RequestRun
  /\ Release(c)
  /\ Goto(c, IF next[c] = BROKEN THEN "free"
             ELSE IF next[c] = QUIT THEN "closed"
             ELSE "assign")
  /\ next' = [next EXCEPT ![c] = IF @ = BROKEN THEN QUIT ELSE @]
  /\ UNCHANGED <<lists, fronts, backs, overlay, shown, staged, requests>>

-----------------------------------------------------------------------------
(* Connections: Client.auth goes on *)

(* Where Mixer.register inserts an overlay: after the last one whose priority
   is not greater. *)
Position(p) ==
  1 + Max({0} \cup {i \in DOMAIN overlays : priority[overlays[i]] <= p})

(* Manager.getOverlay for a token that is not persistent: Mixer.register *)
Register(c) ==
  /\ holder[MIXER] = NONE
  /\ overlays' = InsertAt(overlays, Position(Priority[next[c]]), c)
  /\ priority' = [priority EXCEPT ![c] = Priority[next[c]]]
  /\ front' = [front EXCEPT ![c] = Unset]
  /\ back' = [back EXCEPT ![c] = Unset]
  /\ frontDirty' = [frontDirty EXCEPT ![c] = {}]
  /\ backDirty' = [backDirty EXCEPT ![c] = {}]
  /\ overlay' = [overlay EXCEPT ![c] = c]

Assign(c) ==
  /\ client[c] = "assign"
  /\ \/ /\ next[c] \in Private
        /\ Register(c)
     \/ /\ next[c] \in Persistent
        /\ overlay' = [overlay EXCEPT ![c] = next[c]]
        /\ UNCHANGED <<lists, fronts, backs>>
     \/ /\ next[c] = UNKNOWN
        /\ overlay' = [overlay EXCEPT ![c] = NONE]
        /\ UNCHANGED <<lists, fronts, backs>>
  /\ staged' = [staged EXCEPT ![c] = {}]
  /\ Goto(c, "ready")
  /\ UNCHANGED <<holder, delay, next, shown, requests>>

-----------------------------------------------------------------------------
(* The mixer thread *)

(* Mixer.getBlendedColor: the topmost opaque colour, BLACK if there is none *)
Blended(led) ==
  LET visible == {i \in DOMAIN overlays : front[overlays[i]][led] \in Opaque}
  IN  IF visible = {} THEN BLACK ELSE front[overlays[Max(visible)]][led]

(* Mixer.getDirtyLeds *)
Dirty == UNION {frontDirty[o] : o \in Registered}

mixerUnchanged == <<lists, front, backs, client, conns, staged, requests>>

(* Delay.awaitRun: sleep, then wait until realWakeup is set. *)
AwaitRun ==
  /\ mixer = "check"
  /\ IF realWakeup THEN mixer' = "strobe" /\ realWakeup' = FALSE
                   ELSE mixer' = "waiting" /\ UNCHANGED realWakeup
  /\ UNCHANGED <<mixerUnchanged, frontDirty, holder, shown>>

(* A condition variable may wake up for no reason. *)
SpuriousWakeup ==
  /\ mixer = "waiting"
  /\ mixer' = "check"
  /\ UNCHANGED <<mixerUnchanged, frontDirty, holder, realWakeup, shown>>

(* Mixer.strobe *)
LockMixer ==
  /\ mixer = "strobe"
  /\ Acquire(MIXER, MIXER)
  /\ mixer' = "blend"
  /\ UNCHANGED <<mixerUnchanged, frontDirty, realWakeup, shown>>

(* All registered overlays are told that they have been seen. *)
Seen == frontDirty' = [o \in Overlay |->
                         IF o \in Registered THEN {} ELSE frontDirty[o]]

Blend ==
  /\ mixer = "blend"
  /\ shown' = [led \in Led |->
                 IF led \in Dirty THEN Blended(led) ELSE shown[led]]
  /\ Seen
  /\ Release(MIXER)
  /\ mixer' = "check"
  /\ UNCHANGED <<mixerUnchanged, realWakeup>>

(* Mutant: the exception leaves the monitor locked. *)
BlendFailsLocked ==
  /\ mixer = "blend"
  /\ Seen
  /\ mixer' = "dead"
  /\ UNCHANGED <<mixerUnchanged, holder, realWakeup, shown>>

(* Writing to the bus fails: the exception ends the mixer thread. *)
BlendFails ==
  /\ mixer = "blend"
  /\ Seen
  /\ Release(MIXER)
  /\ mixer' = "dead"
  /\ UNCHANGED <<mixerUnchanged, realWakeup, shown>>

Handle(c) ==
  \/ StrobeSwap(c) \/ StrobeNotify(c)
  \/ FreeOverlay(c) \/ FreeMixer(c) \/ FreeRemove(c) \/ FreeNotify(c)
  \/ Assign(c)

MixerThread == AwaitRun \/ LockMixer \/ Blend

Next ==
  \/ \E c \in Client :
       \/ Connect(c) \/ Strobe(c)
       \/ \E how \in {QUIT, BROKEN} : Close(c, how)
       \/ \E token \in Token \cup {UNKNOWN} : Auth(c, token)
       \/ \E led \in Led, colour \in Colour : Set(c, led, colour)
       \/ Handle(c)
  \/ MixerThread \/ SpuriousWakeup \/ BlendFails

Spec == Init /\ [][Next]_vars

(* Every thread goes on with what it has begun.  The monitors need not be
   fair: the number of requests is bounded, so a thread that waits for a
   monitor cannot be overtaken forever. *)
FairSpec == Spec /\ WF_vars(MixerThread) /\ \A c \in Client : WF_vars(Handle(c))

-----------------------------------------------------------------------------
(* Properties *)

(* However connections register, free and authenticate among one another, the
   overlays are blended in the order of their priorities, with the background
   at the bottom and none in the list twice; a connection that is closed, or
   has authenticated as something else, leaves no overlay behind, and the
   overlay a connection writes to is on display. *)
OverlaysInOrder ==
  /\ overlays[1] = BACKGROUND
  /\ \A i, j \in DOMAIN overlays :
       i < j => /\ priority[overlays[i]] <= priority[overlays[j]]
                /\ overlays[i] # overlays[j]
  /\ \A c \in Client :
       /\ c \in Registered => overlay[c] = c /\ client[c] # "closed"
       /\ client[c] \in {"ready", "strobe_mixer", "strobe_notify"} =>
            overlay[c] \in Registered \cup {NONE}

(* A LED whose colour is not the one the overlays call for is marked dirty in
   an overlay that is on display, whatever overlays have come and gone. *)
StaleIsDirty ==
  mixer # "dead" =>
    \A led \in Led : shown[led] = Blended(led) \/ led \in Dirty

(* HACKING:89-91: "Changes don't take effect until you issue a strobe command,
   at which point they take effect all at once".  This holds for a connection
   that has its overlay to itself; with a persistent token, another connection's
   strobe shows what this one has staged. *)
ChangesWaitForStrobe ==
  [][\A c \in Client : \A led \in staged[c] :
       overlay[c] = c
       /\ front'[overlay[c]][led] # front[overlay[c]][led]
       => staged'[c] = {}]_vars

(* Once no more requests come, the LEDs show what the overlays call for, unless
   the bus has failed. *)
Converges == <>[](mixer = "dead" \/ \A led \in Led : shown[led] = Blended(led))

(* No two threads block each other, and none waits for a mixer thread that has
   died: every request is finished. *)
RequestsFinish ==
  \A c \in Client :
    client[c] \notin {"ready", "closed"} ~> client[c] \in {"ready", "closed"}

=============================================================================
