---------------------------- MODULE Services_proofs ----------------------------
(***************************************************************************)
(* Proofs about Services, for any number of threads, LEDs, settings and    *)
(* connections and requests: what a service at rest says, stores, shows    *)
(* and has told is one setting, and the list of connections is right but   *)
(* for the error that overtakes a kill.                                    *)
(***************************************************************************)
EXTENDS Services, TLAPS

Places == {"idle", "enter", "set", "field", "notify", "kill"}
States == {"none", "open", "closing", "closed"}

(* The types of what the properties are about; notifications are handed on
   unchanged. *)
ServicesTypeOK ==
  /\ pc \in [Thread -> Places]
  /\ serving \in [Thread -> Service]
  /\ arg \in [Thread -> Setting]
  /\ unset \in [Thread -> SUBSET Led]
  /\ victim \in [Thread -> Connection \cup {NOBODY}]
  /\ holder \in [Service -> Thread \cup {NOBODY}]
  /\ value \in [Service -> Setting]
  /\ back \in [Service -> [Led -> Setting]]
  /\ front \in [Service -> [Led -> Setting]]
  /\ requested \in BOOLEAN
  /\ told \in [Service -> Setting]
  /\ channel \in [Connection -> States]
  /\ local \in [Connection -> BOOLEAN]
  /\ status \subseteq Connection
  /\ overtaken \subseteq Connection

Inside(w) == pc[w] \in {"set", "field", "notify"}
Everywhere(setting) == [led \in Led |-> setting]

(* A thread is in dimTo or setColor if and only if it holds the monitor. *)
MonitorHeld ==
  /\ \A w \in Thread : Inside(w) => holder[serving[w]] = w
  /\ \A s \in Service : holder[s] # NOBODY =>
       Inside(holder[s]) /\ serving[holder[s]] = s

(* What the holder of the monitor has done so far *)
Progress ==
  \A w \in Thread :
    /\ pc[w] = "set" =>
         /\ \A led \in Led \ unset[w] : back[serving[w]][led] = arg[w]
         /\ serving[w] = "dimmer" => value["dimmer"] = arg[w]
    /\ pc[w] \in {"field", "notify"} => front[serving[w]] = Everywhere(arg[w])
    /\ pc[w] = "field" => serving[w] = "backlight"
    /\ pc[w] = "notify" => value[serving[w]] = arg[w]

(* Nobody has a service's monitor: the service is at rest. *)
Rest ==
  \A s \in Service : holder[s] = NOBODY =>
    front[s] = Everywhere(value[s]) /\ told[s] = value[s]

(* What is not shown will be. *)
Shown == requested \/ shown = front

ServiceIInv == ServicesTypeOK /\ MonitorHeld /\ Progress /\ Rest /\ Shown

(* A handler has its client as long as the channel is open, and while it is
   being closed unless an error came first. *)
ClientsKnown ==
  \A c \in Connection :
    /\ channel[c] = "open" => local[c]
    /\ local[c] => channel[c] \in {"open", "closing"} /\ c \notin overtaken
    /\ channel[c] = "closing" /\ ~local[c] => c \in overtaken
    /\ c \in overtaken => channel[c] \in {"closing", "closed"}

ListIInv == ServicesTypeOK /\ ClientsKnown /\ ListedIsServed

-----------------------------------------------------------------------------
(* Types *)

LEMMA InitTypes == Init => ServicesTypeOK
<1> SUFFICES ASSUME Init PROVE ServicesTypeOK
  OBVIOUS
<1> USE ServicesAssumption DEF Init
<1>1. /\ pc \in [Thread -> Places]
      /\ serving \in [Thread -> Service]
      /\ arg \in [Thread -> Setting]
      /\ unset \in [Thread -> SUBSET Led]
      /\ victim \in [Thread -> Connection \cup {NOBODY}]
  BY DEF Places, Service
<1>2. /\ holder \in [Service -> Thread \cup {NOBODY}]
      /\ value \in [Service -> Setting]
      /\ told \in [Service -> Setting]
      /\ requested \in BOOLEAN
  OBVIOUS
<1>3. back \in [Service -> [Led -> Setting]] /\ front \in [Service -> [Led -> Setting]]
  OBVIOUS
<1>4. /\ channel \in [Connection -> States]
      /\ local \in [Connection -> BOOLEAN]
      /\ status \subseteq Connection
      /\ overtaken \subseteq Connection
  BY DEF States
<1> QED
  BY <1>1, <1>2, <1>3, <1>4 DEF ServicesTypeOK

LEMMA ServicesTypesKept ==
  ASSUME ServicesTypeOK, [Next]_vars
  PROVE  ServicesTypeOK'
<1> USE DEF ServicesTypeOK
<1>1. ASSUME NEW w \in Thread, PostSetting(w)
      PROVE  ServicesTypeOK'
  BY <1>1 DEF PostSetting, Post, Goto, Places, layers, mixer, hooks, server
<1>2. ASSUME NEW w \in Thread, PostKill(w)
      PROVE  ServicesTypeOK'
  BY <1>2 DEF PostKill, Post, Goto, Places, layers, mixer, hooks, server
<1>3. ASSUME NEW w \in Thread, Enter(w)
      PROVE  ServicesTypeOK'
  BY <1>3 DEF Enter, Goto, Places, mixer, hooks, server
<1>4. ASSUME NEW w \in Thread, SetLed(w)
      PROVE  ServicesTypeOK'
  BY <1>4 DEF SetLed, mixer, hooks, server
<1>5. ASSUME NEW w \in Thread, Strobe(w)
      PROVE  ServicesTypeOK'
  BY <1>5 DEF Strobe, Goto, Places, hooks, server
<1>6. ASSUME NEW w \in Thread, SetField(w)
      PROVE  ServicesTypeOK'
  BY <1>6 DEF SetField, Goto, Places, mixer, hooks, server
<1>7. ASSUME NEW w \in Thread, Notify(w)
      PROVE  ServicesTypeOK'
  BY <1>7 DEF Notify, Goto, Places, mixer, server
<1>8. ASSUME NEW w \in Thread, Kill(w)
      PROVE  ServicesTypeOK'
  BY <1>8 DEF Kill, Goto, Places, States, mixer, hooks, layers
<1>9. ASSUME NEW s \in Service, Hooks(s)
      PROVE  ServicesTypeOK'
  BY <1>9 DEF Hooks, TakeTask, EndTask, web, layers, mixer, server
<1>10. CASE Blend
  BY <1>10 DEF Blend, web, layers, hooks, server
<1>11. ASSUME NEW c \in Connection, Handler(c)
       PROVE  ServicesTypeOK'
  BY <1>11
     DEF Handler, channelConnected, channelClosed, exceptionCaught, States,
         web, layers, mixer, hooks
<1>12. CASE UNCHANGED vars
  BY <1>12 DEF vars, web, layers, mixer, hooks, server
<1> QED
  BY <1>1, <1>2, <1>3, <1>4, <1>5, <1>6, <1>7, <1>8, <1>9, <1>10, <1>11, <1>12
     DEF Next, Serve

-----------------------------------------------------------------------------
(* Dimmer and backlight *)

LEMMA InitRest == Init => ServiceIInv
<1> SUFFICES ASSUME Init PROVE ServiceIInv
  OBVIOUS
<1>1. ServicesTypeOK
  BY InitTypes
<1>2. MonitorHeld /\ Progress /\ Shown
  BY DEF Init, MonitorHeld, Progress, Shown, Inside
<1>3. Rest
  BY DEF Init, Rest, Everywhere
<1> QED
  BY <1>1, <1>2, <1>3 DEF ServiceIInv

(* A step that leaves the services alone, but may take a thread that is in none
   elsewhere outside *)
LEMMA OutsideKeeps ==
  ASSUME ServiceIInv, ServicesTypeOK',
         UNCHANGED layers, UNCHANGED <<unset, told>>, Shown',
         \A w \in Thread :
           \/ pc'[w] = pc[w] /\ serving'[w] = serving[w] /\ arg'[w] = arg[w]
           \/ ~Inside(w) /\ pc'[w] \in {"idle", "enter", "kill"}
  PROVE  ServiceIInv'
<1>1. ServicesTypeOK /\ MonitorHeld /\ Progress /\ Rest
  BY DEF ServiceIInv
<1>2. /\ holder' = holder /\ value' = value /\ back' = back /\ front' = front
      /\ told' = told /\ unset' = unset
  BY DEF layers
<1>3. MonitorHeld'
  <2>1. ASSUME NEW w \in Thread, pc'[w] \in {"set", "field", "notify"}
        PROVE  holder'[serving'[w]] = w
    <3>1. pc'[w] = pc[w] /\ serving'[w] = serving[w]
      BY <2>1
    <3> QED
      BY <1>1, <1>2, <2>1, <3>1 DEF MonitorHeld, Inside
  <2>2. ASSUME NEW s \in Service, holder'[s] # NOBODY
        PROVE  /\ pc'[holder'[s]] \in {"set", "field", "notify"}
               /\ serving'[holder'[s]] = s
    <3>1. holder[s] \in Thread /\ Inside(holder[s]) /\ serving[holder[s]] = s
      BY <1>1, <1>2, <2>2 DEF MonitorHeld, ServicesTypeOK
    <3>2. pc'[holder[s]] = pc[holder[s]] /\ serving'[holder[s]] = serving[holder[s]]
      BY <3>1
    <3> QED
      BY <1>2, <3>1, <3>2 DEF Inside
  <2> QED
    BY <2>1, <2>2 DEF MonitorHeld, Inside
<1>4. Progress'
  BY <1>1, <1>2 DEF Progress
<1>5. Rest'
  BY <1>1, <1>2 DEF Rest
<1> QED
  BY <1>3, <1>4, <1>5 DEF ServiceIInv

(* Two threads are never inside one service. *)
LEMMA OneInside ==
  ASSUME ServiceIInv, NEW v \in Thread, NEW w \in Thread, v # w,
         Inside(v), Inside(w)
  PROVE  serving[v] # serving[w]
BY DEF ServiceIInv, MonitorHeld

LEMMA EnterKeeps ==
  ASSUME ServiceIInv, ServicesTypeOK', NEW w \in Thread, Enter(w)
  PROVE  ServiceIInv'
<1> DEFINE s == serving[w]
<1>1. ServicesTypeOK /\ MonitorHeld /\ Progress /\ Rest /\ Shown
  BY DEF ServiceIInv
<1>2. /\ pc[w] = "enter" /\ holder[s] = NOBODY /\ s \in Service
      /\ pc' = [pc EXCEPT ![w] = "set"]
      /\ holder' = [holder EXCEPT ![s] = w]
      /\ unset' = [unset EXCEPT ![w] = Led]
      /\ value' = IF s = "dimmer" THEN [value EXCEPT ![s] = arg[w]] ELSE value
      /\ serving' = serving /\ arg' = arg /\ back' = back /\ front' = front
      /\ told' = told /\ requested' = requested /\ shown' = shown
  BY <1>1 DEF Enter, Goto, mixer, hooks, ServicesTypeOK
<1>3. \A v \in Thread : v # w =>
        pc'[v] = pc[v] /\ unset'[v] = unset[v] /\ (Inside(v) => serving[v] # s)
  BY <1>1, <1>2, ServicesAssumption DEF ServicesTypeOK, MonitorHeld
<1>4. MonitorHeld'
  <2>1. /\ holder'[s] = w /\ pc'[w] = "set" /\ serving'[w] = s
        /\ \A r \in Service : r # s => holder'[r] = holder[r]
    BY <1>1, <1>2 DEF ServicesTypeOK
  <2>2. ASSUME NEW v \in Thread, Inside(v)' PROVE holder'[serving'[v]] = v
    BY <1>1, <1>2, <1>3, <2>1, <2>2 DEF MonitorHeld, Inside, ServicesTypeOK
  <2>3. ASSUME NEW r \in Service, r # s, holder'[r] # NOBODY
        PROVE  /\ pc'[holder'[r]] \in {"set", "field", "notify"}
               /\ serving'[holder'[r]] = r
    <3>1. /\ holder[r] \in Thread /\ Inside(holder[r]) /\ serving[holder[r]] = r
      BY <1>1, <2>1, <2>3 DEF MonitorHeld, ServicesTypeOK
    <3>2. holder[r] # w
      BY <3>1, <2>3
    <3> QED
      BY <1>2, <1>3, <2>1, <2>3, <3>1, <3>2 DEF Inside
  <2>4. Inside(w)'
    BY <2>1 DEF Inside
  <2> QED
    BY <2>1, <2>2, <2>3, <2>4 DEF MonitorHeld, Inside
<1>5. Progress'
  <2>1. \A r \in Service : r # s => value'[r] = value[r]
    BY <1>1, <1>2 DEF ServicesTypeOK
  <2>2. s = "dimmer" => value'["dimmer"] = arg[w]
    BY <1>1, <1>2 DEF ServicesTypeOK
  <2>3. pc'[w] = "set" /\ unset'[w] = Led
    BY <1>1, <1>2 DEF ServicesTypeOK
  <2>4. \A v \in Thread : v # w /\ Inside(v) => value'[serving[v]] = value[serving[v]]
    BY <1>1, <1>3, <2>1 DEF ServicesTypeOK
  <2> QED
    BY <1>1, <1>2, <1>3, <2>2, <2>3, <2>4 DEF Progress, Inside
<1>6. Rest'
  BY <1>1, <1>2, ServicesAssumption DEF Rest, ServicesTypeOK
<1>7. Shown'
  BY <1>1, <1>2 DEF Shown
<1> QED
  BY <1>4, <1>5, <1>6, <1>7 DEF ServiceIInv

LEMMA SetLedKeeps ==
  ASSUME ServiceIInv, ServicesTypeOK', NEW w \in Thread, SetLed(w)
  PROVE  ServiceIInv'
<1>1. ServicesTypeOK /\ MonitorHeld /\ Progress /\ Rest /\ Shown
  BY DEF ServiceIInv
<1>2. PICK led \in unset[w] :
        /\ back' = [back EXCEPT ![serving[w]][led] = arg[w]]
        /\ unset' = [unset EXCEPT ![w] = @ \ {led}]
  BY DEF SetLed
<1>3. /\ pc[w] = "set" /\ pc' = pc /\ serving' = serving /\ arg' = arg
      /\ holder' = holder /\ value' = value /\ front' = front
      /\ told' = told /\ requested' = requested /\ shown' = shown
  BY DEF SetLed, mixer, hooks
<1>4. led \in Led /\ serving[w] \in Service
  BY <1>1, <1>2 DEF ServicesTypeOK
<1>5. /\ \A l \in Led : back'[serving[w]][l] =
                          IF l = led THEN arg[w] ELSE back[serving[w]][l]
      /\ \A r \in Service : r # serving[w] => back'[r] = back[r]
  BY <1>1, <1>2, <1>4 DEF ServicesTypeOK
<1>6. \A v \in Thread : v # w =>
        unset'[v] = unset[v] /\ (Inside(v) => serving[v] # serving[w])
  BY <1>1, <1>2, <1>3, OneInside DEF ServicesTypeOK, Inside
<1>7. unset'[w] = unset[w] \ {led}
  BY <1>1, <1>2 DEF ServicesTypeOK
<1>8. Progress'
  <2>1. \A l \in Led \ unset'[w] : back'[serving[w]][l] = arg[w]
    BY <1>1, <1>3, <1>5, <1>7 DEF Progress
  <2>2. ASSUME NEW v \in Thread, v # w, pc[v] = "set"
        PROVE  \A l \in Led \ unset'[v] : back'[serving[v]][l] = arg[v]
    BY <1>1, <1>5, <1>6, <2>2 DEF Progress, Inside, ServicesTypeOK
  <2> QED
    BY <1>1, <1>3, <2>1, <2>2 DEF Progress
<1>9. MonitorHeld' /\ Rest' /\ Shown'
  BY <1>1, <1>3 DEF MonitorHeld, Inside, Rest, Shown
<1> QED
  BY <1>8, <1>9 DEF ServiceIInv

LEMMA StrobeKeeps ==
  ASSUME ServiceIInv, ServicesTypeOK', NEW w \in Thread, Strobe(w)
  PROVE  ServiceIInv'
<1> DEFINE s == serving[w]
<1>1. ServicesTypeOK /\ MonitorHeld /\ Progress /\ Rest
  BY DEF ServiceIInv
<1>2. /\ pc[w] = "set" /\ unset[w] = {} /\ s \in Service
      /\ pc' = [pc EXCEPT ![w] = IF s = "backlight" THEN "field" ELSE "notify"]
      /\ front' = [front EXCEPT ![s] = back[s]] /\ requested' = TRUE
      /\ unset' = unset /\ serving' = serving /\ arg' = arg /\ back' = back
      /\ holder' = holder /\ value' = value /\ told' = told
  BY <1>1 DEF Strobe, Goto, hooks, ServicesTypeOK
<1>3. \A v \in Thread : v # w =>
        pc'[v] = pc[v] /\ (Inside(v) => serving[v] # s)
  BY <1>1, <1>2, OneInside DEF ServicesTypeOK, Inside
<1>4. /\ front'[s] = back[s]
      /\ \A r \in Service : r # s => front'[r] = front[r]
      /\ holder[s] = w
      /\ pc'[w] = IF s = "backlight" THEN "field" ELSE "notify"
  BY <1>1, <1>2 DEF ServicesTypeOK, MonitorHeld, Inside
<1>5. back[s] = Everywhere(arg[w])
  BY <1>1, <1>2 DEF Progress, Everywhere, ServicesTypeOK
<1>6. Progress'
  <2>1. pc'[w] = "notify" => value[s] = arg[w]
    BY <1>1, <1>2, <1>4 DEF Progress, Service
  <2>2. ASSUME NEW v \in Thread, v # w, pc'[v] \in {"field", "notify"}
        PROVE  front'[serving[v]] = Everywhere(arg[v])
    BY <1>1, <1>3, <1>4, <2>2 DEF Progress, Inside, ServicesTypeOK
  <2> QED
    BY <1>1, <1>2, <1>3, <1>4, <1>5, <2>1, <2>2 DEF Progress
<1>7. MonitorHeld'
  BY <1>1, <1>2, <1>3, <1>4 DEF MonitorHeld, Inside, ServicesTypeOK
<1>8. Rest'
  BY <1>1, <1>2, <1>4, ServicesAssumption DEF Rest
<1>9. Shown'
  BY <1>2 DEF Shown
<1> QED
  BY <1>6, <1>7, <1>8, <1>9 DEF ServiceIInv

LEMMA SetFieldKeeps ==
  ASSUME ServiceIInv, ServicesTypeOK', NEW w \in Thread, SetField(w)
  PROVE  ServiceIInv'
<1> DEFINE s == serving[w]
<1>1. ServicesTypeOK /\ MonitorHeld /\ Progress /\ Rest /\ Shown
  BY DEF ServiceIInv
<1>2. /\ pc[w] = "field" /\ s = "backlight" /\ s \in Service
      /\ pc' = [pc EXCEPT ![w] = "notify"]
      /\ value' = [value EXCEPT ![s] = arg[w]]
      /\ unset' = unset /\ serving' = serving /\ arg' = arg /\ back' = back
      /\ front' = front /\ holder' = holder /\ told' = told
      /\ requested' = requested /\ shown' = shown
  BY <1>1 DEF SetField, Goto, mixer, hooks, ServicesTypeOK, Progress
<1>3. \A v \in Thread : v # w =>
        pc'[v] = pc[v] /\ (Inside(v) => serving[v] # s)
  BY <1>1, <1>2, OneInside DEF ServicesTypeOK, Inside
<1>4. /\ value'[s] = arg[w] /\ pc'[w] = "notify" /\ holder[s] = w
      /\ \A r \in Service : r # s => value'[r] = value[r]
  BY <1>1, <1>2 DEF ServicesTypeOK, MonitorHeld, Inside
<1>5. Progress'
  <2>1. ASSUME NEW v \in Thread, v # w, Inside(v)
        PROVE  value'[serving[v]] = value[serving[v]]
    BY <1>1, <1>3, <1>4, <2>1 DEF ServicesTypeOK
  <2> QED
    BY <1>1, <1>2, <1>3, <1>4, <2>1 DEF Progress, Inside
<1>6. MonitorHeld'
  BY <1>1, <1>2, <1>3, <1>4 DEF MonitorHeld, Inside, ServicesTypeOK
<1>7. Rest' /\ Shown'
  BY <1>1, <1>2, <1>4, ServicesAssumption DEF Rest, Shown
<1> QED
  BY <1>5, <1>6, <1>7 DEF ServiceIInv

LEMMA NotifyKeeps ==
  ASSUME ServiceIInv, ServicesTypeOK', NEW w \in Thread, Notify(w)
  PROVE  ServiceIInv'
<1> DEFINE s == serving[w]
<1>1. ServicesTypeOK /\ MonitorHeld /\ Progress /\ Rest /\ Shown
  BY DEF ServiceIInv
<1>2. /\ pc[w] = "notify" /\ s \in Service
      /\ pc' = [pc EXCEPT ![w] = "idle"]
      /\ told' = [told EXCEPT ![s] = arg[w]]
      /\ holder' = [r \in Service |-> IF holder[r] = w THEN NOBODY ELSE holder[r]]
      /\ unset' = unset /\ serving' = serving /\ arg' = arg /\ back' = back
      /\ front' = front /\ value' = value
      /\ requested' = requested /\ shown' = shown
  BY <1>1 DEF Notify, Goto, mixer, ServicesTypeOK
<1>3. \A v \in Thread : v # w => pc'[v] = pc[v]
  BY <1>1, <1>2 DEF ServicesTypeOK
<1>4. /\ told'[s] = arg[w] /\ pc'[w] = "idle" /\ holder[s] = w
      /\ \A r \in Service : r # s => told'[r] = told[r]
  BY <1>1, <1>2 DEF ServicesTypeOK, MonitorHeld, Inside
<1>5. \A r \in Service :
        holder'[r] = IF r = s THEN NOBODY ELSE holder[r]
  BY <1>1, <1>2, <1>4, ServicesAssumption DEF MonitorHeld
<1>6. MonitorHeld'
  BY <1>1, <1>2, <1>3, <1>4, <1>5, OneInside
     DEF MonitorHeld, Inside, ServicesTypeOK
<1>7. Progress'
  BY <1>1, <1>2, <1>3, <1>4 DEF Progress
<1>8. Rest'
  <2>1. front[s] = Everywhere(arg[w]) /\ value[s] = arg[w]
    BY <1>1, <1>2 DEF Progress
  <2> QED
    BY <1>1, <1>2, <1>4, <1>5, <2>1 DEF Rest
<1>9. Shown'
  BY <1>1, <1>2 DEF Shown
<1> QED
  BY <1>6, <1>7, <1>8, <1>9 DEF ServiceIInv

LEMMA ServiceNextKeeps == ServiceIInv /\ [Next]_vars => ServiceIInv'
<1> SUFFICES ASSUME ServiceIInv, [Next]_vars PROVE ServiceIInv'
  OBVIOUS
<1>1. ServicesTypeOK /\ ServicesTypeOK' /\ Shown
  BY ServicesTypesKept DEF ServiceIInv
<1>2. ASSUME NEW w \in Thread, PostSetting(w) \/ PostKill(w) \/ Kill(w)
      PROVE  ServiceIInv'
  <2>1. UNCHANGED layers /\ UNCHANGED <<unset, told>> /\ Shown'
    BY <1>1, <1>2 DEF PostSetting, PostKill, Kill, layers, mixer, hooks, Shown
  <2>2. \A v \in Thread :
          \/ pc'[v] = pc[v] /\ serving'[v] = serving[v] /\ arg'[v] = arg[v]
          \/ ~Inside(v) /\ pc'[v] \in {"idle", "enter", "kill"}
    BY <1>1, <1>2
       DEF PostSetting, PostKill, Kill, Post, Goto, ServicesTypeOK, Inside
  <2> QED
    BY <1>1, <2>1, <2>2, OutsideKeeps
<1>3. ASSUME UNCHANGED web, UNCHANGED layers, UNCHANGED told, Shown'
      PROVE  ServiceIInv'
  BY <1>1, <1>3, OutsideKeeps DEF web
<1>4. ASSUME NEW s \in Service, Hooks(s) PROVE ServiceIInv'
  BY <1>1, <1>3, <1>4 DEF Hooks, TakeTask, EndTask, layers, mixer, Shown
<1>5. CASE Blend
  BY <1>3, <1>5 DEF Blend, layers, hooks, Shown
<1>6. ASSUME NEW c \in Connection, Handler(c) PROVE ServiceIInv'
  BY <1>1, <1>3, <1>6
     DEF Handler, channelConnected, channelClosed, exceptionCaught, layers, mixer,
         hooks, Shown
<1>7. CASE UNCHANGED vars
  BY <1>1, <1>3, <1>7 DEF vars, layers, mixer, hooks, Shown
<1> QED
  BY <1>1, <1>2, <1>4, <1>5, <1>6, <1>7, EnterKeeps, SetLedKeeps, StrobeKeeps,
     SetFieldKeeps, NotifyKeeps
     DEF Next, Serve

(* Whatever the requests and however their threads interleave: a service at
   rest answers with the setting that its overlay holds for every LED, the
   LEDs show unless a run of the mixer is due, and the webhooks were told. *)
THEOREM ServicesSettle == Spec => []SettledAlike
<1>1. ServiceIInv => SettledAlike
  <2> SUFFICES ASSUME ServiceIInv, NEW s \in Service,
                      \A w \in Thread : serving[w] = s =>
                                          pc[w] \in {"idle", "enter", "kill"}
               PROVE  /\ front[s] = [led \in Led |-> value[s]]
                      /\ told[s] = value[s]
                      /\ requested \/ shown[s] = front[s]
    BY DEF SettledAlike
  <2>1. ASSUME holder[s] # NOBODY PROVE FALSE
    <3>1. /\ holder[s] \in Thread /\ serving[holder[s]] = s
          /\ pc[holder[s]] \in {"set", "field", "notify"}
      BY <2>1 DEF ServiceIInv, MonitorHeld, ServicesTypeOK, Inside
    <3>2. pc[holder[s]] \in {"idle", "enter", "kill"}
      BY <3>1
    <3> QED
      BY <3>1, <3>2
  <2> QED
    BY <2>1 DEF ServiceIInv, Rest, Shown, Everywhere
<1> QED
  BY <1>1, InitRest, ServiceNextKeeps, PTL DEF Spec

-----------------------------------------------------------------------------
(* The list of connections *)

LEMMA InitListed == Init => ListIInv
<1> SUFFICES ASSUME Init PROVE ListIInv
  OBVIOUS
<1>1. ServicesTypeOK
  BY InitTypes
<1>2. ClientsKnown /\ ListedIsServed
  BY DEF Init, ClientsKnown, ListedIsServed
<1> QED
  BY <1>1, <1>2 DEF ListIInv

(* What a step may do to one connection, of which the list and the clients'
   states make sense again afterwards *)
LEMMA OneConnection ==
  ASSUME ListIInv, NEW c \in Connection,
         channel' \in [Connection -> States], local' \in [Connection -> BOOLEAN],
         \A d \in Connection : d # c =>
           /\ channel'[d] = channel[d] /\ local'[d] = local[d]
           /\ d \in status' <=> d \in status
           /\ d \in overtaken' <=> d \in overtaken,
         status' \subseteq Connection, overtaken' \subseteq Connection,
         c \in status' <=> channel'[c] \in {"open", "closing"} \/ c \in overtaken',
         channel'[c] = "open" => local'[c],
         local'[c] => channel'[c] \in {"open", "closing"} /\ c \notin overtaken',
         channel'[c] = "closing" /\ ~local'[c] => c \in overtaken',
         c \in overtaken' => channel'[c] \in {"closing", "closed"}
  PROVE  ClientsKnown' /\ ListedIsServed'
<1>1. ClientsKnown /\ ListedIsServed
  BY DEF ListIInv
<1>2. \A d \in Connection :
        d \in status' <=> channel'[d] \in {"open", "closing"} \/ d \in overtaken'
  BY <1>1 DEF ListedIsServed
<1>3. ListedIsServed'
  BY <1>2 DEF ListedIsServed
<1>4. ClientsKnown'
  BY <1>1 DEF ClientsKnown
<1> QED
  BY <1>3, <1>4

LEMMA ListNextKeeps == ListIInv /\ [Next]_vars => ListIInv'
<1> SUFFICES ASSUME ListIInv, [Next]_vars PROVE ListIInv'
  OBVIOUS
<1>1. ServicesTypeOK /\ ServicesTypeOK' /\ ClientsKnown /\ ListedIsServed
  BY ServicesTypesKept DEF ListIInv
<1>2. /\ channel' \in [Connection -> States] /\ local' \in [Connection -> BOOLEAN]
      /\ status' \subseteq Connection /\ overtaken' \subseteq Connection
      /\ overtaken \subseteq Connection
  BY <1>1 DEF ServicesTypeOK
<1>3. ASSUME NEW c \in Connection, channelConnected(c)
      PROVE  ClientsKnown' /\ ListedIsServed'
  <2>1. /\ channel'[c] = "open" /\ local'[c] = TRUE /\ c \in status'
        /\ c \notin overtaken'
        /\ \A d \in Connection : d # c =>
             /\ channel'[d] = channel[d] /\ local'[d] = local[d]
             /\ d \in status' <=> d \in status
             /\ d \in overtaken' <=> d \in overtaken
    BY <1>1, <1>3 DEF channelConnected, ServicesTypeOK, ClientsKnown
  <2> QED
    BY <1>2, <2>1, OneConnection
<1>4. ASSUME NEW c \in Connection, channelClosed(c)
      PROVE  ClientsKnown' /\ ListedIsServed'
  <2>1. /\ channel'[c] = "closed" /\ ~local'[c]
        /\ c \in status' <=> c \in overtaken'
        /\ \A d \in Connection : d # c =>
             /\ channel'[d] = channel[d] /\ local'[d] = local[d]
             /\ d \in status' <=> d \in status
             /\ d \in overtaken' <=> d \in overtaken
    <3>1. local[c] => c \notin overtaken
      BY <1>1 DEF ClientsKnown
    <3>2. ~local[c] => c \in overtaken /\ c \in status
      BY <1>1, <1>4 DEF ClientsKnown, ListedIsServed, channelClosed
    <3> QED
      BY <1>1, <1>4, <3>1, <3>2 DEF channelClosed, ServicesTypeOK
  <2> QED
    BY <1>2, <2>1, OneConnection
<1>5. ASSUME NEW c \in Connection, exceptionCaught(c)
      PROVE  ClientsKnown' /\ ListedIsServed'
  <2>1. /\ local[c] /\ c \notin overtaken /\ c \in status
        /\ channel[c] \in {"open", "closing"}
    BY <1>1, <1>5 DEF ClientsKnown, ListedIsServed, exceptionCaught
  <2>2. /\ channel'[c] = IF channel[c] = "open" THEN "closed" ELSE "closing"
        /\ ~local'[c]
        /\ c \in status' <=> channel[c] = "closing"
        /\ c \in overtaken' <=> channel[c] = "closing"
        /\ \A d \in Connection : d # c =>
             /\ channel'[d] = channel[d] /\ local'[d] = local[d]
             /\ d \in status' <=> d \in status
             /\ d \in overtaken' <=> d \in overtaken
    BY <1>1, <1>5, <2>1 DEF exceptionCaught, ServicesTypeOK
  <2> QED
    BY <1>2, <2>1, <2>2, OneConnection
<1>6. ASSUME NEW w \in Thread, Kill(w)
      PROVE  ClientsKnown' /\ ListedIsServed'
  <2>1. /\ local' = local /\ status' = status /\ overtaken' = overtaken
        /\ \/ channel' = channel
           \/ \E c \in Connection :
                channel[c] = "open" /\ channel' = [channel EXCEPT ![c] = "closing"]
    <3>1. CASE victim[w] \in Connection
      BY <1>6, <3>1 DEF Kill
    <3>2. CASE channel[victim[w]] # "open"
      BY <1>6, <3>2 DEF Kill
    <3>3. CASE victim[w] \notin Connection /\ channel[victim[w]] = "open"
      <4>1. [channel EXCEPT ![victim[w]] = "closing"] = channel
        BY <1>1, <3>3 DEF ServicesTypeOK
      <4> QED
        BY <1>6, <4>1 DEF Kill
    <3> QED
      BY <3>1, <3>2, <3>3
  <2>2. CASE channel' = channel
    BY <1>1, <2>1, <2>2 DEF ClientsKnown, ListedIsServed
  <2>3. ASSUME NEW c \in Connection, channel[c] = "open",
               channel' = [channel EXCEPT ![c] = "closing"]
        PROVE  ClientsKnown' /\ ListedIsServed'
    <3>1. /\ channel'[c] = "closing" /\ local'[c] /\ c \in status'
          /\ c \notin overtaken'
          /\ \A d \in Connection : d # c => channel'[d] = channel[d]
      BY <1>1, <2>1, <2>3 DEF ServicesTypeOK, ClientsKnown, ListedIsServed
    <3> QED
      BY <1>2, <2>1, <3>1, OneConnection
  <2> QED
    BY <2>1, <2>2, <2>3
<1>7. ASSUME UNCHANGED server
      PROVE  ClientsKnown' /\ ListedIsServed'
  BY <1>1, <1>7 DEF server, ClientsKnown, ListedIsServed
<1>8. ClientsKnown' /\ ListedIsServed'
  BY <1>3, <1>4, <1>5, <1>6, <1>7
     DEF Next, Serve, Handler, PostSetting, PostKill, Enter, SetLed, Strobe,
         SetField, Notify, Hooks, TakeTask, EndTask, Blend, vars
<1> QED
  BY <1>1, <1>8 DEF ListIInv

(* The list of clients holds the connections that are served, and no other, but
   for those whose error overtook a kill, whatever closes them and in whatever
   order the handlers of a channel and the web server's threads run. *)
THEOREM ListIsRight == Spec => []ListedIsServed
<1>1. ListIInv => ListedIsServed
  BY DEF ListIInv
<1> QED
  BY <1>1, InitListed, ListNextKeeps, PTL DEF Spec

(* Types *)
THEOREM ServicesTypeCorrect == Spec => []ServicesTypeOK
BY InitTypes, ServicesTypesKept, PTL DEF Spec

=============================================================================
