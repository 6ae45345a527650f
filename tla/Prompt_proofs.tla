----------------------------- MODULE Prompt_proofs -----------------------------
(***************************************************************************)
(* Proofs about the configuration of a LED board and its console.          *)
(*                                                                         *)
(* About ConfigStore, for pages and configurations of every size and       *)
(* whatever is entered: at most one entry of the page is in use, a reset   *)
(* finds a configuration that was written to its end, what was saved stays *)
(* saved, and a save fails only when one was disturbed before.  These      *)
(* invariants are shown for StoreNext, in which the user enters any        *)
(* configuration at all; the steps of Next are steps of it, and so are     *)
(* those of Prompt.  Of the constants they use ConfigStoreAssumption only. *)
(*                                                                         *)
(* About Prompt, for any number of LEDs and any page: whatever is typed or *)
(* pasted at the console, the page keeps these promises, and a board that  *)
(* runs normally has a channel of its own for every LED colour.            *)
(*                                                                         *)
(* About LineInput, for a buffer of any size and any lines: the command    *)
(* that is run, or the number that is taken, is the one the screen shows.  *)
(* Of the constants this uses LineInputAssumption only.                    *)
(***************************************************************************)
EXTENDS
  Prompt, LineInput, WellFoundedInduction, FiniteSetTheorems, SequenceTheorems, TLAPS

-----------------------------------------------------------------------------
(* The smallest and the largest number of a set *)

(* The order of the naturals, as the library's theorem has it *)
LEMMA LessThan ==
  ASSUME NEW m \in Nat, NEW n \in Nat, m < n
  PROVE  <<m, n>> \in OpToRel(<, Nat)
<1>1. <<m, n>> \in Nat \X Nat
  OBVIOUS
<1>2. <<m, n>>[1] < <<m, n>>[2]
  OBVIOUS
<1> QED
  BY <1>1, <1>2, Zenon DEF OpToRel

(* A set of naturals that has an element has a smallest one: Min. *)
LEMMA MinIsLeast ==
  ASSUME NEW S \in SUBSET Nat, S # {}
  PROVE  Min(S) \in S /\ \A n \in S : Min(S) <= n
<1>1. PICK m \in S : \A n \in S : <<n, m>> \notin OpToRel(<, Nat)
  BY NatLessThanWellFounded, WFMin, Zenon
<1>2. \A n \in S : ~ n < m
  BY <1>1, LessThan, Zenon
<1>3. \A n \in S : m <= n
  BY <1>2
<1> QED
  BY <1>3 DEF Min

(* The largest number of a set of one *)
LEMMA MaxOfOne ==
  ASSUME NEW n \in Nat
  PROVE  Max({n}) = n
BY DEF Max

-----------------------------------------------------------------------------
(* Where things are in the page *)

LEMMA StatusInPage ==
  ASSUME NEW slot \in Slot
  PROVE  StatusWord(slot) \in Page /\ StatusWord(slot) < ENTRY_COUNT
<1>1. 0 <= ENTRY_COUNT * ENTRY_LENGTH
  BY ConfigStoreAssumption
<1>2. ENTRY_COUNT * (1 + ENTRY_LENGTH) = ENTRY_COUNT + ENTRY_COUNT * ENTRY_LENGTH
  BY ConfigStoreAssumption
<1> QED
  BY <1>1, <1>2, ConfigStoreAssumption DEF StatusWord, Slot, Page

LEMMA EntryInPage ==
  ASSUME NEW slot \in Slot, NEW f \in Field
  PROVE  EntryWord(slot, f) \in Page /\ EntryWord(slot, f) >= ENTRY_COUNT
<1>1. 0 <= slot * ENTRY_LENGTH /\ slot * ENTRY_LENGTH \in Int
  BY ConfigStoreAssumption DEF Slot
<1>2. slot * ENTRY_LENGTH + ENTRY_LENGTH <= ENTRY_COUNT * ENTRY_LENGTH
  <2>1. 0 <= (ENTRY_COUNT - 1 - slot) * ENTRY_LENGTH
    BY ConfigStoreAssumption DEF Slot
  <2> QED
    BY <2>1, ConfigStoreAssumption DEF Slot
<1>3. ENTRY_COUNT * (1 + ENTRY_LENGTH) = ENTRY_COUNT + ENTRY_COUNT * ENTRY_LENGTH
  BY ConfigStoreAssumption
<1> QED
  BY <1>1, <1>2, <1>3, ConfigStoreAssumption DEF EntryWord, Field, Page

(* No two entries share a halfword. *)
LEMMA EntriesApart ==
  ASSUME NEW s \in Slot, NEW t \in Slot, NEW f \in Field, NEW g \in Field,
         EntryWord(s, f) = EntryWord(t, g)
  PROVE  s = t /\ f = g
<1>1. ASSUME NEW a \in Slot, NEW b \in Slot, a < b
      PROVE  a * ENTRY_LENGTH + ENTRY_LENGTH <= b * ENTRY_LENGTH
  <2>1. 0 <= (b - 1 - a) * ENTRY_LENGTH
    BY <1>1, ConfigStoreAssumption DEF Slot
  <2> QED
    BY <2>1, ConfigStoreAssumption DEF Slot
<1>2. s * ENTRY_LENGTH \in Int /\ t * ENTRY_LENGTH \in Int
  BY ConfigStoreAssumption DEF Slot
<1>3. ~ s < t /\ ~ t < s
  BY <1>1, <1>2, ConfigStoreAssumption DEF EntryWord, Field, Slot
<1>4. s = t
  BY <1>3 DEF Slot
<1> QED
  BY <1>4, <1>2, ConfigStoreAssumption DEF EntryWord, Field, Slot

(* Where MarkOld writes when there was no entry in use *)
LEMMA NoSlotIsFirstEntry ==
  StatusWord(NO_SLOT) = EntryWord(0, 0) /\ 0 \in Slot /\ 0 \in Field
BY ConfigStoreAssumption DEF StatusWord, EntryWord, NO_SLOT, Slot, Field

LEMMA NoConfig == NO_CONFIG \notin Config
<1>1. 0 \in Field
  BY NoSlotIsFirstEntry
<1>2. DOMAIN NO_CONFIG = {}
  BY DEF NO_CONFIG
<1> QED
  BY <1>1, <1>2 DEF Config

-----------------------------------------------------------------------------
(* The invariant *)

InUse == SlotsOf(page, IN_USE)

(* What save_config's search found still holds.  Between MarkOld and MarkInUse
   there is no entry in use. *)
SearchHolds ==
  /\ pc \in {"running", "erase"} => \A s, t \in InUse : s = t
  /\ pc \in {"copy", "mark_old"} =>
       /\ unused \in Slot /\ page[StatusWord(unused)] = EMPTY
       /\ InUse = {last_in_use} \ {NO_SLOT}
  /\ pc = "mark_in_use" =>
       /\ unused \in Slot /\ page[StatusWord(unused)] = EMPTY
       /\ InUse = {}

(* What flash_copy has copied is the configuration, until MarkOld has set the
   first halfword to 0 or has not. *)
CopyIsFaithful ==
  /\ pc = "copy" =>
       \A f \in Field : f < copied => page[EntryWord(unused, f)] = config[f]
  /\ pc = "mark_old" => \A f \in Field : page[EntryWord(unused, f)] = config[f]
  /\ pc = "mark_in_use" =>
       \A f \in Field : page[EntryWord(unused, f)] \in
                          {config[f]} \cup (IF f = 0 THEN {0} ELSE {})

NothingSavedYet == pc # "running" => saved = NO_CONFIG

SavedIsInUse ==
  saved # NO_CONFIG => \E slot \in InUse : SameButAddress(Entry(slot), saved)

(* Words of the unused entry that may have been written already *)
Begun(f) == pc \in {"mark_old", "mark_in_use"} \/ (pc = "copy" /\ f < copied)

(* Without a disturbance every write finds the flash erased; the one that does
   not, MarkOld's on the first save, goes to the entry just copied, and is
   a 0. *)
FlashIsFresh ==
  ~disturbed =>
  /\ ~pgerr /\ error = "E_SUCCESS"
  /\ \A slot \in SlotsOf(page, EMPTY), f \in Field :
       page[EntryWord(slot, f)] = ERASED \/ (slot = unused /\ Begun(f))
  /\ pc = "running" /\ InUse = {} => SlotsOf(page, EMPTY) = Slot
  /\ pc \in {"copy", "mark_old"} /\ last_in_use = NO_SLOT => unused = 0

IInv ==
  /\ TypeOK
  /\ SearchHolds
  /\ CopyIsFaithful
  /\ NothingSavedYet
  /\ SavedIsInUse
  /\ FlashIsFresh

(* The user enters any configuration. *)
AnyEdit == \E c \in Config : Edit(c)

StoreNext == Save \/ SaveStep \/ FlashFails \/ AnyEdit \/ Reload \/ Reset

LEMMA NextIsStoreNext == Next => StoreNext
BY ConfigStoreAssumption DEF Next, StoreNext, AnyEdit

-----------------------------------------------------------------------------
(* What the operations return and change *)

LEMMA Constants ==
  /\ ERASED \in Halfword /\ IN_USE \in Halfword /\ OLD \in Halfword
  /\ EMPTY = ERASED /\ EMPTY # IN_USE /\ OLD # IN_USE /\ OLD # EMPTY /\ OLD = 0
  /\ NO_SLOT \notin Slot /\ Slot \subseteq Nat
BY ConfigStoreAssumption
   DEF ERASED, Halfword, IN_USE, OLD, EMPTY, NO_SLOT, Slot

(* A write changes one halfword at most, and sets it if it succeeds; if the
   halfword was erased, or is set to 0, it succeeds but for an old PGERR. *)
LEMMA WriteEffect ==
  ASSUME TypeOK, NEW p \in Page, NEW value \in Halfword, Write(p, value)
  PROVE  /\ page' \in [Page -> Halfword]
         /\ pgerr' \in BOOLEAN
         /\ \A q \in Page : q # p => page'[q] = page[q]
         /\ page'[p] \in {page[p], value}
         /\ Programmable(p, value) => page'[p] = value /\ pgerr' = pgerr
         /\ Written(p, value) => Programmable(p, value)
         /\ ~pgerr /\ Programmable(p, value) => Written(p, value)
BY DEF TypeOK, Write, Programmable, Written

(* The entry that is loaded *)
LEMMA LoadedIsInUse ==
  ASSUME NEW otherwise
  PROVE  /\ InUse = {} => Loaded(otherwise) = otherwise
         /\ InUse # {} => \E slot \in InUse : Loaded(otherwise) = Entry(slot)
<1>1. InUse \in SUBSET Nat
  BY Constants DEF InUse, SlotsOf
<1> QED
  BY <1>1, MinIsLeast DEF Loaded, InUse

(* and the one loaded after a step *)
LEMMA LoadedNext ==
  ASSUME NEW otherwise
  PROVE  /\ InUse' = {} => Loaded(otherwise)' = otherwise
         /\ InUse' # {} => \E slot \in InUse' : Loaded(otherwise)' = Entry(slot)'
<1>1. InUse' \in SUBSET Nat
  BY Constants DEF InUse, SlotsOf
<1> QED
  BY <1>1, MinIsLeast DEF Loaded, InUse, Entry

LEMMA EntryType ==
  ASSUME TypeOK, NEW slot \in Slot
  PROVE  /\ Entry(slot) \in Config
         /\ \A f \in Field : Entry(slot)[f] = page[EntryWord(slot, f)]
BY EntryInPage DEF TypeOK, Entry, Config

LEMMA LoadedType ==
  ASSUME TypeOK, NEW otherwise \in Config
  PROVE  Loaded(otherwise) \in Config
BY LoadedIsInUse, EntryType DEF InUse, SlotsOf

(* If one entry at most is in use the search finds it. *)
LEMMA ScanFinds ==
  ASSUME NEW pg \in [Page -> Halfword], Scan(pg),
         \A s, t \in SlotsOf(pg, IN_USE) : s = t
  PROVE  /\ SlotsOf(pg, IN_USE) = {last_in_use'} \ {NO_SLOT}
         /\ last_in_use' \in Slot \cup {NO_SLOT}
         /\ unused' \in Slot \cup {NO_SLOT}
         /\ copied' = 0
         /\ \/ pc' = "erase" /\ SlotsOf(pg, EMPTY) = {}
            \/ /\ pc' = "copy"
               /\ unused' \in SlotsOf(pg, EMPTY)
               /\ \A slot \in SlotsOf(pg, EMPTY) : unused' <= slot
<1>1. SlotsOf(pg, EMPTY) \in SUBSET Nat /\ SlotsOf(pg, EMPTY) \subseteq Slot
  BY Constants DEF SlotsOf
<1>2. /\ SlotsOf(pg, IN_USE) = {last_in_use'} \ {NO_SLOT}
      /\ last_in_use' \in Slot \cup {NO_SLOT}
  <2>1. CASE SlotsOf(pg, IN_USE) = {}
    BY <2>1 DEF Scan
  <2>2. CASE SlotsOf(pg, IN_USE) # {}
    <3>1. PICK slot \in SlotsOf(pg, IN_USE) : SlotsOf(pg, IN_USE) = {slot}
      BY <2>2
    <3>2. slot \in Nat /\ slot \in Slot /\ slot # NO_SLOT
      BY Constants DEF SlotsOf
    <3>3. last_in_use' = Max({slot})
      BY <3>1, <2>2 DEF Scan
    <3> QED
      BY <3>1, <3>2, <3>3, MaxOfOne
  <2> QED
    BY <2>1, <2>2
<1>3. CASE SlotsOf(pg, EMPTY) = {}
  BY <1>2, <1>3 DEF Scan
<1>4. CASE SlotsOf(pg, EMPTY) # {}
  BY <1>1, <1>2, <1>4, MinIsLeast DEF Scan
<1> QED
  BY <1>3, <1>4

(* A write to an entry leaves every status word and the other entries alone. *)
LEMMA EntryWritten ==
  ASSUME TypeOK, NEW slot \in Slot, NEW f \in Field,
         page' \in [Page -> Halfword],
         \A q \in Page : q # EntryWord(slot, f) => page'[q] = page[q]
  PROVE  /\ \A status : SlotsOf(page', status) = SlotsOf(page, status)
         /\ \A s \in Slot, g \in Field :
              s # slot \/ g # f => page'[EntryWord(s, g)] = page[EntryWord(s, g)]
         /\ \A s \in Slot : s # slot => Entry(s)' = Entry(s)
<1>1. \A s \in Slot : page'[StatusWord(s)] = page[StatusWord(s)]
  BY StatusInPage, EntryInPage, ConfigStoreAssumption DEF StatusWord, Slot
<1>2. \A s \in Slot, g \in Field :
        s # slot \/ g # f => page'[EntryWord(s, g)] = page[EntryWord(s, g)]
  BY EntriesApart, EntryInPage
<1> QED
  BY <1>1, <1>2 DEF SlotsOf, Entry

(* A write to a status word leaves the other ones and every entry alone. *)
LEMMA StatusWritten ==
  ASSUME TypeOK, NEW slot \in Slot,
         page' \in [Page -> Halfword],
         \A q \in Page : q # StatusWord(slot) => page'[q] = page[q]
  PROVE  /\ \A s \in Slot : s # slot => page'[StatusWord(s)] = page[StatusWord(s)]
         /\ \A s \in Slot, g \in Field :
              page'[EntryWord(s, g)] = page[EntryWord(s, g)]
         /\ \A s \in Slot : Entry(s)' = Entry(s)
<1>1. \A s \in Slot : s # slot => page'[StatusWord(s)] = page[StatusWord(s)]
  BY StatusInPage DEF StatusWord
<1>2. \A s \in Slot, g \in Field :
        page'[EntryWord(s, g)] = page[EntryWord(s, g)]
  BY StatusInPage, EntryInPage, ConfigStoreAssumption DEF StatusWord, Slot
<1> QED
  BY <1>1, <1>2 DEF Entry

-----------------------------------------------------------------------------
(* Every step keeps the invariant. *)

LEMMA InitIInv == Init => IInv
<1> SUFFICES ASSUME Init PROVE IInv
  OBVIOUS
<1>1. TypeOK
  BY ConfigStoreAssumption, Constants, NoSlotIsFirstEntry DEF Init, TypeOK
<1>2. \A slot \in Slot :
        /\ page[StatusWord(slot)] = ERASED
        /\ \A f \in Field : page[EntryWord(slot, f)] = ERASED
  BY StatusInPage, EntryInPage DEF Init
<1>3. InUse = {} /\ SlotsOf(page, EMPTY) = Slot
  BY <1>2, Constants DEF InUse, SlotsOf
<1> QED
  BY <1>1, <1>2, <1>3
     DEF Init, IInv, SearchHolds, CopyIsFaithful, NothingSavedYet, SavedIsInUse,
         FlashIsFresh

LEMMA SaveKeeps ==
  ASSUME IInv, Save
  PROVE  IInv'
<1> USE DEF IInv
<1>1. \A s, t \in SlotsOf(page, IN_USE) : s = t
  BY DEF Save, SearchHolds, InUse
<1>2. page \in [Page -> Halfword] /\ 0 \in Field
  BY NoSlotIsFirstEntry DEF TypeOK
<1>3. /\ page' = page /\ pgerr' = pgerr /\ config' = config /\ error' = error
      /\ disturbed' = disturbed /\ saved' = NO_CONFIG
  BY DEF Save, flash
<1>4. /\ InUse = {last_in_use'} \ {NO_SLOT}
      /\ last_in_use' \in Slot \cup {NO_SLOT}
      /\ unused' \in Slot \cup {NO_SLOT}
      /\ copied' = 0
      /\ \/ pc' = "erase" /\ SlotsOf(page, EMPTY) = {}
         \/ /\ pc' = "copy"
            /\ unused' \in SlotsOf(page, EMPTY)
            /\ \A slot \in SlotsOf(page, EMPTY) : unused' <= slot
  BY <1>1, <1>2, ScanFinds DEF Save, InUse
<1>5. InUse' = InUse
  BY <1>3 DEF InUse, SlotsOf
<1>6. TypeOK'
  BY <1>2, <1>3, <1>4 DEF TypeOK
<1>7. SearchHolds'
  BY <1>1, <1>3, <1>4, <1>5 DEF SearchHolds, SlotsOf, InUse
<1>8. CopyIsFaithful'
  BY <1>3, <1>4, ConfigStoreAssumption DEF CopyIsFaithful, Field
<1>9. NothingSavedYet' /\ SavedIsInUse'
  BY <1>3 DEF NothingSavedYet, SavedIsInUse
<1>10. FlashIsFresh'
  <2> SUFFICES ASSUME ~disturbed PROVE FlashIsFresh'
    BY <1>3 DEF FlashIsFresh
  <2>1. \A slot \in SlotsOf(page, EMPTY), f \in Field : page[EntryWord(slot, f)] = ERASED
    BY DEF FlashIsFresh, Begun, Save
  <2>2. last_in_use' = NO_SLOT => SlotsOf(page, EMPTY) = Slot
    BY <1>4 DEF FlashIsFresh, Save
  <2>3. last_in_use' = NO_SLOT /\ pc' = "copy" => unused' = 0
    BY <2>2, <1>4, NoSlotIsFirstEntry, Constants
  <2> QED
    BY <1>3, <1>4, <2>1, <2>3 DEF FlashIsFresh
<1> QED
  BY <1>6, <1>7, <1>8, <1>9, <1>10

LEMMA EraseKeeps ==
  ASSUME IInv, Erase
  PROVE  IInv'
<1> USE DEF IInv
<1>1. /\ page' = [p \in Page |-> ERASED] /\ pgerr' = pgerr /\ config' = config
      /\ saved' = saved /\ disturbed' = disturbed /\ pc = "erase"
  BY DEF Erase, history
<1>2. \A slot \in Slot :
        /\ page'[StatusWord(slot)] = ERASED
        /\ \A f \in Field : page'[EntryWord(slot, f)] = ERASED
  BY <1>1, StatusInPage, EntryInPage
<1>3. SlotsOf(page', IN_USE) = {} /\ SlotsOf(page', EMPTY) = Slot
  BY <1>2, Constants DEF SlotsOf
<1>4. InUse' = {}
  BY <1>3 DEF InUse, SlotsOf
<1>5. saved' = NO_CONFIG
  BY <1>1 DEF NothingSavedYet
<1>6. page' \in [Page -> Halfword]
  BY <1>1, Constants
<1>7. CASE pgerr
  <2>1. pc' = "running" /\ error' = "E_FLASH_WRITE" /\ UNCHANGED locals /\ disturbed
    BY <1>7 DEF Erase, Return, FlashIsFresh
  <2> QED
    BY <1>1, <1>4, <1>5, <1>6, <2>1
       DEF TypeOK, SearchHolds, CopyIsFaithful, NothingSavedYet, SavedIsInUse,
           FlashIsFresh, locals
<1>8. CASE ~pgerr
  <2>1. Scan(page') /\ error' = error
    BY <1>8 DEF Erase
  <2>2. /\ last_in_use' = NO_SLOT
        /\ unused' \in Slot /\ \A slot \in Slot : unused' <= slot
        /\ copied' = 0 /\ pc' = "copy"
    <3> HIDE DEF IInv
    <3>1. Slot # {}
      BY NoSlotIsFirstEntry
    <3>2. /\ SlotsOf(page', IN_USE) = {last_in_use'} \ {NO_SLOT}
          /\ last_in_use' \in Slot \cup {NO_SLOT}
          /\ unused' \in Slot \cup {NO_SLOT}
          /\ copied' = 0
          /\ \/ pc' = "erase" /\ SlotsOf(page', EMPTY) = {}
             \/ /\ pc' = "copy"
                /\ unused' \in SlotsOf(page', EMPTY)
                /\ \A slot \in SlotsOf(page', EMPTY) : unused' <= slot
      BY <1>3, <1>6, <2>1, ScanFinds
    <3> QED
      BY <1>3, <3>1, <3>2
  <2>3. unused' = 0
    BY <2>2, NoSlotIsFirstEntry, Constants
  <2>4. TypeOK'
    BY <1>1, <1>6, <2>1, <2>2, NoSlotIsFirstEntry DEF TypeOK
  <2>5. SearchHolds'
    BY <1>2, <1>4, <2>2, Constants DEF SearchHolds
  <2>6. CopyIsFaithful'
    BY <2>2, ConfigStoreAssumption DEF CopyIsFaithful, Field
  <2>7. NothingSavedYet' /\ SavedIsInUse'
    BY <1>5 DEF NothingSavedYet, SavedIsInUse
  <2>8. FlashIsFresh'
    BY <1>1, <1>2, <2>1, <2>2, <2>3 DEF FlashIsFresh, SlotsOf
  <2> QED
    BY <2>4, <2>5, <2>6, <2>7, <2>8
<1> QED
  BY <1>7, <1>8

LEMMA CopyKeeps ==
  ASSUME IInv, Copy
  PROVE  IInv'
<1> DEFINE p == EntryWord(unused, copied)
<1>1. /\ TypeOK /\ SearchHolds /\ CopyIsFaithful /\ NothingSavedYet
      /\ SavedIsInUse /\ FlashIsFresh
  BY DEF IInv
<1>2. /\ pc = "copy" /\ config' = config /\ unused' = unused
      /\ last_in_use' = last_in_use /\ saved' = saved /\ disturbed' = disturbed
  BY DEF Copy, history
<1>3. /\ unused \in Slot /\ page[StatusWord(unused)] = EMPTY
      /\ InUse = {last_in_use} \ {NO_SLOT}
      /\ copied \in Field /\ p \in Page /\ config[copied] \in Halfword
  BY <1>1, <1>2, EntryInPage DEF SearchHolds, TypeOK, Config
<1>4. /\ page' \in [Page -> Halfword]
      /\ pgerr' \in BOOLEAN
      /\ \A q \in Page : q # p => page'[q] = page[q]
      /\ Programmable(p, config[copied]) =>
           page'[p] = config[copied] /\ pgerr' = pgerr
      /\ Written(p, config[copied]) => Programmable(p, config[copied])
      /\ ~pgerr /\ Programmable(p, config[copied]) => Written(p, config[copied])
  <2>1. Write(p, config[copied])
    BY DEF Copy
  <2> QED
    BY <1>1, <1>3, <2>1, WriteEffect
<1>5. /\ \A status : SlotsOf(page', status) = SlotsOf(page, status)
      /\ \A s \in Slot, g \in Field : s # unused \/ g # copied =>
           page'[EntryWord(s, g)] = page[EntryWord(s, g)]
  BY <1>1, <1>3, <1>4, EntryWritten
<1>6. InUse' = InUse /\ page'[StatusWord(unused)] = EMPTY
  <2>1. unused \in SlotsOf(page, EMPTY)
    BY <1>3 DEF SlotsOf
  <2>2. unused \in SlotsOf(page', EMPTY)
    BY <1>5, <2>1
  <2> QED
    BY <1>5, <2>2 DEF InUse, SlotsOf
<1>7. saved' = NO_CONFIG
  BY <1>1, <1>2 DEF NothingSavedYet
<1>8. ~disturbed => Written(p, config[copied])
  <2>1. ~disturbed => page[p] = ERASED /\ ~pgerr
    BY <1>1, <1>2, <1>3 DEF FlashIsFresh, SlotsOf, Begun, Field
  <2> QED
    BY <1>4, <2>1 DEF Programmable
<1>9. CASE ~Written(p, config[copied])
  <2>1. pc' = "running" /\ copied' = copied /\ error' = "E_FLASH_WRITE"
    BY <1>9 DEF Copy, Return
  <2>2. \A s, t \in InUse' : s = t
    BY <1>3, <1>6
  <2> QED
    BY <1>1, <1>2, <1>3, <1>4, <1>7, <1>8, <1>9, <2>1, <2>2
       DEF IInv, TypeOK, SearchHolds, CopyIsFaithful, NothingSavedYet,
           SavedIsInUse, FlashIsFresh
<1>10. CASE Written(p, config[copied])
  <2>1. page'[p] = config[copied] /\ pgerr' = pgerr
    BY <1>4, <1>10
  <2>2. /\ error' = error
        /\ \/ pc' = "mark_old" /\ copied' = copied /\ copied = ENTRY_LENGTH - 1
           \/ pc' = "copy" /\ copied' = copied + 1 /\ copied # ENTRY_LENGTH - 1
    BY <1>2, <1>10 DEF Copy
  <2>3. TypeOK'
    BY <1>1, <1>2, <1>3, <1>4, <2>2, ConfigStoreAssumption DEF TypeOK, Field
  <2>4. SearchHolds'
    BY <1>2, <1>3, <1>6, <2>2 DEF SearchHolds
  <2>5. \A f \in Field : f <= copied => page'[EntryWord(unused, f)] = config[f]
    <3> SUFFICES ASSUME NEW f \in Field, f <= copied
                 PROVE  page'[EntryWord(unused, f)] = config[f]
      OBVIOUS
    <3>1. CASE f = copied
      BY <2>1, <3>1
    <3>2. CASE f # copied
      <4>1. f < copied
        BY <3>2, <1>3 DEF Field
      <4> QED
        BY <1>1, <1>2, <1>3, <1>5, <3>2, <4>1 DEF CopyIsFaithful
    <3> QED
      BY <3>1, <3>2
  <2>6. CopyIsFaithful'
    BY <1>2, <1>3, <2>2, <2>5, ConfigStoreAssumption DEF CopyIsFaithful, Field
  <2>7. NothingSavedYet' /\ SavedIsInUse'
    BY <1>7 DEF NothingSavedYet, SavedIsInUse
  <2>8. FlashIsFresh'
    <3> SUFFICES ASSUME ~disturbed PROVE FlashIsFresh'
      BY <1>2 DEF FlashIsFresh
    <3>1. ASSUME NEW slot \in SlotsOf(page', EMPTY), NEW f \in Field
          PROVE  page'[EntryWord(slot, f)] = ERASED \/ (slot = unused' /\ Begun(f)')
      <4>1. slot \in SlotsOf(page, EMPTY) /\ slot \in Slot
        BY <1>5 DEF SlotsOf
      <4>2. CASE slot = unused /\ f <= copied
        BY <1>2, <1>3, <2>2, <4>2 DEF Begun, Field
      <4>3. CASE ~(slot = unused /\ f <= copied)
        <5>1. page[EntryWord(slot, f)] = ERASED
          BY <1>1, <1>2, <1>3, <4>1, <4>3 DEF FlashIsFresh, Begun, Field
        <5> QED
          BY <1>3, <1>5, <4>1, <4>3, <5>1 DEF Field
      <4> QED
        BY <4>2, <4>3
    <3>2. last_in_use' = NO_SLOT => unused' = 0
      BY <1>1, <1>2 DEF FlashIsFresh
    <3> QED
      BY <1>1, <1>2, <2>1, <2>2, <3>1, <3>2 DEF FlashIsFresh
  <2> QED
    BY <2>3, <2>4, <2>6, <2>7, <2>8 DEF IInv
<1> QED
  BY <1>9, <1>10

(* MarkOld leaves no entry in use; it changes an entry only when none was, and
   then the first halfword of the first one. *)
LEMMA MarkOldEffect ==
  ASSUME IInv, MarkOld
  PROVE  /\ page' \in [Page -> Halfword] /\ pgerr' = pgerr
         /\ ~pgerr => Written(StatusWord(last_in_use), OLD)
         /\ InUse' = {} /\ unused \in Slot
         /\ page'[StatusWord(unused)] = EMPTY
         /\ SlotsOf(page', EMPTY) = SlotsOf(page, EMPTY)
         /\ \A s \in Slot, f \in Field :
              \/ page'[EntryWord(s, f)] = page[EntryWord(s, f)]
              \/ /\ last_in_use = NO_SLOT /\ s = 0 /\ f = 0
                 /\ page'[EntryWord(s, f)] = 0
<1> DEFINE p == StatusWord(last_in_use)
<1>1. /\ TypeOK /\ SearchHolds /\ CopyIsFaithful /\ NothingSavedYet
      /\ SavedIsInUse /\ FlashIsFresh
  BY DEF IInv
<1>2. /\ pc = "mark_old" /\ config' = config /\ unused' = unused
      /\ last_in_use' = last_in_use /\ copied' = copied
      /\ saved' = saved /\ disturbed' = disturbed
  BY DEF MarkOld, locals, history
<1>3. /\ unused \in Slot /\ page[StatusWord(unused)] = EMPTY
      /\ InUse = {last_in_use} \ {NO_SLOT}
      /\ p \in Page /\ OLD \in Halfword
  BY <1>1, <1>2, StatusInPage, EntryInPage, NoSlotIsFirstEntry, Constants
     DEF SearchHolds, TypeOK
<1>4. /\ page' \in [Page -> Halfword]
      /\ \A q \in Page : q # p => page'[q] = page[q]
      /\ page'[p] = OLD /\ pgerr' = pgerr
      /\ ~pgerr => Written(p, OLD)
  <2>1. Write(p, OLD) /\ Programmable(p, OLD)
    BY Constants DEF MarkOld, Programmable
  <2> QED
    BY <1>1, <1>3, <2>1, WriteEffect
<1>5. /\ InUse' = {}
      /\ page'[StatusWord(unused)] = EMPTY
      /\ SlotsOf(page', EMPTY) = SlotsOf(page, EMPTY)
      /\ \A s \in Slot, f \in Field :
           \/ page'[EntryWord(s, f)] = page[EntryWord(s, f)]
           \/ /\ last_in_use = NO_SLOT /\ s = 0 /\ f = 0
              /\ page'[EntryWord(s, f)] = 0
  <2>1. CASE last_in_use = NO_SLOT
    <3>1. /\ \A status : SlotsOf(page', status) = SlotsOf(page, status)
          /\ \A s \in Slot, g \in Field : s # 0 \/ g # 0 =>
               page'[EntryWord(s, g)] = page[EntryWord(s, g)]
          /\ page'[EntryWord(0, 0)] = 0
      BY <1>1, <1>4, <2>1, EntryWritten, NoSlotIsFirstEntry, Constants
    <3>2. unused \in SlotsOf(page, EMPTY)
      BY <1>3 DEF SlotsOf
    <3>3. unused \in SlotsOf(page', EMPTY)
      BY <3>1, <3>2
    <3> QED
      BY <1>3, <2>1, <3>1, <3>3 DEF InUse, SlotsOf
  <2>2. CASE last_in_use # NO_SLOT
    <3>1. last_in_use \in Slot /\ page[StatusWord(last_in_use)] = IN_USE
      BY <1>3, <2>2 DEF InUse, SlotsOf
    <3>2. /\ \A s \in Slot : s # last_in_use =>
               page'[StatusWord(s)] = page[StatusWord(s)]
          /\ \A s \in Slot, g \in Field :
               page'[EntryWord(s, g)] = page[EntryWord(s, g)]
      BY <1>1, <1>4, <3>1, StatusWritten
    <3> QED
      BY <1>3, <1>4, <3>1, <3>2, Constants DEF InUse, SlotsOf
  <2> QED
    BY <2>1, <2>2
<1> QED
  BY <1>3, <1>4, <1>5

LEMMA MarkOldKeeps ==
  ASSUME IInv, MarkOld
  PROVE  IInv'
<1> DEFINE p == StatusWord(last_in_use)
<1>1. /\ TypeOK /\ SearchHolds /\ CopyIsFaithful /\ NothingSavedYet
      /\ SavedIsInUse /\ FlashIsFresh
  BY DEF IInv
<1>2. /\ pc = "mark_old" /\ config' = config /\ unused' = unused
      /\ last_in_use' = last_in_use /\ copied' = copied
      /\ saved' = saved /\ disturbed' = disturbed
  BY DEF MarkOld, locals, history
<1>3. /\ page' \in [Page -> Halfword] /\ pgerr' = pgerr
      /\ ~pgerr => Written(p, OLD)
  BY MarkOldEffect
<1>4. /\ InUse' = {} /\ unused \in Slot
      /\ page'[StatusWord(unused)] = EMPTY
      /\ SlotsOf(page', EMPTY) = SlotsOf(page, EMPTY)
      /\ \A s \in Slot, f \in Field :
           \/ page'[EntryWord(s, f)] = page[EntryWord(s, f)]
           \/ /\ last_in_use = NO_SLOT /\ s = 0 /\ f = 0
              /\ page'[EntryWord(s, f)] = 0
  BY MarkOldEffect
<1>5. saved' = NO_CONFIG
  BY <1>1, <1>2 DEF NothingSavedYet
<1>6. CASE ~Written(p, OLD)
  <2>1. pc' = "running" /\ error' = "E_FLASH_WRITE" /\ disturbed
    BY <1>1, <1>3, <1>6 DEF MarkOld, Return, FlashIsFresh
  <2> QED
    BY <1>1, <1>2, <1>3, <1>4, <1>5, <2>1
       DEF IInv, TypeOK, SearchHolds, CopyIsFaithful, NothingSavedYet,
           SavedIsInUse, FlashIsFresh
<1>7. CASE Written(p, OLD)
  <2>1. pc' = "mark_in_use" /\ error' = error
    BY <1>7 DEF MarkOld
  <2>2. TypeOK' /\ SearchHolds' /\ NothingSavedYet' /\ SavedIsInUse'
    BY <1>1, <1>2, <1>3, <1>4, <1>5, <2>1
       DEF TypeOK, SearchHolds, NothingSavedYet, SavedIsInUse
  <2>3. CopyIsFaithful'
    BY <1>1, <1>2, <1>3, <1>4, <2>1 DEF CopyIsFaithful
  <2>4. FlashIsFresh'
    BY <1>1, <1>2, <1>3, <1>4, <2>1, Constants DEF FlashIsFresh, SlotsOf, Begun
  <2> QED
    BY <2>2, <2>3, <2>4 DEF IInv
<1> QED
  BY <1>6, <1>7

(* After MarkInUse the entry just written is the one in use. *)
LEMMA MarkInUseEffect ==
  ASSUME IInv, MarkInUse
  PROVE  /\ page' \in [Page -> Halfword] /\ pgerr' = pgerr
         /\ ~pgerr => Written(StatusWord(unused), IN_USE)
         /\ InUse = {} /\ unused \in Slot /\ InUse' = {unused}
         /\ SlotsOf(page', EMPTY) = SlotsOf(page, EMPTY) \ {unused}
         /\ \A s \in Slot, f \in Field :
              page'[EntryWord(s, f)] = page[EntryWord(s, f)]
         /\ Entry(unused)' = Entry(unused)
         /\ SameButAddress(Entry(unused), config)
<1> DEFINE p == StatusWord(unused)
<1>1. /\ TypeOK /\ SearchHolds /\ CopyIsFaithful /\ NothingSavedYet
      /\ SavedIsInUse /\ FlashIsFresh
  BY DEF IInv
<1>2. /\ pc = "mark_in_use" /\ pc' = "running" /\ config' = config
      /\ unused' = unused /\ last_in_use' = last_in_use /\ copied' = copied
      /\ disturbed' = disturbed
  BY DEF MarkInUse, Return, locals
<1>3. /\ unused \in Slot /\ page[p] = EMPTY /\ InUse = {}
      /\ p \in Page /\ IN_USE \in Halfword
  BY <1>1, <1>2, StatusInPage, Constants DEF SearchHolds
<1>4. /\ page' \in [Page -> Halfword]
      /\ \A q \in Page : q # p => page'[q] = page[q]
      /\ page'[p] = IN_USE /\ pgerr' = pgerr
      /\ ~pgerr => Written(p, IN_USE)
  <2>1. Write(p, IN_USE) /\ Programmable(p, IN_USE)
    BY <1>3, Constants DEF MarkInUse, Programmable
  <2> QED
    BY <1>1, <1>3, <2>1, WriteEffect
<1>5. /\ \A s \in Slot : s # unused => page'[StatusWord(s)] = page[StatusWord(s)]
      /\ \A s \in Slot, g \in Field :
           page'[EntryWord(s, g)] = page[EntryWord(s, g)]
      /\ \A s \in Slot : Entry(s)' = Entry(s)
  BY <1>1, <1>3, <1>4, StatusWritten
<1>6. InUse' = {unused} /\ SlotsOf(page', EMPTY) = SlotsOf(page, EMPTY) \ {unused}
  BY <1>3, <1>4, <1>5, Constants DEF InUse, SlotsOf
<1>7. SameButAddress(Entry(unused), config)
  BY <1>1, <1>2, <1>3, EntryType DEF CopyIsFaithful, SameButAddress
<1>8. Entry(unused)' = Entry(unused)
  BY <1>2, <1>5, <1>3 DEF Entry
<1> QED
  BY <1>3, <1>4, <1>5, <1>6, <1>7, <1>8

LEMMA MarkInUseKeeps ==
  ASSUME IInv, MarkInUse
  PROVE  IInv'
<1>1. /\ TypeOK /\ SearchHolds /\ CopyIsFaithful /\ NothingSavedYet
      /\ SavedIsInUse /\ FlashIsFresh
  BY DEF IInv
<1>2. /\ pc = "mark_in_use" /\ pc' = "running" /\ config' = config
      /\ unused' = unused /\ last_in_use' = last_in_use /\ copied' = copied
      /\ disturbed' = disturbed
  BY DEF MarkInUse, Return, locals
<1>3. /\ page' \in [Page -> Halfword] /\ pgerr' = pgerr
      /\ ~pgerr => Written(StatusWord(unused), IN_USE)
  BY MarkInUseEffect
<1>4. /\ InUse = {} /\ unused \in Slot /\ InUse' = {unused}
      /\ SlotsOf(page', EMPTY) = SlotsOf(page, EMPTY) \ {unused}
      /\ \A s \in Slot, f \in Field :
           page'[EntryWord(s, f)] = page[EntryWord(s, f)]
  BY MarkInUseEffect
<1>5. SameButAddress(Entry(unused)', config)
  BY MarkInUseEffect
<1>6. TypeOK'
  BY <1>1, <1>2, <1>3 DEF TypeOK, MarkInUse, Return
<1>7. SearchHolds' /\ CopyIsFaithful' /\ NothingSavedYet'
  BY <1>2, <1>4 DEF SearchHolds, CopyIsFaithful, NothingSavedYet
<1>8. SavedIsInUse'
  <2>1. saved' \in {config, NO_CONFIG}
    BY <1>1, <1>2 DEF MarkInUse, NothingSavedYet
  <2> QED
    BY <1>2, <1>4, <1>5, <2>1 DEF SavedIsInUse, SameButAddress
<1>9. FlashIsFresh'
  BY <1>1, <1>2, <1>3, <1>4
     DEF FlashIsFresh, MarkInUse, Return, SlotsOf, Begun
<1> QED
  BY <1>6, <1>7, <1>8, <1>9 DEF IInv

(* The page stays as it is and no save goes on. *)
LEMMA RestKeeps ==
  ASSUME IInv, FlashFails \/ AnyEdit \/ Reload \/ Reset
  PROVE  IInv'
<1>1. /\ TypeOK /\ SearchHolds /\ CopyIsFaithful /\ NothingSavedYet
      /\ SavedIsInUse /\ FlashIsFresh
  BY DEF IInv
<1>2. page' = page /\ UNCHANGED locals /\ saved' = saved /\ pc' = "running"
  BY DEF FlashFails, Return, AnyEdit, Edit, Reload, Reset, flash, history
<1>3. InUse' = InUse /\ \A s \in Slot : Entry(s)' = Entry(s)
  BY <1>2 DEF InUse, SlotsOf, Entry
<1>4. config' \in Config
  BY <1>1, LoadedType, ConfigStoreAssumption
     DEF FlashFails, AnyEdit, Edit, Reload, Reset, TypeOK
<1>5. TypeOK'
  BY <1>1, <1>2, <1>4
     DEF FlashFails, Return, AnyEdit, Edit, Reload, Reset, flash, history,
         locals, TypeOK
<1>6. SearchHolds'
  BY <1>1, <1>2, <1>3, Constants DEF SearchHolds, TypeOK
<1>7. CopyIsFaithful' /\ NothingSavedYet'
  BY <1>2 DEF CopyIsFaithful, NothingSavedYet
<1>8. SavedIsInUse'
  BY <1>1, <1>2, <1>3 DEF SavedIsInUse, SameButAddress, InUse, SlotsOf
<1>9. FlashIsFresh'
  <2> SUFFICES ASSUME ~disturbed' PROVE FlashIsFresh'
    BY DEF FlashIsFresh
  <2>1. /\ ~disturbed /\ pc = "running"
        /\ pgerr' \in {pgerr, FALSE} /\ error' \in {error, "E_SUCCESS"}
    <3>1. disturbed \in BOOLEAN
      BY <1>1 DEF TypeOK
    <3>2. CASE FlashFails
      BY <3>2 DEF FlashFails
    <3>3. CASE AnyEdit \/ Reload
      <4>1. /\ pc = "running" /\ disturbed' = disturbed
            /\ pgerr' = pgerr /\ error' = error
        BY <3>3 DEF AnyEdit, Edit, Reload, flash, history
      <4> QED
        BY <4>1
    <3>4. CASE Reset
      BY <3>1, <3>4 DEF Reset
    <3> QED
      BY <3>2, <3>3, <3>4
  <2> QED
    BY <1>1, <1>2, <1>3, <2>1 DEF FlashIsFresh, Begun
<1> QED
  BY <1>5, <1>6, <1>7, <1>8, <1>9 DEF IInv

LEMMA NextKeeps ==
  ASSUME IInv, StoreNext \/ UNCHANGED vars
  PROVE  IInv'
<1>1. CASE UNCHANGED vars
  BY <1>1
     DEF vars, flash, locals, history, IInv, TypeOK, SearchHolds,
         CopyIsFaithful, NothingSavedYet, SavedIsInUse, FlashIsFresh, InUse,
         SlotsOf, Entry, Begun
<1> QED
  BY <1>1, SaveKeeps, EraseKeeps, CopyKeeps, MarkOldKeeps, MarkInUseKeeps,
     RestKeeps
     DEF StoreNext, SaveStep

-----------------------------------------------------------------------------
(* What the invariant says, and what a step does to it *)

LEMMA InvariantImplies ==
  ASSUME IInv
  PROVE  OneInUse /\ SaveIsDurable /\ FailsOnlyDisturbed
<1>1. OneInUse
  <2>1. \A s, t \in InUse : s = t
    BY Constants DEF IInv, SearchHolds, TypeOK
  <2>2. CASE InUse = {}
    <3>1. Cardinality(InUse) = 0
      BY <2>2, FS_EmptySet
    <3> QED
      BY <3>1 DEF OneInUse, InUse
  <2>3. CASE InUse # {}
    <3>1. PICK slot : InUse = {slot}
      BY <2>1, <2>3
    <3>2. Cardinality(InUse) = 1
      BY <3>1, FS_Singleton
    <3> QED
      BY <3>2 DEF OneInUse, InUse
  <2> QED
    BY <2>2, <2>3
<1>2. SaveIsDurable
  <2> SUFFICES ASSUME saved # NO_CONFIG
               PROVE  InUse # {} /\ SameButAddress(Loaded(saved), saved)
    BY DEF SaveIsDurable, InUse
  <2>1. PICK slot \in InUse : SameButAddress(Entry(slot), saved)
    BY DEF IInv, SavedIsInUse
  <2>2. \A s, t \in InUse : s = t
    BY Constants DEF IInv, SearchHolds, TypeOK
  <2>3. Loaded(saved) = Entry(slot)
    BY <2>2, LoadedIsInUse
  <2> QED
    BY <2>1, <2>3
<1>3. FailsOnlyDisturbed
  BY DEF IInv, FlashIsFresh, FailsOnlyDisturbed
<1> QED
  BY <1>1, <1>2, <1>3

(* A step leaves the entries in use as they are or takes them out of use, unless
   it is the last one of a save. *)
LEMMA EntriesInUse ==
  ASSUME IInv, StoreNext \/ UNCHANGED vars, ~MarkInUse
  PROVE  InUse' \subseteq InUse /\ \A slot \in InUse' : Entry(slot)' = Entry(slot)
<1>1. TypeOK /\ SearchHolds
  BY DEF IInv
<1>2. CASE UNCHANGED page
  BY <1>2 DEF InUse, SlotsOf, Entry
<1>3. CASE Erase
  <2>1. \A slot \in Slot : page'[StatusWord(slot)] = ERASED
    BY <1>3, StatusInPage DEF Erase
  <2> QED
    BY <2>1, Constants DEF InUse, SlotsOf
<1>4. CASE Copy
  <2>1. /\ unused \in Slot /\ page[StatusWord(unused)] = EMPTY
        /\ InUse = {last_in_use} \ {NO_SLOT}
        /\ copied \in Field /\ EntryWord(unused, copied) \in Page
        /\ config[copied] \in Halfword
    BY <1>1, <1>4, EntryInPage DEF Copy, SearchHolds, TypeOK, Config
  <2>2. /\ page' \in [Page -> Halfword]
        /\ \A q \in Page : q # EntryWord(unused, copied) => page'[q] = page[q]
    BY <1>1, <1>4, <2>1, WriteEffect DEF Copy
  <2>3. /\ \A status : SlotsOf(page', status) = SlotsOf(page, status)
        /\ \A s \in Slot : s # unused => Entry(s)' = Entry(s)
    BY <1>1, <2>1, <2>2, EntryWritten
  <2> QED
    BY <2>1, <2>3, Constants DEF InUse, SlotsOf
<1>5. CASE MarkOld
  BY <1>5, MarkOldEffect
<1> QED
  BY <1>2, <1>3, <1>4, <1>5
     DEF StoreNext, SaveStep, Save, FlashFails, AnyEdit, Edit, Reload, Reset,
         flash, vars

(* One step of AtomicSave *)
LEMMA StepIsAtomic ==
  ASSUME IInv, StoreNext \/ UNCHANGED vars
  PROVE  LET old == Loaded(NO_CONFIG) new == Loaded(NO_CONFIG)'
         IN  new \in {old, NO_CONFIG} \/ SameButAddress(new, config)
<1> DEFINE old == Loaded(NO_CONFIG)
           new == Loaded(NO_CONFIG)'
<1>1. CASE InUse' = {}
  BY <1>1, LoadedNext
<1>2. CASE InUse' # {} /\ ~MarkInUse
  <2>1. PICK t \in InUse' : new = Entry(t)'
    BY <1>2, LoadedNext
  <2>2. t \in InUse /\ Entry(t)' = Entry(t)
    BY <1>2, <2>1, EntriesInUse
  <2>3. PICK s \in InUse : old = Entry(s)
    BY <2>2, LoadedIsInUse
  <2>4. \A r \in InUse : r = s
    BY <2>3, Constants DEF IInv, SearchHolds, TypeOK
  <2> QED
    BY <2>1, <2>2, <2>3, <2>4
<1>3. CASE MarkInUse
  <2>1. /\ InUse' = {unused} /\ Entry(unused)' = Entry(unused)
        /\ SameButAddress(Entry(unused), config) /\ unused' = unused
    BY <1>3, MarkInUseEffect DEF MarkInUse, locals
  <2>2. PICK s \in InUse' : new = Entry(s)'
    BY <2>1, LoadedNext
  <2> QED
    BY <2>1, <2>2
<1> QED
  BY <1>1, <1>2, <1>3

-----------------------------------------------------------------------------

(* The page, what save_config remembers and what it returned keep their
   types. *)
THEOREM StoreTypeOK == Spec => []TypeOK
<1>1. IInv /\ [Next]_vars => IInv'
  BY NextKeeps, NextIsStoreNext
<1> QED
  BY <1>1, InitIInv, PTL DEF Spec, IInv

LEMMA Invariance == Spec => []IInv
<1>1. IInv /\ [Next]_vars => IInv'
  BY NextKeeps, NextIsStoreNext
<1> QED
  BY <1>1, InitIInv, PTL DEF Spec

(* However often a save is cut short by a reset or fails, there is one entry in
   use at most, as save_config and load_config assume (config.c:195). *)
THEOREM OneEntryInUse == Spec => []OneInUse
BY Invariance, InvariantImplies, PTL

(* A configuration whose save returned success is found again, its address
   aside, whatever resets and failures follow, until the next save is begun. *)
THEOREM SavedIsFound == Spec => []SaveIsDurable
BY Invariance, InvariantImplies, PTL

(* save_config fails only after a write to the flash failed, or a reset cut a
   save short. *)
THEOREM UndisturbedSucceeds == Spec => []FailsOnlyDisturbed
BY Invariance, InvariantImplies, PTL

(* What a reset would load is at all times what it was before, nothing, or the
   configuration being saved. *)
THEOREM StoreAtomic == Spec => AtomicSave
<1>1. IInv /\ [Next]_vars =>
        [LET old == Loaded(NO_CONFIG) new == Loaded(NO_CONFIG)'
         IN  new \in {old, NO_CONFIG} \/ SameButAddress(new, config)]_vars
  BY StepIsAtomic, NextIsStoreNext
<1> QED
  BY <1>1, Invariance, PTL DEF Spec, AtomicSave

-----------------------------------------------------------------------------
(* The console *)

Modes == {"console", "saving", "echo", "normal", "panic"}

PromptTypeOK == TypeOK /\ mode \in Modes /\ pasting \in 0 .. MaxPaste

Channel  == 0 .. MODULE_LENGTH - 1
Assigned == LedChannels \cup {BACKUP_CHANNEL}

(* What config_valid establishes *)
Assigns(c) ==
  /\ \A f, g \in Assigned : f # g => c[f] # c[g]
  /\ \A f \in Assigned : c[f] < MODULE_LENGTH
  /\ c[MY_ADDRESS] <= 253

(* Only configurations that config_valid has seen are saved: every entry in use
   is one, and so is the configuration that is being saved or runs. *)
OnlyValidKept ==
  /\ \A slot \in InUse : Assigns(Entry(slot))
  /\ mode = "saving" \/ pc # "running" \/ mode = "normal" => Assigns(config)
  /\ pc # "running" => mode = "console"

PromptIInv == IInv /\ PromptTypeOK /\ OnlyValidKept

-----------------------------------------------------------------------------
(* The fields of the channels *)

LEMMA InHalfword ==
  ASSUME NEW n \in Int, 0 <= n, n <= 65535
  PROVE  n \in Halfword
<1>1. ERASED \in Int /\ ERASED >= 65535
  BY DEF ERASED
<1> QED
  BY <1>1 DEF Halfword

LEMMA ModuleLength ==
  /\ MODULE_LENGTH \in Halfword /\ MODULE_LENGTH = 3 * RGB_LED_COUNT + 1
  /\ RGB_LED_COUNT \in Nat /\ MODULE_LENGTH \in Nat \ {0}
  /\ Channel \subseteq Halfword /\ Channel \subseteq Nat
<1>1. MODULE_LENGTH \in Halfword /\ RGB_LED_COUNT \in Nat
  BY PromptAssumption
<1>2. MODULE_LENGTH = 3 * RGB_LED_COUNT + 1
  BY DEF MODULE_LENGTH
<1>3. MODULE_LENGTH \in Nat \ {0}
  BY <1>1, <1>2
<1>4. Channel \subseteq Halfword /\ Channel \subseteq Nat
  <2>1. ASSUME NEW i \in Channel PROVE i \in Halfword /\ i \in Nat
    <3>1. ERASED \in Int
      BY DEF ERASED
    <3> QED
      BY <1>1, <1>3, <2>1, <3>1 DEF Channel, Halfword
  <2> QED
    BY <2>1
<1> QED
  BY <1>1, <1>2, <1>3, <1>4

LEMMA LedChannelsInterval == LedChannels = 3 .. 3 * RGB_LED_COUNT + 2
<1>1. ASSUME NEW f \in LedChannels PROVE f \in 3 .. 3 * RGB_LED_COUNT + 2
  <2>1. PICK led \in 0 .. RGB_LED_COUNT - 1 : f \in CHANNELS(led)
    BY <1>1 DEF LedChannels
  <2> QED
    BY <2>1, ModuleLength DEF CHANNELS
<1>2. ASSUME NEW f \in 3 .. 3 * RGB_LED_COUNT + 2 PROVE f \in LedChannels
  <2> DEFINE led == (f - 3) \div 3
             c   == (f - 3) % 3
  <2>1. led \in 0 .. RGB_LED_COUNT - 1 /\ c \in 0 .. 2 /\ f = 3 + 3 * led + c
    BY ModuleLength
  <2>2. f \in CHANNELS(led)
    BY <2>1 DEF CHANNELS
  <2> QED
    BY <2>1, <2>2 DEF LedChannels
<1> QED
  BY <1>1, <1>2

LEMMA ChannelFields ==
  /\ MY_ADDRESS \in Field /\ HEAT_LIMIT \in Field /\ COLOR_MATRIX \in Field
  /\ BACKUP_CHANNEL \in Field /\ BACKUP_CHANNEL \notin LedChannels
  /\ LedChannels \subseteq Field
  /\ Assigned \subseteq Field \ {MY_ADDRESS}
BY LedChannelsInterval, PromptAssumption
   DEF MY_ADDRESS, HEAT_LIMIT, COLOR_MATRIX, BACKUP_CHANNEL, Field, Assigned

(* There are as many channels of LEDs as module channels, less one. *)
LEMMA ChannelCounts ==
  /\ IsFiniteSet(LedChannels) /\ Cardinality(LedChannels) = MODULE_LENGTH - 1
  /\ IsFiniteSet(Channel) /\ Cardinality(Channel) = MODULE_LENGTH
<1>1. IsFiniteSet(3 .. 3 * RGB_LED_COUNT + 2)
      /\ Cardinality(3 .. 3 * RGB_LED_COUNT + 2) = 3 * RGB_LED_COUNT
  BY FS_Interval, ModuleLength
<1>2. IsFiniteSet(0 .. MODULE_LENGTH - 1)
      /\ Cardinality(0 .. MODULE_LENGTH - 1) = MODULE_LENGTH
  BY FS_Interval, ModuleLength
<1> QED
  BY <1>1, <1>2, LedChannelsInterval, ModuleLength DEF Channel

-----------------------------------------------------------------------------
(* config_valid *)

(* The backup channel is the smallest that is left. *)
LEMMA BackupChannel ==
  ASSUME TypeOK
  PROVE  /\ WithBackup \in Config
         /\ WithBackup[BACKUP_CHANNEL] \in Leftover \cup {MODULE_LENGTH}
         /\ \A i \in Leftover : WithBackup[BACKUP_CHANNEL] <= i
         /\ \A f \in Field : f # BACKUP_CHANNEL => WithBackup[f] = config[f]
<1> DEFINE S == Leftover \cup {MODULE_LENGTH}
<1>1. S \in SUBSET Nat /\ S # {} /\ S \subseteq Halfword
  <2>1. Leftover \subseteq Channel
    BY DEF Leftover, Channel
  <2> QED
    BY <2>1, ModuleLength
<1>2. PICK m \in S : /\ \A n \in S : m <= n
                     /\ WithBackup = [config EXCEPT ![BACKUP_CHANNEL] = m]
  BY <1>1, MinIsLeast DEF WithBackup
<1>3. m \in Halfword
  BY <1>1
<1> QED
  BY <1>2, <1>3, ChannelFields DEF TypeOK, Config

(* The channels that are assigned exactly once are as many as the fields that
   assign one, so each field assigns one of them, and one is left for the
   backup channel. *)
LEMMA ValidAssigns ==
  ASSUME TypeOK, Valid
  PROVE  Assigns(WithBackup)
<1> DEFINE Once == Channel \ Leftover
           users(i) == {f \in LedChannels : config[f] = i}
<1>1. Leftover \subseteq Channel /\ \A i \in Once : Cardinality(users(i)) = 1
  BY DEF Leftover, Channel
<1>2. \A i \in Once : \E f \in LedChannels : users(i) = {f}
  <2> SUFFICES ASSUME NEW i \in Once
               PROVE  \E f \in LedChannels : users(i) = {f}
    OBVIOUS
  <2>1. IsFiniteSet(users(i))
    <3>1. users(i) \in SUBSET LedChannels
      OBVIOUS
    <3> QED
      BY <3>1, ChannelCounts, FS_Subset
  <2>2. PICK f : users(i) = {f}
    BY <1>1, <2>1, FS_Singleton
  <2> QED
    BY <2>2
<1> DEFINE user == [i \in Once |-> CHOOSE f \in LedChannels : users(i) = {f}]
<1>3. \A i \in Once : user[i] \in LedChannels /\ users(i) = {user[i]}
  BY <1>2
<1>4. \A i \in Once : config[user[i]] = i
  BY <1>3
<1> HIDE DEF users
<1>5. user \in Injection(Once, LedChannels)
  <2>1. user \in [Once -> LedChannels]
    BY <1>3
  <2>2. \A i, j \in Once : user[i] = user[j] => i = j
    BY <1>4
  <2> HIDE DEF user
  <2> QED
    BY <2>1, <2>2 DEF Injection, IsInjective
<1> HIDE DEF user
<1>6. /\ IsFiniteSet(Leftover) /\ Cardinality(Leftover) \in Nat
      /\ Cardinality(Leftover) <= 1
      /\ IsFiniteSet(Once)
      /\ Cardinality(Once) = MODULE_LENGTH - Cardinality(Leftover)
  <2>1. IsFiniteSet(Leftover)
    BY <1>1, ChannelCounts, FS_Subset
  <2>2. Channel \cap Leftover = Leftover
    BY <1>1
  <2>3. Cardinality(Leftover) \in Nat
    BY <2>1, FS_CardinalityType
  <2>4. IsFiniteSet(Once)
        /\ Cardinality(Once) = Cardinality(Channel) - Cardinality(Leftover)
    BY <2>2, ChannelCounts, FS_Difference
  <2> QED
    BY <2>1, <2>3, <2>4, ChannelCounts DEF Valid
<1> HIDE DEF Once
<1>7. Cardinality(Once) = Cardinality(LedChannels) /\ Cardinality(Leftover) = 1
  <2>1. Cardinality(Once) <= Cardinality(LedChannels)
    BY <1>5, ChannelCounts, FS_Injection
  <2> QED
    BY <2>1, <1>6, ChannelCounts, ModuleLength
<1>8. user \in Surjection(Once, LedChannels)
  BY <1>5, <1>7, ChannelCounts, FS_Injection
<1>9. \A f \in LedChannels : \E i \in Once : f = user[i]
  BY <1>8 DEF Surjection
<1>10. \A f \in LedChannels : config[f] \in Once
  BY <1>4, <1>9
<1>11. \A f, g \in LedChannels : f # g => config[f] # config[g]
  BY <1>4, <1>9
<1>12. PICK backup : Leftover = {backup}
  BY <1>6, <1>7, FS_Singleton
<1>13. WithBackup[BACKUP_CHANNEL] = backup
  <2>1. backup \in Channel /\ backup \in Nat /\ backup < MODULE_LENGTH
    <3>1. backup \in Channel /\ backup \in Nat
      BY <1>1, <1>12, ModuleLength
    <3> QED
      BY <3>1, ModuleLength DEF Channel
  <2>2. /\ WithBackup[BACKUP_CHANNEL] \in {backup, MODULE_LENGTH}
        /\ WithBackup[BACKUP_CHANNEL] <= backup
    BY <1>12, BackupChannel
  <2> QED
    BY <2>1, <2>2, ModuleLength
<1>14. /\ \A f \in LedChannels : WithBackup[f] = config[f]
       /\ WithBackup[MY_ADDRESS] = config[MY_ADDRESS]
  BY BackupChannel, ChannelFields DEF Assigned
<1>15. backup \in Channel /\ backup \notin Once
  BY <1>1, <1>12 DEF Once
<1>16. \A f \in LedChannels : WithBackup[f] \in Channel /\ WithBackup[f] # backup
  BY <1>10, <1>14, <1>15 DEF Once
<1>17. WithBackup[MY_ADDRESS] <= 253
  BY <1>14 DEF Valid, config_valid, MY_ADDRESS
<1> QED
  <2>1. \A f \in LedChannels : WithBackup[f] < MODULE_LENGTH
    BY <1>16, ModuleLength DEF Channel
  <2>2. WithBackup[BACKUP_CHANNEL] < MODULE_LENGTH
    BY <1>13, <1>15, ModuleLength DEF Channel
  <2>3. \A f, g \in Assigned : f # g => WithBackup[f] # WithBackup[g]
    BY <1>11, <1>13, <1>14, <1>16 DEF Assigned
  <2> QED
    BY <2>1, <2>2, <2>3, <1>17 DEF Assigns, Assigned

-----------------------------------------------------------------------------
(* Every step of the console is one of the store, or leaves it alone. *)

LEMMA EnteredInt == Entered \subseteq Int
<1> SUFFICES ASSUME NEW number \in Numbers
             PROVE  AsInt(Parsed(number)) \in Int
  BY DEF Entered
<1>1. number \in Nat /\ UINT_LIMIT \in Nat /\ UINT_LIMIT > 0
  BY PromptAssumption
<1>2. number % UINT_LIMIT \in Int
  BY <1>1
<1> QED
  BY <1>1, <1>2 DEF AsInt, Parsed

(* The commands that edit the configuration edit nothing else, and leave a
   configuration. *)
LEMMA CommandEdits ==
  ASSUME TypeOK, Command
  PROVE  /\ Prompting
         /\ UNCHANGED <<flash, pc, locals, error, history>>
         /\ config' \in Config
<1>1. config \in Config /\ Loaded(config) \in Config /\ WithBackup \in Config
  BY LoadedType, BackupChannel DEF TypeOK
<1>2. ASSUME NEW c \in Config, Enter(c)
      PROVE  /\ Prompting
             /\ UNCHANGED <<flash, pc, locals, error, history>>
             /\ config' \in Config
  BY <1>2 DEF Enter
<1>3. ASSUME NEW f \in Field, NEW value \in Halfword
      PROVE  [config EXCEPT ![f] = value] \in Config
  BY <1>1 DEF Config
<1>4. ASSUME NEW n \in Entered, run_set_addr(n)
      PROVE  Enter([config EXCEPT ![MY_ADDRESS] = n]) /\ n \in Halfword
  <2>1. n \in Int /\ 0 <= n /\ n <= 253 /\ Enter([config EXCEPT ![MY_ADDRESS] = n])
    BY <1>4, EnteredInt DEF run_set_addr
  <2>2. n \in Halfword
    BY <2>1, InHalfword
  <2> QED
    BY <2>1, <2>2
<1>5. ASSUME NEW index \in Entered, NEW limit \in Entered,
             run_set_heat_limit(index, limit)
      PROVE  Enter([config EXCEPT ![HEAT_LIMIT] = limit]) /\ limit \in Halfword
  <2>1. /\ limit \in Int /\ 0 <= limit /\ limit < 65536
        /\ Enter([config EXCEPT ![HEAT_LIMIT] = limit])
    BY <1>5, EnteredInt DEF run_set_heat_limit, check_short, check_range
  <2>2. limit \in Halfword
    BY <2>1, InHalfword
  <2> QED
    BY <2>1, <2>2
<1>6. ASSUME NEW led \in Entered, NEW rgb \in Assignments,
             run_set_pwm_channels(led, rgb)
      PROVE  \E c \in Config : Enter(c)
  <2>1. led \in Int /\ \A i \in 1 .. 3 : rgb[i] \in Channel
    <3>1. \A i \in 1 .. 3 : rgb[i] \in Nat
      BY PromptAssumption
    <3> QED
      BY <1>6, <3>1, EnteredInt, ModuleLength
         DEF run_set_pwm_channels, check_channel_index, check_range, Channel
  <2>2. \A f \in CHANNELS(led) : f - 3 * led - 2 \in 1 .. 3
    BY <2>1 DEF CHANNELS
  <2>3. \A f \in CHANNELS(led) : rgb[f - 3 * led - 2] \in Halfword
    BY <2>1, <2>2, ModuleLength
  <2>4. [f \in Field |-> IF f \in CHANNELS(led)
                         THEN rgb[f - 3 * led - 2] ELSE config[f]] \in Config
    BY <1>1, <2>3 DEF Config
  <2> QED
    BY <1>6, <2>4 DEF run_set_pwm_channels
<1>7. ASSUME NEW led \in Entered, NEW matrix \in Corrections,
             run_set_correction(led, matrix)
      PROVE  Enter([config EXCEPT ![COLOR_MATRIX] = matrix]) /\ matrix \in Halfword
  BY <1>7, PromptAssumption DEF run_set_correction
<1>8. CASE run_reload_config
  BY <1>1, <1>2, <1>8 DEF run_reload_config
<1>9. CASE CheckBeforeSave
  BY <1>1, <1>9 DEF CheckBeforeSave
<1>10. CASE run_quit
  BY <1>1, <1>10 DEF run_quit
<1>11. CASE run_paste_file \/ run_echo
  BY <1>1, <1>11 DEF run_paste_file, run_echo, vars, flash, locals, history
<1> QED
  BY <1>2, <1>3, <1>4, <1>5, <1>6, <1>7, <1>8, <1>9, <1>10, <1>11, ChannelFields
     DEF Command

LEMMA PromptStepsStore ==
  ASSUME TypeOK, PromptNext \/ UNCHANGED promptVars
  PROVE  StoreNext \/ UNCHANGED vars
<1>1. CASE Command
  <2>1. Prompting /\ UNCHANGED <<flash, pc, locals, error, history>>
        /\ config' \in Config
    BY <1>1, CommandEdits
  <2>2. Edit(config')
    BY <2>1 DEF Edit, Prompting
  <2> QED
    BY <2>1, <2>2 DEF StoreNext, AnyEdit
<1>2. CASE run_save_config
  BY <1>2 DEF run_save_config, StoreNext
<1>3. CASE Saving
  BY <1>3 DEF Saving, StoreNext
<1>4. CASE EndOfEcho
  BY <1>4 DEF EndOfEcho
<1>5. CASE Restart
  BY <1>5 DEF Restart, StoreNext
<1>6. CASE UNCHANGED promptVars
  BY <1>6 DEF promptVars
<1> QED
  BY <1>1, <1>2, <1>3, <1>4, <1>5, <1>6 DEF PromptNext

-----------------------------------------------------------------------------
(* Every step of the console keeps the invariant. *)

LEMMA PromptInitIInv == PromptInit => PromptIInv
<1> SUFFICES ASSUME PromptInit PROVE PromptIInv
  OBVIOUS
<1>1. IInv
  BY InitIInv DEF PromptInit
<1>2. PromptTypeOK
  BY <1>1, PromptAssumption DEF PromptInit, PromptTypeOK, Modes, IInv
<1>3. InUse = {}
  <2>1. \A slot \in Slot : page[StatusWord(slot)] = ERASED
    BY StatusInPage DEF PromptInit, Init
  <2> QED
    BY <2>1, Constants DEF InUse, SlotsOf
<1> QED
  BY <1>1, <1>2, <1>3 DEF PromptIInv, OnlyValidKept, PromptInit, Init

LEMMA PromptTypeKept ==
  ASSUME PromptIInv, PromptNext \/ UNCHANGED promptVars
  PROVE  IInv' /\ PromptTypeOK'
<1>1. IInv /\ TypeOK /\ PromptTypeOK
  BY DEF PromptIInv, IInv
<1>2. IInv'
  BY <1>1, PromptStepsStore, NextKeeps
<1>3. mode' \in Modes
  BY <1>1
     DEF PromptTypeOK, Modes, PromptNext, Command, Enter, run_set_addr,
         run_set_heat_limit, run_set_pwm_channels, run_set_correction,
         run_reload_config, CheckBeforeSave, run_paste_file, run_quit, run_echo,
         run_save_config, Saving, EndOfEcho, Restart, promptVars
<1>4. pasting' \in 0 .. MaxPaste
  BY <1>1, PromptAssumption
     DEF PromptTypeOK, PromptNext, Command, Enter, run_set_addr,
         run_set_heat_limit, run_set_pwm_channels, run_set_correction,
         run_reload_config, CheckBeforeSave, run_paste_file, run_quit, run_echo,
         run_save_config, Saving, EndOfEcho, Restart, promptVars
<1> QED
  BY <1>2, <1>3, <1>4 DEF PromptTypeOK, IInv

(* An entry that comes into use is a valid configuration, but for its address,
   which is valid too. *)
LEMMA NewEntryIsValid ==
  ASSUME IInv, MarkInUse, Assigns(config)
  PROVE  \A slot \in InUse' : Assigns(Entry(slot)')
<1>1. /\ unused \in Slot /\ InUse' = {unused} /\ unused' = unused
      /\ \A s \in Slot, f \in Field :
           page'[EntryWord(s, f)] = page[EntryWord(s, f)]
      /\ SameButAddress(Entry(unused), config)
  BY MarkInUseEffect DEF MarkInUse, locals
<1>2. /\ TypeOK /\ MY_ADDRESS = 0 /\ MY_ADDRESS \in Field
      /\ Assigned \subseteq Field \ {MY_ADDRESS}
  BY ChannelFields DEF IInv, MY_ADDRESS
<1>3. Entry(unused)[MY_ADDRESS] <= 253
  <2>1. page[EntryWord(unused, MY_ADDRESS)] \in {config[MY_ADDRESS], 0}
    BY <1>2 DEF MarkInUse, IInv, CopyIsFaithful
  <2> QED
    BY <1>1, <1>2, <2>1, EntryType DEF Assigns
<1>4. Assigns(Entry(unused))
  BY <1>1, <1>2, <1>3 DEF Assigns, SameButAddress
<1>5. Entry(unused)' = Entry(unused)
  BY <1>1 DEF Entry
<1> QED
  BY <1>1, <1>4, <1>5

LEMMA ValidKept ==
  ASSUME PromptIInv, PromptNext \/ UNCHANGED promptVars
  PROVE  OnlyValidKept'
<1>1. IInv /\ TypeOK /\ PromptTypeOK /\ OnlyValidKept
  BY DEF PromptIInv, IInv
<1>2. StoreNext \/ UNCHANGED vars
  BY <1>1, PromptStepsStore
<1>3. \A slot \in InUse' : Assigns(Entry(slot)')
  <2>1. CASE MarkInUse
    <3>1. Assigns(config)
      BY <1>1, <2>1 DEF OnlyValidKept, MarkInUse
    <3> QED
      BY <1>1, <2>1, <3>1, NewEntryIsValid
  <2>2. CASE ~MarkInUse
    <3>1. InUse' \subseteq InUse /\ \A slot \in InUse' : Entry(slot)' = Entry(slot)
      BY <1>1, <1>2, <2>2, EntriesInUse
    <3> QED
      BY <1>1, <3>1 DEF OnlyValidKept
  <2> QED
    BY <2>1, <2>2
<1>4. /\ mode' = "saving" \/ pc' # "running" \/ mode' = "normal" => Assigns(config')
      /\ pc' # "running" => mode' = "console"
  <2>1. CASE Command
    <3>1. pc = "running" /\ pc' = "running"
      BY <1>1, <2>1, CommandEdits DEF Prompting
    <3>2. ASSUME mode' = "saving" \/ mode' = "normal"
          PROVE  config' = WithBackup /\ Valid
      BY <2>1, <3>2
         DEF Command, Prompting, Enter, run_set_addr, run_set_heat_limit,
             run_set_pwm_channels, run_set_correction, run_reload_config,
             CheckBeforeSave, run_paste_file, run_quit, run_echo
    <3> QED
      BY <1>1, <3>1, <3>2, ValidAssigns
  <2>2. CASE run_save_config
    BY <1>1, <2>2 DEF run_save_config, Save, OnlyValidKept
  <2>3. CASE Saving
    BY <1>1, <2>3
       DEF Saving, OnlyValidKept, SaveStep, Erase, Copy, MarkOld, MarkInUse,
           FlashFails, Return
  <2>4. CASE EndOfEcho
    BY <1>1, <2>4 DEF EndOfEcho, OnlyValidKept, vars
  <2>5. CASE Restart
    <3>1. pc' = "running" /\ mode' # "saving" /\ config' = Loaded(DEFAULT)
      BY <2>5 DEF Restart, Reset
    <3>2. mode' = "normal" => InUse # {}
      BY <2>5 DEF Restart, InUse
    <3> QED
      BY <1>1, <3>1, <3>2, LoadedIsInUse DEF OnlyValidKept
  <2>6. CASE UNCHANGED promptVars
    BY <1>1, <2>6 DEF OnlyValidKept, promptVars, vars
  <2> QED
    BY <2>1, <2>2, <2>3, <2>4, <2>5, <2>6 DEF PromptNext
<1> QED
  BY <1>3, <1>4 DEF OnlyValidKept, Assigns

LEMMA PromptNextKeeps == PromptIInv /\ [PromptNext]_promptVars => PromptIInv'
BY PromptTypeKept, ValidKept DEF PromptIInv

-----------------------------------------------------------------------------

(* Types: the console's mode and the nesting of pastes included *)
THEOREM PromptTypeCorrect == PromptSpec => []PromptTypeOK
BY PromptInitIInv, PromptNextKeeps, PTL DEF PromptSpec, PromptIInv

(* The store's promises hold whatever the user of the console does between two
   saves, and whenever the board is reset. *)
THEOREM PromptStoreSafe ==
  PromptSpec => [](OneInUse /\ SaveIsDurable /\ FailsOnlyDisturbed)
<1>1. PromptIInv => OneInUse /\ SaveIsDurable /\ FailsOnlyDisturbed
  BY InvariantImplies DEF PromptIInv
<1> QED
  BY <1>1, PromptInitIInv, PromptNextKeeps, PTL DEF PromptSpec

(* No command, and no reset, makes more than a configuration's being saved of
   what a reset would load. *)
THEOREM PromptStoreAtomic == PromptSpec => AtomicSave
<1>1. PromptIInv /\ [PromptNext]_promptVars =>
        [LET old == Loaded(NO_CONFIG) new == Loaded(NO_CONFIG)'
         IN  new \in {old, NO_CONFIG} \/ SameButAddress(new, config)]_vars
  BY PromptStepsStore, StepIsAtomic DEF PromptIInv, IInv
<1> QED
  BY <1>1, PromptInitIInv, PromptNextKeeps, PTL DEF PromptSpec, AtomicSave

(* A board in normal operation has a channel of its own for every colour of
   every LED and for the backup channel, though loading a configuration checks
   nothing: only what config_valid has seen comes into use. *)
THEOREM NormalRunsValid == PromptSpec => []RunsValid
<1>1. PromptIInv => RunsValid
  BY DEF PromptIInv, OnlyValidKept, Assigns, Assigned, RunsValid
<1> QED
  BY <1>1, PromptInitIInv, PromptNextKeeps, PTL DEF PromptSpec

-----------------------------------------------------------------------------
(* Going through a sequence, element by element *)

(* A set of numbers that holds 0, and n + 1 with each n, holds them all. *)
LEMMA Induction ==
  ASSUME NEW S, 0 \in S, \A n \in Nat : n \in S => n + 1 \in S
  PROVE  Nat \subseteq S
<1> DEFINE Others == Nat \ S
<1>1. CASE Others # {}
  <2>1. Others \in SUBSET Nat
    OBVIOUS
  <2>2. PICK m \in Others : \A n \in Others : m <= n
    BY <1>1, <2>1, MinIsLeast, Zenon
  <2>3. m # 0 /\ m - 1 \in Nat /\ ~(m <= m - 1) /\ (m - 1) + 1 = m
    OBVIOUS
  <2>4. m - 1 \in S
    BY <2>2, <2>3
  <2> QED
    BY <2>2, <2>3, <2>4
<1> QED
  BY <1>1

(* f holds what step, a function on states and elements, makes of the first n
   elements of xs, from start on. *)
Runs(f, St, step, start, xs) ==
  /\ f[0] = start
  /\ \A n \in 1 .. Len(xs) : f[n - 1] \in St => f[n] = step[<<f[n - 1], xs[n]>>]

LEMMA RunTyped ==
  ASSUME NEW X, NEW St, NEW step \in [St \X X -> St], NEW start \in St, NEW xs \in Seq(X),
         NEW f, Runs(f, St, step, start, xs)
  PROVE  \A n \in 0 .. Len(xs) : f[n] \in St
<1> DEFINE S == {n \in Nat : n <= Len(xs) => f[n] \in St}
<1>1. Len(xs) \in Nat
  BY LenProperties
<1>2. 0 \in S
  BY DEF Runs
<1>3. ASSUME NEW n \in Nat, n \in S PROVE n + 1 \in S
  <2> SUFFICES ASSUME n + 1 <= Len(xs) PROVE f[n + 1] \in St
    OBVIOUS
  <2>1. n + 1 \in 1 .. Len(xs) /\ (n + 1) - 1 = n /\ n <= Len(xs)
    BY <1>1
  <2>2. f[n] \in St /\ xs[n + 1] \in X
    BY <1>3, <2>1, ElementOfSeq
  <2>3. f[n + 1] = step[<<f[n], xs[n + 1]>>]
    BY <2>1, <2>2 DEF Runs
  <2> QED
    BY <2>2, <2>3
<1>4. Nat \subseteq S
  <2> HIDE DEF S
  <2> QED
    BY <1>2, <1>3, Induction
<1> QED
  BY <1>1, <1>4

LEMMA RunExists ==
  ASSUME NEW X, NEW St, NEW step \in [St \X X -> St], NEW start \in St, NEW xs \in Seq(X)
  PROVE  \E f \in [0 .. Len(xs) -> St] : Runs(f, St, step, start, xs)
<1> DEFINE Upto(f, k) ==
             /\ f[0] = start
             /\ \A n \in 1 .. k : f[n] = step[<<f[n - 1], xs[n]>>]
           S == {k \in Nat : k <= Len(xs) => \E f \in [0 .. k -> St] : Upto(f, k)}
<1>1. Len(xs) \in Nat
  BY LenProperties
<1>2. 0 \in S
  <2> DEFINE f == [n \in 0 .. 0 |-> start]
  <2>1. f \in [0 .. 0 -> St] /\ Upto(f, 0)
    OBVIOUS
  <2> QED
    BY <2>1
<1>3. ASSUME NEW k \in Nat, k \in S PROVE k + 1 \in S
  <2> SUFFICES ASSUME k + 1 <= Len(xs)
               PROVE  \E g \in [0 .. k + 1 -> St] : Upto(g, k + 1)
    OBVIOUS
  <2>1. PICK f \in [0 .. k -> St] : Upto(f, k)
    BY <1>1, <1>3
  <2> DEFINE y == step[<<f[k], xs[k + 1]>>]
             g == [n \in 0 .. k + 1 |-> IF n = k + 1 THEN y ELSE f[n]]
  <2>2. y \in St
    <3>1. k + 1 \in 1 .. Len(xs)
      BY <1>1
    <3>2. xs[k + 1] \in X
      BY <3>1, ElementOfSeq
    <3>3. f[k] \in St
      OBVIOUS
    <3> QED
      BY <3>2, <3>3
  <2> HIDE DEF y
  <2>3. /\ g \in [0 .. k + 1 -> St] /\ g[k + 1] = y
        /\ \A n \in 0 .. k : g[n] = f[n]
    BY <2>2
  <2>4. ASSUME NEW n \in 1 .. k + 1 PROVE g[n] = step[<<g[n - 1], xs[n]>>]
    <3>1. CASE n = k + 1
      <4>1. n - 1 = k /\ k \in 0 .. k
        BY <3>1
      <4>2. g[n - 1] = f[k]
        BY <2>3, <4>1
      <4> QED
        BY <2>3, <3>1, <4>2 DEF y
    <3>2. CASE n # k + 1
      <4>1. n \in 1 .. k /\ n \in 0 .. k /\ n - 1 \in 0 .. k
        BY <3>2
      <4>2. g[n] = f[n] /\ g[n - 1] = f[n - 1]
        BY <2>3, <4>1
      <4> QED
        BY <2>1, <4>1, <4>2
    <3> QED
      BY <3>1, <3>2
  <2>5. g[0] = start
    BY <2>1, <2>3
  <2> HIDE DEF g
  <2>6. Upto(g, k + 1)
    BY <2>4, <2>5
  <2> QED
    BY <2>3, <2>6
<1>4. Len(xs) \in S
  <2>1. Nat \subseteq S
    <3> HIDE DEF S
    <3> QED
      BY <1>2, <1>3, Induction
  <2> QED
    BY <1>1, <2>1
<1>5. PICK f \in [0 .. Len(xs) -> St] : Upto(f, Len(xs))
  BY <1>4
<1> QED
  BY <1>5 DEF Runs

-----------------------------------------------------------------------------
(* Characters *)

LEMMA Characters ==
  /\ NUL \in Char /\ BACKSPACE \in Char /\ ESCAPE \in Char /\ SPACE \in Char
  /\ NUL # SPACE /\ NUL # BACKSPACE /\ SPACE # BACKSPACE
<1>1. NUL # SPACE /\ NUL # BACKSPACE /\ SPACE # BACKSPACE
  BY DEF NUL, BACKSPACE, SPACE
<1> QED
  BY <1>1 DEF Char

LEMMA DigitsDomain == DOMAIN DIGITS = 1 .. 36
  BY DEF DIGITS

LEMMA NoDigit ==
  ASSUME NEW i \in DOMAIN DIGITS
  PROVE  SPACE \notin DIGITS[i] /\ NUL \notin DIGITS[i]
  BY DEF DIGITS, SPACE, NUL

LEMMA MarkIsChar == "X" \in Char /\ "X" # BACKSPACE
<1>1. 34 \in DOMAIN DIGITS /\ "X" \in DIGITS[34]
  BY DEF DIGITS
<1>2. "X" \in isalnum
  BY <1>1 DEF isalnum
<1> QED
  BY <1>2 DEF Char, BACKSPACE

(* Digits are letters and numbers; neither a blank nor the end of a line is. *)
LEMMA NotAlnum ==
  /\ SPACE \notin isalnum /\ NUL \notin isalnum
  /\ \A b \in 0 .. 36 : Digits(b) \subseteq isalnum
  /\ BASE \in 0 .. 36 /\ {10, 16} \subseteq 0 .. 36
<1>1. SPACE \notin isalnum /\ NUL \notin isalnum
  BY NoDigit DEF isalnum
<1>2. ASSUME NEW b \in 0 .. 36 PROVE Digits(b) \subseteq isalnum
  <2>1. 1 .. b \subseteq DOMAIN DIGITS
    BY DigitsDomain
  <2> QED
    BY <2>1 DEF Digits, isalnum
<1>3. BASE \in 0 .. 36 /\ {10, 16} \subseteq 0 .. 36
  BY DEF BASE
<1> QED
  BY <1>1, <1>2, <1>3

LEMMA CommandKeys ==
  /\ SPACE \notin DOMAIN commands /\ NUL \notin DOMAIN commands
  /\ \A key \in DOMAIN commands : commands[key] \in Nat
  BY DEF commands, SPACE, NUL

-----------------------------------------------------------------------------
(* What the terminal shows *)

Terminal == {d \in [cells : Seq(Char), cursor : Nat] : d.cursor <= Len(d.cells)}

LEMMA Backspace ==
  ASSUME NEW d \in Terminal
  PROVE  /\ Display(d, BACKSPACE) \in Terminal
         /\ Display(d, BACKSPACE).cells = d.cells
         /\ d.cursor > 0 => Display(d, BACKSPACE).cursor = d.cursor - 1
<1>1. d \in [cells : Seq(Char), cursor : Nat] /\ d.cursor <= Len(d.cells)
  BY DEF Terminal
<1>2. d.cells \in Seq(Char) /\ d.cursor \in Nat /\ Len(d.cells) \in Nat
  BY <1>1, LenProperties
<1> DEFINE c == IF d.cursor = 0 THEN 0 ELSE d.cursor - 1
<1>3. c \in Nat /\ c <= Len(d.cells) /\ (d.cursor > 0 => c = d.cursor - 1)
  BY <1>1, <1>2
<1>4. Display(d, BACKSPACE) = [d EXCEPT !.cursor = c]
  BY DEF Display
<1> HIDE DEF c
<1> QED
  BY <1>1, <1>2, <1>3, <1>4 DEF Terminal

LEMMA Character ==
  ASSUME NEW d \in Terminal, NEW c \in Char, c # BACKSPACE
  PROVE  /\ Display(d, c) \in Terminal
         /\ Display(d, c).cursor = d.cursor + 1
         /\ Display(d, c).cells[d.cursor + 1] = c
         /\ \A k \in 1 .. d.cursor : Display(d, c).cells[k] = d.cells[k]
<1> DEFINE n == d.cursor
           cells == IF n < Len(d.cells) THEN [d.cells EXCEPT ![n + 1] = c]
                    ELSE Append(d.cells, c)
<1>1. d \in [cells : Seq(Char), cursor : Nat] /\ n <= Len(d.cells)
  BY DEF Terminal
<1>2. d.cells \in Seq(Char) /\ n \in Nat /\ Len(d.cells) \in Nat
  BY <1>1, LenProperties
<1>3. Display(d, c) = [cells |-> cells, cursor |-> n + 1]
  BY DEF Display
<1>4. /\ cells \in Seq(Char) /\ n + 1 <= Len(cells)
      /\ cells[n + 1] = c /\ \A k \in 1 .. n : cells[k] = d.cells[k]
  <2>1. CASE n < Len(d.cells)
    <3>1. n + 1 \in 1 .. Len(d.cells)
      BY <1>2, <2>1
    <3>2. cells = [d.cells EXCEPT ![n + 1] = c]
      BY <2>1
    <3>3. /\ cells \in Seq(Char) /\ Len(cells) = Len(d.cells)
          /\ \A j \in 1 .. Len(d.cells) : cells[j] = IF j = n + 1 THEN c ELSE d.cells[j]
      <4> HIDE DEF cells
      <4> HIDE DEF n
      <4> QED
        BY <1>2, <3>1, <3>2, ExceptSeq
    <3> QED
      BY <1>2, <2>1, <3>1, <3>3
  <2>2. CASE ~(n < Len(d.cells))
    <3>1. cells = Append(d.cells, c) /\ n = Len(d.cells)
      BY <1>1, <1>2, <2>2
    <3>2. /\ cells \in Seq(Char) /\ Len(cells) = Len(d.cells) + 1
          /\ cells[Len(d.cells) + 1] = c
          /\ \A j \in 1 .. Len(d.cells) : cells[j] = d.cells[j]
      <4> HIDE DEF cells
      <4> QED
        BY <1>2, <3>1, AppendProperties
    <3> QED
      BY <1>2, <3>1, <3>2
  <2> QED
    BY <2>1, <2>2
<1> HIDE DEF cells
<1> QED
  BY <1>2, <1>3, <1>4 DEF Terminal

Blank == [cells |-> <<>>, cursor |-> 0]
DisplayStep == [p \in Terminal \X Char |-> Display(p[1], p[2])]

LEMMA DisplayTyped ==
  /\ Blank \in Terminal
  /\ DisplayStep \in [Terminal \X Char -> Terminal]
<1>1. Blank \in Terminal
  <2>1. <<>> \in Seq(Char) /\ Len(<<>>) = 0
    BY EmptySeq
  <2> QED
    BY <2>1 DEF Blank, Terminal
<1>2. ASSUME NEW p \in Terminal \X Char PROVE Display(p[1], p[2]) \in Terminal
  <2>1. p[1] \in Terminal /\ p[2] \in Char
    OBVIOUS
  <2> QED
    BY <2>1, Backspace, Character
<1> QED
  BY <1>1, <1>2 DEF DisplayStep

LEMMA ScreenRuns ==
  ASSUME NEW echo \in Seq(Char)
  PROVE  \E f : /\ Runs(f, Terminal, DisplayStep, Blank, echo)
                /\ Screen(echo) = f[Len(echo)]
<1> DEFINE Displayed(f) == f = [n \in 0 .. Len(echo) |-> IF n = 0 THEN [cells |-> <<>>, cursor |-> 0]
                                                 ELSE Display(f[n - 1], echo[n])]
           g == CHOOSE f : Displayed(f)
<1>1. Len(echo) \in Nat
  BY LenProperties
<1>2. \E f : Displayed(f)
  <2>1. PICK f \in [0 .. Len(echo) -> Terminal] : Runs(f, Terminal, DisplayStep, Blank, echo)
    BY DisplayTyped, RunExists
  <2>2. ASSUME NEW n \in 0 .. Len(echo)
        PROVE  f[n] = IF n = 0 THEN Blank ELSE Display(f[n - 1], echo[n])
    <3>1. CASE n = 0
      BY <2>1, <3>1 DEF Runs
    <3>2. CASE n # 0
      <4>1. n \in 1 .. Len(echo) /\ n - 1 \in 0 .. Len(echo)
        BY <1>1, <3>2
      <4>2. f[n - 1] \in Terminal /\ echo[n] \in Char
        BY <4>1, ElementOfSeq
      <4>3. f[n] = DisplayStep[<<f[n - 1], echo[n]>>]
        BY <2>1, <4>1, <4>2 DEF Runs
      <4> QED
        BY <3>2, <4>2, <4>3 DEF DisplayStep
    <3> QED
      BY <3>1, <3>2
  <2>3. f = [n \in 0 .. Len(echo) |-> f[n]]
    OBVIOUS
  <2> QED
    BY <2>2, <2>3 DEF Blank
<1>3. Displayed(g)
  BY <1>2
<1>4. Screen(echo) = g[Len(echo)]
  BY Zenon DEF Screen
<1> HIDE DEF g
<1>5. Runs(g, Terminal, DisplayStep, Blank, echo)
  <2>1. g[0] = Blank
    BY <1>1, <1>3 DEF Blank
  <2>2. ASSUME NEW n \in 1 .. Len(echo), g[n - 1] \in Terminal
        PROVE  g[n] = DisplayStep[<<g[n - 1], echo[n]>>]
    <3>1. n \in 0 .. Len(echo) /\ n # 0 /\ echo[n] \in Char
      BY <1>1, ElementOfSeq
    <3>2. g[n] = Display(g[n - 1], echo[n])
      BY <1>3, <3>1
    <3> QED
      BY <2>2, <3>1, <3>2 DEF DisplayStep
  <2> QED
    BY <2>1, <2>2 DEF Runs
<1> QED
  BY <1>4, <1>5

LEMMA ScreenTyped ==
  ASSUME NEW echo \in Seq(Char)
  PROVE  Screen(echo) \in Terminal
<1>1. PICK f : Runs(f, Terminal, DisplayStep, Blank, echo) /\ Screen(echo) = f[Len(echo)]
  BY ScreenRuns
<1>2. Len(echo) \in Nat /\ Len(echo) \in 0 .. Len(echo)
  BY LenProperties
<1>3. \A n \in 0 .. Len(echo) : f[n] \in Terminal
  BY <1>1, DisplayTyped, RunTyped, Zenon
<1> QED
  BY <1>1, <1>2, <1>3

LEMMA ScreenBlank == Screen(<<>>) = Blank
<1>1. <<>> \in Seq(Char) /\ Len(<<>>) = 0
  BY EmptySeq
<1>2. PICK f : Runs(f, Terminal, DisplayStep, Blank, <<>>) /\ Screen(<<>>) = f[Len(<<>>)]
  BY <1>1, ScreenRuns
<1> QED
  BY <1>1, <1>2 DEF Runs

(* What is shown depends on the characters only. *)
LEMMA SameScreen ==
  ASSUME NEW xs \in Seq(Char), NEW ys \in Seq(Char), NEW f, NEW g,
         Runs(f, Terminal, DisplayStep, Blank, xs),
         Runs(g, Terminal, DisplayStep, Blank, ys),
         NEW k \in Nat, k <= Len(xs), k <= Len(ys),
         \A n \in 1 .. k : xs[n] = ys[n]
  PROVE  f[k] = g[k]
<1> DEFINE S == {n \in Nat : n <= k => f[n] = g[n]}
<1>0. Len(xs) \in Nat /\ Len(ys) \in Nat
  BY LenProperties
<1>1. 0 \in S
  BY DEF Runs
<1>2. ASSUME NEW n \in Nat, n \in S PROVE n + 1 \in S
  <2> SUFFICES ASSUME n + 1 <= k PROVE f[n + 1] = g[n + 1]
    OBVIOUS
  <2>1. n + 1 \in 1 .. k /\ n + 1 \in 1 .. Len(xs) /\ n + 1 \in 1 .. Len(ys)
        /\ (n + 1) - 1 = n /\ n <= k /\ n \in 0 .. Len(xs)
    BY <1>0
  <2>2. f[n] = g[n] /\ xs[n + 1] = ys[n + 1]
    BY <1>2, <2>1
  <2>3. f[n] \in Terminal
    <3>1. \A m \in 0 .. Len(xs) : f[m] \in Terminal
      BY DisplayTyped, RunTyped, Zenon
    <3> QED
      BY <2>1, <3>1
  <2>4. f[n + 1] = DisplayStep[<<f[n], xs[n + 1]>>] /\ g[n + 1] = DisplayStep[<<g[n], ys[n + 1]>>]
    BY <2>1, <2>2, <2>3 DEF Runs
  <2> QED
    BY <2>2, <2>4
<1>3. Nat \subseteq S
  <2> HIDE DEF S
  <2> QED
    BY <1>1, <1>2, Induction
<1> QED
  BY <1>3

(* One more character is displayed after the others. *)
LEMMA ScreenAppend ==
  ASSUME NEW echo \in Seq(Char), NEW c \in Char
  PROVE  /\ Append(echo, c) \in Seq(Char)
         /\ Screen(Append(echo, c)) = Display(Screen(echo), c)
<1> DEFINE more == Append(echo, c)
           k == Len(echo)
<1>1. /\ more \in Seq(Char) /\ Len(more) = k + 1 /\ more[k + 1] = c
      /\ \A n \in 1 .. k : more[n] = echo[n]
  BY AppendProperties
<1>2. k \in Nat
  BY LenProperties
<1> HIDE DEF more
<1>3. PICK f : Runs(f, Terminal, DisplayStep, Blank, echo) /\ Screen(echo) = f[k]
  BY ScreenRuns
<1>4. PICK g : Runs(g, Terminal, DisplayStep, Blank, more) /\ Screen(more) = g[k + 1]
  BY <1>1, ScreenRuns
<1>5. f[k] = g[k]
  <2>1. /\ k \in Nat /\ k <= Len(echo) /\ k <= Len(more)
        /\ \A n \in 1 .. k : echo[n] = more[n]
    BY <1>1, <1>2
  <2>2. more \in Seq(Char)
    BY <1>1
  <2>3. Runs(f, Terminal, DisplayStep, Blank, echo) /\ Runs(g, Terminal, DisplayStep, Blank, more)
    BY <1>3, <1>4
  <2> HIDE DEF k
  <2> QED
    BY <2>1, <2>2, <2>3, SameScreen
<1>6. g[k + 1] = Display(g[k], c)
  <2>1. g[k] \in Terminal
    BY <1>3, <1>5, ScreenTyped
  <2>2. k + 1 \in 1 .. Len(more) /\ (k + 1) - 1 = k
    BY <1>1, <1>2
  <2>3. g[k + 1] = DisplayStep[<<g[k], c>>]
    BY <1>1, <1>4, <2>1, <2>2 DEF Runs
  <2> QED
    BY <2>1, <2>3 DEF DisplayStep
<1> QED
  BY <1>1, <1>3, <1>4, <1>5, <1>6 DEF more

-----------------------------------------------------------------------------
(* A line that is being typed: the buffer ends with its ith character, and so
   does the line on the screen. *)

OnScreen(buffer, i, d) ==
  /\ d.cursor = i
  /\ \A k \in 1 .. i : d.cells[k] = buffer[k]

Edited ==
  {s \in [buffer : [1 .. LINE_LENGTH -> Char], i : 0 .. LINE_LENGTH, echo : Seq(Char)] :
     /\ \A k \in 1 .. LINE_LENGTH : k > s.i => s.buffer[k] = NUL
     /\ \A k \in 1 .. LINE_LENGTH : k <= s.i => s.buffer[k] # NUL
     /\ OnScreen(s.buffer, s.i, Screen(s.echo))}

LEMMA EditedParts ==
  ASSUME NEW s \in Edited
  PROVE  /\ s = [buffer |-> s.buffer, i |-> s.i, echo |-> s.echo]
         /\ s.buffer \in [1 .. LINE_LENGTH -> Char]
         /\ s.i \in Nat /\ s.i <= LINE_LENGTH
         /\ s.echo \in Seq(Char)
         /\ \A k \in 1 .. LINE_LENGTH : k > s.i => s.buffer[k] = NUL
         /\ \A k \in 1 .. LINE_LENGTH : k <= s.i => s.buffer[k] # NUL
         /\ OnScreen(s.buffer, s.i, Screen(s.echo))
         /\ Screen(s.echo) \in Terminal
         /\ LINE_LENGTH \in Nat
<1>1. s \in [buffer : [1 .. LINE_LENGTH -> Char], i : 0 .. LINE_LENGTH, echo : Seq(Char)]
  BY DEF Edited
<1>2. s.i \in 0 .. LINE_LENGTH /\ s.echo \in Seq(Char) /\ s.buffer \in [1 .. LINE_LENGTH -> Char]
      /\ s = [buffer |-> s.buffer, i |-> s.i, echo |-> s.echo]
  BY <1>1
<1>3. s.i \in Nat /\ s.i <= LINE_LENGTH /\ LINE_LENGTH \in Nat
  BY <1>2, LineInputAssumption
<1> QED
  BY <1>2, <1>3, ScreenTyped DEF Edited

LEMMA ClearedEdited == Cleared \in Edited
<1>1. LINE_LENGTH \in Nat
  BY LineInputAssumption
<1>2. Cleared \in [buffer : [1 .. LINE_LENGTH -> Char], i : 0 .. LINE_LENGTH, echo : Seq(Char)]
  <2>1. [k \in 1 .. LINE_LENGTH |-> NUL] \in [1 .. LINE_LENGTH -> Char]
    BY Characters
  <2>2. <<>> \in Seq(Char) /\ 0 \in 0 .. LINE_LENGTH
    BY <1>1, EmptySeq
  <2> QED
    BY <2>1, <2>2 DEF Cleared
<1>3. Cleared.echo = <<>> /\ Cleared.i = 0 /\ Cleared.buffer = [k \in 1 .. LINE_LENGTH |-> NUL]
  BY DEF Cleared
<1>4. OnScreen(Cleared.buffer, 0, Blank)
  BY DEF OnScreen, Blank
<1>5. Screen(Cleared.echo) = Blank
  BY <1>3, ScreenBlank
<1>6. \A k \in 1 .. LINE_LENGTH : k > 0 /\ ~(k <= 0) /\ Cleared.buffer[k] = NUL
  BY <1>1, <1>3
<1> QED
  BY <1>2, <1>3, <1>4, <1>5, <1>6 DEF Edited

(* Three characters on the screen take one back. *)
LEMMA RuboutEdited ==
  ASSUME NEW s \in Edited
  PROVE  Rubout(s) \in Edited
<1>1. /\ s.buffer \in [1 .. LINE_LENGTH -> Char]
      /\ s.i \in Nat /\ s.i <= LINE_LENGTH /\ LINE_LENGTH \in Nat
      /\ s.echo \in Seq(Char)
      /\ \A k \in 1 .. LINE_LENGTH : k > s.i => s.buffer[k] = NUL
      /\ \A k \in 1 .. LINE_LENGTH : k <= s.i => s.buffer[k] # NUL
      /\ OnScreen(s.buffer, s.i, Screen(s.echo))
      /\ Screen(s.echo) \in Terminal
  BY EditedParts
<1>2. CASE s.i = 0
  BY <1>2 DEF Rubout
<1>3. CASE s.i # 0
  <2> DEFINE b == Put(s.buffer, s.i, NUL)
             e1 == Append(s.echo, BACKSPACE)
             e2 == Append(e1, SPACE)
             e3 == Append(e2, BACKSPACE)
             i == s.i
             d == Screen(s.echo)
             r == Rubout(s)
  <2>1. s.echo \o <<BACKSPACE, SPACE, BACKSPACE>> = e3
    <3>1. <<BACKSPACE, SPACE, BACKSPACE>> = Append(Append(Append(<<>>, BACKSPACE), SPACE), BACKSPACE)
      OBVIOUS
    <3>2. e1 \in Seq(Char) /\ e2 \in Seq(Char)
      BY <1>1, Characters, AppendProperties
    <3>3. /\ e1 \in Seq(Char) /\ Len(e1) = Len(s.echo) + 1
          /\ e2 \in Seq(Char) /\ Len(e2) = Len(s.echo) + 2
          /\ e3 \in Seq(Char) /\ Len(e3) = Len(s.echo) + 3
      <4>1. Len(s.echo) \in Nat
        BY <1>1, LenProperties
      <4>2. e1 \in Seq(Char) /\ Len(e1) = Len(s.echo) + 1
        BY <1>1, Characters, AppendProperties
      <4>3. e2 \in Seq(Char) /\ Len(e2) = Len(e1) + 1
        <5> HIDE DEF e1
        <5> QED
          BY <4>2, Characters, AppendProperties
      <4>4. e3 \in Seq(Char) /\ Len(e3) = Len(e2) + 1
        <5> HIDE DEF e2
        <5> QED
          BY <4>3, Characters, AppendProperties
      <4> HIDE DEF e1
      <4> HIDE DEF e2
      <4> HIDE DEF e3
      <4> QED
        BY <4>1, <4>2, <4>3, <4>4
    <3> QED
      BY <1>1, <3>3
  <2>2. r = [buffer |-> b, i |-> i - 1, echo |-> e3]
    BY <1>3, <2>1 DEF Rubout
  <2>3. /\ e3 \in Seq(Char)
        /\ Screen(e3) = Display(Display(Display(d, BACKSPACE), SPACE), BACKSPACE)
    <3>1. e1 \in Seq(Char) /\ Screen(e1) = Display(d, BACKSPACE)
      BY <1>1, Characters, ScreenAppend
    <3>2. e2 \in Seq(Char) /\ Screen(e2) = Display(Screen(e1), SPACE)
      <4> HIDE DEF e1
      <4> QED
        BY <3>1, Characters, ScreenAppend
    <3>3. e3 \in Seq(Char) /\ Screen(e3) = Display(Screen(e2), BACKSPACE)
      <4> HIDE DEF e2
      <4> QED
        BY <3>2, Characters, ScreenAppend
    <3> QED
      BY <3>1, <3>2, <3>3
  <2>4. OnScreen(s.buffer, i - 1, Screen(e3))
    <3> DEFINE d1 == Display(d, BACKSPACE)
               d2 == Display(d1, SPACE)
    <3>1. d.cursor = i /\ \A k \in 1 .. i : d.cells[k] = s.buffer[k]
      BY <1>1 DEF OnScreen
    <3>2. d1 \in Terminal /\ d1.cells = d.cells /\ d1.cursor = i - 1
      BY <1>1, <1>3, <3>1, Backspace
    <3>3. /\ d2 \in Terminal /\ d2.cursor = (i - 1) + 1
          /\ \A k \in 1 .. i - 1 : d2.cells[k] = d1.cells[k]
      <4> HIDE DEF d1
      <4>1. /\ d2 \in Terminal /\ d2.cursor = d1.cursor + 1
            /\ \A k \in 1 .. d1.cursor : d2.cells[k] = d1.cells[k]
        BY <3>2, Characters, Character
      <4> QED
        BY <3>2, <4>1
    <3>4. /\ Display(d2, BACKSPACE).cells = d2.cells
          /\ Display(d2, BACKSPACE).cursor = i - 1
      <4> HIDE DEF d2
      <4>1. d2.cursor = i
        BY <1>1, <3>3
      <4>2. d2.cursor > 0
        BY <1>1, <1>3, <4>1
      <4> QED
        BY <3>3, <4>1, <4>2, Backspace
    <3>5. \A k \in 1 .. i - 1 : k \in 1 .. i
      BY <1>1
    <3> HIDE DEF d1
    <3>6. \A k \in 1 .. i - 1 : d2.cells[k] = s.buffer[k]
      BY <3>1, <3>2, <3>3, <3>5
    <3>7. Screen(e3) = Display(d2, BACKSPACE)
      BY <2>3 DEF d1
    <3> HIDE DEF d2
    <3> QED
      BY <3>4, <3>6, <3>7 DEF OnScreen
  <2>5. /\ b \in [1 .. LINE_LENGTH -> Char]
        /\ \A k \in 1 .. LINE_LENGTH : b[k] = IF k = i THEN NUL ELSE s.buffer[k]
    BY <1>1, Characters DEF Put
  <2>6. /\ i - 1 \in 0 .. LINE_LENGTH
        /\ \A k \in 1 .. LINE_LENGTH : k > i - 1 => b[k] = NUL
        /\ \A k \in 1 .. LINE_LENGTH : k <= i - 1 => b[k] # NUL
    <3> HIDE DEF b
    <3> QED
      BY <1>1, <1>3, <2>5
  <2>7. OnScreen(b, i - 1, Screen(e3))
    <3>1. \A k \in 1 .. i - 1 : b[k] = s.buffer[k]
      <4> HIDE DEF b
      <4> QED
        BY <1>1, <2>5
    <3> HIDE DEF b
    <3> HIDE DEF e3
    <3> QED
      BY <2>4, <3>1 DEF OnScreen
  <2>8. r \in Edited
    <3> HIDE DEF b
    <3> HIDE DEF e3
    <3> HIDE DEF i
    <3> HIDE DEF r
    <3>1. r.buffer = b /\ r.i = i - 1 /\ r.echo = e3
      BY <2>2
    <3>2. r \in [buffer : [1 .. LINE_LENGTH -> Char], i : 0 .. LINE_LENGTH, echo : Seq(Char)]
      BY <2>2, <2>3, <2>5, <2>6
    <3> QED
      BY <2>6, <2>7, <3>1, <3>2 DEF Edited
  <2> QED
    BY <2>8
<1> QED
  BY <1>2, <1>3

(* A character goes to the same place in the buffer and on the screen. *)
LEMMA PutEdited ==
  ASSUME NEW s \in Edited, NEW c \in Char, c # NUL, c # BACKSPACE, s.i < LINE_LENGTH
  PROVE  [buffer |-> Put(s.buffer, s.i + 1, c), i |-> s.i + 1, echo |-> Append(s.echo, c)]
           \in Edited
<1> DEFINE b == Put(s.buffer, s.i + 1, c)
           e == Append(s.echo, c)
           i == s.i
           d == Screen(s.echo)
           r == [buffer |-> b, i |-> i + 1, echo |-> e]
<1>1. /\ s.buffer \in [1 .. LINE_LENGTH -> Char]
      /\ s.i \in Nat /\ s.i <= LINE_LENGTH /\ LINE_LENGTH \in Nat
      /\ s.echo \in Seq(Char)
      /\ \A k \in 1 .. LINE_LENGTH : k > s.i => s.buffer[k] = NUL
      /\ \A k \in 1 .. LINE_LENGTH : k <= s.i => s.buffer[k] # NUL
      /\ OnScreen(s.buffer, s.i, Screen(s.echo))
      /\ Screen(s.echo) \in Terminal
  BY EditedParts
<1>2. e \in Seq(Char) /\ Screen(e) = Display(d, c)
  BY <1>1, ScreenAppend
<1>3. /\ b \in [1 .. LINE_LENGTH -> Char]
      /\ \A k \in 1 .. LINE_LENGTH : b[k] = IF k = i + 1 THEN c ELSE s.buffer[k]
  BY <1>1 DEF Put
<1>4. OnScreen(b, i + 1, Screen(e))
  <2>1. /\ Display(d, c).cursor = i + 1 /\ Display(d, c).cells[i + 1] = c
        /\ \A k \in 1 .. i : Display(d, c).cells[k] = s.buffer[k]
    BY <1>1, Character DEF OnScreen
  <2>2. ASSUME NEW k \in 1 .. i + 1 PROVE Display(d, c).cells[k] = b[k]
    <3> HIDE DEF b
    <3>1. k \in 1 .. LINE_LENGTH
      BY <1>1
    <3>2. CASE k = i + 1
      BY <1>3, <2>1, <3>1, <3>2
    <3>3. CASE k # i + 1
      <4>1. k \in 1 .. i
        BY <1>1, <3>3
      <4> QED
        BY <1>3, <2>1, <3>1, <3>3, <4>1
    <3> QED
      BY <3>2, <3>3
  <2> HIDE DEF b
  <2> QED
    BY <1>2, <2>1, <2>2 DEF OnScreen
<1>5. /\ i + 1 \in 0 .. LINE_LENGTH
      /\ \A k \in 1 .. LINE_LENGTH : k > i + 1 => b[k] = NUL
      /\ \A k \in 1 .. LINE_LENGTH : k <= i + 1 => b[k] # NUL
  <2> HIDE DEF b
  <2>1. i + 1 \in 0 .. LINE_LENGTH
    BY <1>1
  <2>2. ASSUME NEW k \in 1 .. LINE_LENGTH
        PROVE  (k > i + 1 => b[k] = NUL) /\ (k <= i + 1 => b[k] # NUL)
    <3>1. CASE k = i + 1
      BY <1>1, <1>3, <3>1
    <3>2. CASE k # i + 1
      <4>1. (k > i + 1 => k > i) /\ (k <= i + 1 => k <= i)
        BY <1>1, <3>2
      <4> QED
        BY <1>1, <1>3, <3>2, <4>1
    <3> QED
      BY <3>1, <3>2
  <2> QED
    BY <2>1, <2>2
<1>6. r \in Edited
  <2> HIDE DEF b
  <2> HIDE DEF e
  <2> HIDE DEF i
  <2>1. r.buffer = b /\ r.i = i + 1 /\ r.echo = e
    OBVIOUS
  <2>2. r \in [buffer : [1 .. LINE_LENGTH -> Char], i : 0 .. LINE_LENGTH, echo : Seq(Char)]
    BY <1>2, <1>3, <1>5
  <2> HIDE DEF r
  <2> QED
    BY <1>4, <1>5, <2>1, <2>2 DEF Edited
<1> QED
  BY <1>6

(* When the buffer is full, the mark that is shown is behind the line. *)
LEMMA FullEdited ==
  ASSUME NEW s \in Edited
  PROVE  [s EXCEPT !.echo = s.echo \o <<"X", BACKSPACE>>] \in Edited
<1> DEFINE e1 == Append(s.echo, "X")
           e2 == Append(e1, BACKSPACE)
           i == s.i
           d == Screen(s.echo)
           r == [s EXCEPT !.echo = e2]
<1>1. /\ s \in Edited
      /\ s.i \in Nat
      /\ s.echo \in Seq(Char)
      /\ OnScreen(s.buffer, s.i, Screen(s.echo))
      /\ Screen(s.echo) \in Terminal
  BY EditedParts
<1>2. e1 \in Seq(Char) /\ Screen(e1) = Display(d, "X")
  BY <1>1, MarkIsChar, ScreenAppend
<1>3. e2 \in Seq(Char) /\ Screen(e2) = Display(Screen(e1), BACKSPACE)
  <2> HIDE DEF e1
  <2> QED
    BY <1>2, Characters, ScreenAppend
<1>4. s.echo \o <<"X", BACKSPACE>> = e2
  <2>1. Len(s.echo) \in Nat
    BY <1>1, LenProperties
  <2>2. e1 \in Seq(Char) /\ Len(e1) = Len(s.echo) + 1
    BY <1>1, MarkIsChar, AppendProperties
  <2>3. Len(e2) = Len(e1) + 1
    <3> HIDE DEF e1
    <3> QED
      BY <2>2, Characters, AppendProperties
  <2> QED
    BY <1>1, <1>3
<1>5. OnScreen(s.buffer, i, Screen(e2))
  <2>1. d.cursor = i /\ \A k \in 1 .. i : d.cells[k] = s.buffer[k]
    BY <1>1 DEF OnScreen
  <2>2. /\ Screen(e1) \in Terminal /\ Screen(e1).cursor = i + 1
        /\ \A k \in 1 .. i : Screen(e1).cells[k] = d.cells[k]
    <3> HIDE DEF e1
    <3>1. /\ Display(d, "X") \in Terminal /\ Display(d, "X").cursor = d.cursor + 1
          /\ \A k \in 1 .. d.cursor : Display(d, "X").cells[k] = d.cells[k]
      BY <1>1, MarkIsChar, Character
    <3> QED
      BY <1>2, <2>1, <3>1
  <2>3. /\ Screen(e2).cells = Screen(e1).cells
        /\ Screen(e2).cursor = i
    <3> HIDE DEF e1
    <3> HIDE DEF e2
    <3>1. Screen(e1).cursor > 0 /\ (i + 1) - 1 = i
      BY <1>1, <2>2
    <3> QED
      BY <1>3, <2>2, <3>1, Backspace
  <2> HIDE DEF e1
  <2> HIDE DEF e2
  <2> QED
    BY <2>1, <2>2, <2>3 DEF OnScreen
<1>6. r \in Edited
  <2> HIDE DEF e2
  <2>1. s \in [buffer : [1 .. LINE_LENGTH -> Char], i : 0 .. LINE_LENGTH, echo : Seq(Char)]
    BY DEF Edited
  <2>2. r.buffer = s.buffer /\ r.i = s.i /\ r.echo = e2
        /\ r \in [buffer : [1 .. LINE_LENGTH -> Char], i : 0 .. LINE_LENGTH, echo : Seq(Char)]
    BY <1>3, <2>1
  <2> HIDE DEF r
  <2>3. /\ \A k \in 1 .. LINE_LENGTH : k > s.i => s.buffer[k] = NUL
        /\ \A k \in 1 .. LINE_LENGTH : k <= s.i => s.buffer[k] # NUL
    BY EditedParts
  <2> QED
    BY <1>5, <2>2, <2>3 DEF Edited
<1> QED
  BY <1>4, <1>6

LEMMA OneKey ==
  ASSUME NEW s \in Edited, NEW c \in Char, c # NUL
  PROVE  Key(s, c) \in Edited
<1>1. CASE c = BACKSPACE
  <2>1. c # ESCAPE
    BY <1>1 DEF BACKSPACE, ESCAPE
  <2>2. Key(s, c) = Rubout(s)
    BY <1>1, <2>1 DEF Key
  <2> QED
    BY <2>2, RuboutEdited
<1>2. CASE c # BACKSPACE /\ c = ESCAPE
  BY <1>2 DEF Key
<1>3. CASE c # BACKSPACE /\ c # ESCAPE /\ s.i < LINE_LENGTH
  <2>1. Key(s, c) = [buffer |-> Put(s.buffer, s.i + 1, c), i |-> s.i + 1,
                     echo   |-> Append(s.echo, c)]
    BY <1>3 DEF Key
  <2> QED
    BY <1>3, <2>1, PutEdited
<1>4. CASE c # BACKSPACE /\ c # ESCAPE /\ ~(s.i < LINE_LENGTH)
  <2>1. Key(s, c) = [s EXCEPT !.echo = s.echo \o <<"X", BACKSPACE>>]
    BY <1>4 DEF Key
  <2> QED
    BY <2>1, FullEdited
<1> QED
  BY <1>1, <1>2, <1>3, <1>4

KeyStep == [p \in Edited \X (Char \ {NUL}) |-> Key(p[1], p[2])]

LEMMA KeyEdited == KeyStep \in [Edited \X (Char \ {NUL}) -> Edited]
<1> SUFFICES ASSUME NEW p \in Edited \X (Char \ {NUL}) PROVE Key(p[1], p[2]) \in Edited
  BY DEF KeyStep
<1>1. p[1] \in Edited /\ p[2] \in Char /\ p[2] # NUL
  OBVIOUS
<1> QED
  BY <1>1, OneKey

(* Whatever keys are typed, the buffer is what the screen shows. *)
LEMMA LineEdited ==
  ASSUME NEW keys \in Seq(Char \ {NUL})
  PROVE  console_getline(keys) \in Edited
<1> DEFINE Keyed(f) == f = [n \in 0 .. Len(keys) |-> IF n = 0 THEN Cleared
                                              ELSE Key(f[n - 1], keys[n])]
           g == CHOOSE f : Keyed(f)
<1>1. Len(keys) \in Nat
  BY LenProperties
<1>2. \E f : Keyed(f)
  <2>1. PICK f \in [0 .. Len(keys) -> Edited] : Runs(f, Edited, KeyStep, Cleared, keys)
    BY KeyEdited, ClearedEdited, RunExists
  <2>2. ASSUME NEW n \in 0 .. Len(keys)
        PROVE  f[n] = IF n = 0 THEN Cleared ELSE Key(f[n - 1], keys[n])
    <3>1. CASE n = 0
      BY <2>1, <3>1 DEF Runs
    <3>2. CASE n # 0
      <4>1. n \in 1 .. Len(keys) /\ n - 1 \in 0 .. Len(keys)
        BY <1>1, <3>2
      <4>2. f[n - 1] \in Edited /\ keys[n] \in Char \ {NUL}
        BY <4>1, ElementOfSeq
      <4>3. f[n] = KeyStep[<<f[n - 1], keys[n]>>]
        BY <2>1, <4>1, <4>2 DEF Runs
      <4> QED
        BY <3>2, <4>2, <4>3 DEF KeyStep
    <3> QED
      BY <3>1, <3>2
  <2>3. f = [n \in 0 .. Len(keys) |-> f[n]]
    OBVIOUS
  <2> QED
    BY <2>2, <2>3
<1>3. Keyed(g)
  BY <1>2
<1>4. console_getline(keys) = g[Len(keys)]
  BY Zenon DEF console_getline
<1> HIDE DEF g
<1>5. Runs(g, Edited, KeyStep, Cleared, keys)
  <2>1. g[0] = Cleared
    BY <1>1, <1>3
  <2>2. ASSUME NEW n \in 1 .. Len(keys), g[n - 1] \in Edited
        PROVE  g[n] = KeyStep[<<g[n - 1], keys[n]>>]
    <3>1. n \in 0 .. Len(keys) /\ n # 0 /\ keys[n] \in Char \ {NUL}
      BY <1>1, ElementOfSeq
    <3>2. g[n] = Key(g[n - 1], keys[n])
      BY <1>3, <3>1
    <3> QED
      BY <2>2, <3>1, <3>2 DEF KeyStep
  <2> QED
    BY <2>1, <2>2 DEF Runs
<1>6. \A n \in 0 .. Len(keys) : g[n] \in Edited
  BY <1>5, KeyEdited, ClearedEdited, RunTyped, Zenon
<1> QED
  BY <1>1, <1>4, <1>6

-----------------------------------------------------------------------------
(* The text in memory *)

(* The memory begins with the text and its end. *)
Holds(memory, text) ==
  /\ memory \in Seq(Char)
  /\ text \in Seq(Char \ {NUL})
  /\ Len(text) + 1 \in 1 .. Len(memory)
  /\ \A k \in 1 .. Len(text) : memory[k] = text[k]
  /\ memory[Len(text) + 1] = NUL

LEMMA EditedText ==
  ASSUME NEW s \in Edited
  PROVE  /\ SubSeq(s.buffer, 1, s.i) \in Seq(Char \ {NUL})
         /\ Len(SubSeq(s.buffer, 1, s.i)) = s.i
         /\ \A k \in 1 .. s.i : SubSeq(s.buffer, 1, s.i)[k] = s.buffer[k]
         /\ SubSeq(Screen(s.echo).cells, 1, Screen(s.echo).cursor) = SubSeq(s.buffer, 1, s.i)
<1> DEFINE t == SubSeq(s.buffer, 1, s.i)
           d == Screen(s.echo)
           u == SubSeq(d.cells, 1, d.cursor)
<1>1. /\ s.buffer \in [1 .. LINE_LENGTH -> Char]
      /\ s.i \in Nat /\ s.i <= LINE_LENGTH /\ LINE_LENGTH \in Nat
      /\ \A k \in 1 .. LINE_LENGTH : k <= s.i => s.buffer[k] # NUL
      /\ OnScreen(s.buffer, s.i, d)
      /\ d \in Terminal
  BY EditedParts
<1>2. s.buffer \in Seq(Char) /\ Len(s.buffer) = LINE_LENGTH
  BY <1>1
<1>3. /\ t \in Seq(Char) /\ Len(t) = s.i
      /\ \A k \in 1 .. s.i : t[k] = s.buffer[k]
  BY <1>1, <1>2
<1>4. /\ u \in Seq(Char) /\ Len(u) = s.i
      /\ \A k \in 1 .. s.i : u[k] = d.cells[k]
  <2>1. d.cells \in Seq(Char) /\ d.cursor = s.i /\ d.cursor <= Len(d.cells)
    BY <1>1 DEF Terminal, OnScreen
  <2> HIDE DEF d
  <2> QED
    BY <1>1, <2>1
<1>5. t \in Seq(Char \ {NUL})
  <2>1. \A k \in 1 .. s.i : t[k] \in Char \ {NUL}
    <3> SUFFICES ASSUME NEW k \in 1 .. s.i PROVE t[k] \in Char \ {NUL}
      OBVIOUS
    <3>1. k \in 1 .. LINE_LENGTH /\ k <= s.i
      BY <1>1
    <3> HIDE DEF t
    <3> QED
      BY <1>1, <1>3, <3>1
  <2>2. t = [k \in 1 .. s.i |-> t[k]]
    <3>1. DOMAIN t = 1 .. s.i
      BY <1>1, <1>3, LenProperties
    <3> HIDE DEF t
    <3> QED
      BY <1>1, <1>3, <3>1, LenProperties
  <2> HIDE DEF t
  <2>3. t \in [1 .. s.i -> Char \ {NUL}]
    BY <2>1, <2>2
  <2> QED
    BY <1>1, <2>3
<1>6. u = t
  <2>1. \A k \in 1 .. s.i : u[k] = t[k]
    <3> HIDE DEF t
    <3> HIDE DEF u
    <3> QED
      BY <1>1, <1>3, <1>4 DEF OnScreen
  <2> HIDE DEF t
  <2> HIDE DEF u
  <2> QED
    BY <1>1, <1>3, <1>4, <2>1, SeqEqual
<1> QED
  BY <1>3, <1>5, <1>6

LEMMA MemoryHolds ==
  ASSUME NEW s \in Edited, s.i < LINE_LENGTH, NEW bytes \in Seq(Char)
  PROVE  Holds(s.buffer \o bytes, SubSeq(s.buffer, 1, s.i))
<1> DEFINE t == SubSeq(s.buffer, 1, s.i)
           m == s.buffer \o bytes
<1>1. /\ s.buffer \in [1 .. LINE_LENGTH -> Char]
      /\ s.i \in Nat /\ LINE_LENGTH \in Nat
      /\ \A k \in 1 .. LINE_LENGTH : k > s.i => s.buffer[k] = NUL
  BY EditedParts
<1>2. s.buffer \in Seq(Char) /\ Len(s.buffer) = LINE_LENGTH
  BY <1>1
<1>3. t \in Seq(Char \ {NUL}) /\ Len(t) = s.i /\ \A k \in 1 .. s.i : t[k] = s.buffer[k]
  BY EditedText
<1>4. /\ m \in Seq(Char) /\ Len(m) = LINE_LENGTH + Len(bytes) /\ Len(bytes) \in Nat
      /\ \A k \in 1 .. LINE_LENGTH : m[k] = s.buffer[k]
  <2>1. Len(bytes) \in Nat
    BY LenProperties
  <2>2. /\ m \in Seq(Char) /\ Len(m) = LINE_LENGTH + Len(bytes)
        /\ \A k \in 1 .. LINE_LENGTH + Len(bytes) :
             m[k] = IF k <= LINE_LENGTH THEN s.buffer[k] ELSE bytes[k - LINE_LENGTH]
    BY <1>2, ConcatProperties
  <2>3. \A k \in 1 .. LINE_LENGTH : k \in 1 .. LINE_LENGTH + Len(bytes) /\ k <= LINE_LENGTH
    BY <1>1, <2>1
  <2> HIDE DEF m
  <2> QED
    BY <2>1, <2>2, <2>3
<1> HIDE DEF t
<1> HIDE DEF m
<1>5. Len(t) + 1 \in 1 .. Len(m)
  BY <1>1, <1>3, <1>4
<1>6. \A k \in 1 .. Len(t) : m[k] = t[k]
  BY <1>1, <1>3, <1>4
<1>7. m[Len(t) + 1] = NUL
  <2>1. s.i + 1 \in 1 .. LINE_LENGTH /\ s.i + 1 > s.i
    BY <1>1
  <2> QED
    BY <1>1, <1>3, <1>4, <2>1
<1>8. Holds(m, t)
  BY <1>3, <1>4, <1>5, <1>6, <1>7 DEF Holds
<1> QED
  BY <1>8 DEF m, t

LEMMA HoldsParts ==
  ASSUME NEW memory, NEW text, Holds(memory, text)
  PROVE  /\ Len(text) \in Nat /\ Len(memory) \in Nat /\ Len(text) + 1 <= Len(memory)
         /\ DOMAIN text = 1 .. Len(text)
         /\ \A k \in 1 .. Len(text) : text[k] \in Char /\ text[k] # NUL
         /\ \A k \in 1 .. Len(text) : memory[k] = text[k]
         /\ memory[Len(text) + 1] = NUL
<1>1. /\ memory \in Seq(Char) /\ text \in Seq(Char \ {NUL}) /\ Len(text) + 1 \in 1 .. Len(memory)
  BY DEF Holds
<1>2. /\ Len(text) \in Nat /\ Len(memory) \in Nat /\ DOMAIN text = 1 .. Len(text)
  BY <1>1, LenProperties
<1>3. \A k \in 1 .. Len(text) : text[k] \in Char \ {NUL}
  BY <1>1, ElementOfSeq
<1> QED
  BY <1>1, <1>2, <1>3 DEF Holds

(* A loop over characters of a set that NUL is not in stops in the text or at
   its end. *)
LEMMA Skips ==
  ASSUME NEW memory, NEW text, Holds(memory, text), NEW set, NUL \notin set,
         NEW pos \in 1 .. Len(text) + 1
  PROVE  /\ SkipWhile(set, memory, pos) \in pos .. Len(text) + 1
         /\ memory[SkipWhile(set, memory, pos)] \notin set
         /\ \A q \in pos .. SkipWhile(set, memory, pos) - 1 : memory[q] \in set
<1> DEFINE S == {p \in pos .. Len(memory) : memory[p] \notin set}
           p == Min(S)
<1>1. Len(text) \in Nat /\ Len(memory) \in Nat /\ Len(text) + 1 <= Len(memory)
      /\ memory[Len(text) + 1] = NUL
  BY HoldsParts
<1>2. Len(text) + 1 \in S
  BY <1>1
<1>3. S \in SUBSET Nat /\ S # {}
  BY <1>1, <1>2
<1>4. p \in S /\ \A q \in S : p <= q
  <2> HIDE DEF S
  <2> QED
    BY <1>3, MinIsLeast
<1>5. SkipWhile(set, memory, pos) = p
  BY DEF SkipWhile
<1> HIDE DEF p
<1>6. p \in pos .. Len(text) + 1
  BY <1>1, <1>2, <1>4
<1>7. \A q \in pos .. p - 1 : memory[q] \in set
  BY <1>1, <1>4, <1>6
<1> QED
  BY <1>4, <1>5, <1>6, <1>7

LEMMA SkipsTo ==
  ASSUME NEW memory, NEW text, Holds(memory, text), NEW set, NUL \notin set,
         NEW pos \in 1 .. Len(text) + 1, NEW p \in pos .. Len(text) + 1,
         memory[p] \notin set, \A q \in pos .. p - 1 : memory[q] \in set
  PROVE  SkipWhile(set, memory, pos) = p
<1> DEFINE r == SkipWhile(set, memory, pos)
<1>1. /\ r \in pos .. Len(text) + 1 /\ memory[r] \notin set
      /\ \A q \in pos .. r - 1 : memory[q] \in set
  BY Skips
<1> HIDE DEF r
<1>2. Len(text) \in Nat
  BY HoldsParts
<1>3. ~(r < p) /\ ~(p < r)
  BY <1>1, <1>2
<1>4. r = p
  BY <1>1, <1>2, <1>3
<1> QED
  BY <1>4 DEF r

(* The word that begins at a position *)
LEMMA WordEnds ==
  ASSUME NEW memory, NEW text, Holds(memory, text), NEW i \in 1 .. Len(text),
         text[i] # SPACE
  PROVE  LET e == EndOf(text, i) IN
         /\ e \in i .. Len(text)
         /\ \A q \in i .. e : text[q] # SPACE
         /\ memory[e + 1] \in {SPACE, NUL}
         /\ e < Len(text) => text[e + 1] = SPACE
<1> DEFINE S == {j \in i .. Len(text) : j = Len(text) \/ text[j + 1] = SPACE}
           e == Min(S)
<1>1. Len(text) \in Nat /\ (\A k \in 1 .. Len(text) : memory[k] = text[k])
      /\ memory[Len(text) + 1] = NUL
  BY HoldsParts
<1>2. Len(text) \in S /\ S \in SUBSET Nat
  BY <1>1
<1>3. e \in S /\ \A q \in S : e <= q
  <2>1. S # {}
    BY <1>2
  <2> HIDE DEF S
  <2> QED
    BY <1>2, <2>1, MinIsLeast
<1>4. EndOf(text, i) = e
  BY DEF EndOf
<1> HIDE DEF e
<1>5. e \in i .. Len(text) /\ (e = Len(text) \/ text[e + 1] = SPACE) /\ e \in Nat
  BY <1>1, <1>3
<1>6. ASSUME NEW q \in i .. e PROVE text[q] # SPACE
  <2>1. CASE q = i
    BY <2>1
  <2>2. CASE q # i
    <3>1. q - 1 \in i .. Len(text) /\ ~(e <= q - 1) /\ (q - 1) + 1 = q
      BY <1>5, <2>2
    <3>2. q - 1 \notin S
      BY <1>3, <3>1
    <3> QED
      BY <3>1, <3>2
  <2> QED
    BY <2>1, <2>2
<1>7. memory[e + 1] \in {SPACE, NUL}
  <2>1. CASE e = Len(text)
    BY <1>1, <2>1
  <2>2. CASE e # Len(text)
    <3>1. e + 1 \in 1 .. Len(text) /\ text[e + 1] = SPACE
      BY <1>1, <1>5, <2>2
    <3> QED
      BY <1>1, <3>1
  <2> QED
    BY <2>1, <2>2
<1>8. e < Len(text) => text[e + 1] = SPACE
  BY <1>1, <1>5
<1> QED
  BY <1>4, <1>5, <1>6, <1>7, <1>8

LEMMA WordIs ==
  ASSUME NEW memory, NEW text, Holds(memory, text), NEW i \in 1 .. Len(text),
         NEW e \in i .. Len(text), NEW set
  PROVE  /\ Is(SubSeq(text, i, e), set) <=> \A q \in i .. e : text[q] \in set
         /\ SubSeq(memory, i, e) = SubSeq(text, i, e)
<1>1. /\ Len(text) \in Nat /\ Len(memory) \in Nat /\ Len(text) + 1 <= Len(memory)
      /\ \A k \in 1 .. Len(text) : memory[k] = text[k]
  BY HoldsParts
<1>2. memory \in Seq(Char) /\ text \in Seq(Char)
  BY DEF Holds
<1> DEFINE w == SubSeq(text, i, e)
<1>3. i \in Nat /\ e \in Nat /\ i <= e /\ e <= Len(text) /\ 1 <= i /\ e - i + 1 \in Nat
  BY <1>1
<1>4. /\ w \in Seq(Char) /\ Len(w) = e - i + 1
      /\ \A k \in 1 .. e - i + 1 : w[k] = text[i + k - 1]
  BY <1>2, <1>3
<1>5. DOMAIN w = 1 .. e - i + 1
  <2> HIDE DEF w
  <2> QED
    BY <1>4, LenProperties
<1>6. SubSeq(memory, i, e) = w
  <2> DEFINE v == SubSeq(memory, i, e)
  <2>1. /\ v \in Seq(Char) /\ Len(v) = e - i + 1
        /\ \A k \in 1 .. e - i + 1 : v[k] = memory[i + k - 1]
    BY <1>1, <1>2, <1>3
  <2> HIDE DEF v
  <2> HIDE DEF w
  <2>2. \A k \in 1 .. e - i + 1 : v[k] = w[k]
    <3> SUFFICES ASSUME NEW k \in 1 .. e - i + 1 PROVE v[k] = w[k]
      OBVIOUS
    <3>1. i + k - 1 \in 1 .. Len(text)
      BY <1>1, <1>3
    <3> QED
      BY <1>1, <1>4, <2>1, <3>1
  <2>3. v = w
    BY <1>4, <2>1, <2>2, SeqEqual
  <2> QED
    BY <2>3 DEF v
<1> HIDE DEF w
<1>7. ASSUME Is(w, set), NEW q \in i .. e PROVE text[q] \in set
  <2>1. q - i + 1 \in 1 .. e - i + 1 /\ i + (q - i + 1) - 1 = q
    BY <1>3
  <2> QED
    BY <1>4, <1>5, <1>7, <2>1 DEF Is
<1>8. ASSUME \A q \in i .. e : text[q] \in set PROVE Is(w, set)
  <2> SUFFICES ASSUME NEW k \in 1 .. e - i + 1 PROVE w[k] \in set
    BY <1>5 DEF Is
  <2>1. i + k - 1 \in i .. e
    BY <1>3
  <2> QED
    BY <1>4, <1>8, <2>1
<1> QED
  BY <1>6, <1>7, <1>8 DEF w

-----------------------------------------------------------------------------
(* Numbers *)

LEMMA NoDigits == ASSUME NEW b PROVE Number(<<>>, b) = 0
<1> DEFINE IsIt(f) == f = [n \in 0 .. Len(<<>>) |->
                              IF n = 0 THEN 0
                              ELSE (f[n - 1] * b + digit_value(<<>>[n])) % NUMBER_LIMIT]
           g == CHOOSE f : IsIt(f)
<1>1. Len(<<>>) = 0
  BY EmptySeq
<1>2. \E f : IsIt(f)
  <2> DEFINE f == [n \in 0 .. 0 |-> 0]
  <2>1. \A n \in 0 .. Len(<<>>) : n = 0
    BY <1>1
  <2>2. IsIt(f)
    BY <1>1, <2>1
  <2> QED
    BY <2>2
<1>3. IsIt(g)
  BY <1>2
<1>4. Number(<<>>, b) = g[Len(<<>>)]
  BY Zenon DEF Number
<1> HIDE DEF g
<1>5. g[0] = 0
  BY <1>1, <1>3
<1> QED
  BY <1>1, <1>4, <1>5

LEMMA DigitValue ==
  ASSUME NEW b \in 0 .. 36, NEW c \in Digits(b)
  PROVE  digit_value(c) \in Nat
<1>1. \E i \in DOMAIN DIGITS : c \in DIGITS[i]
  <2>1. PICK i \in 1 .. b : c \in DIGITS[i]
    BY DEF Digits
  <2>2. i \in DOMAIN DIGITS
    BY <2>1, DigitsDomain
  <2> QED
    BY <2>1, <2>2
<1> DEFINE i == CHOOSE j \in DOMAIN DIGITS : c \in DIGITS[j]
<1>2. i \in DOMAIN DIGITS
  BY <1>1
<1>3. digit_value(c) = i - 1
  BY Zenon DEF digit_value
<1> HIDE DEF i
<1>4. i \in 1 .. 36
  BY <1>2, DigitsDomain
<1> QED
  BY <1>3, <1>4

(* f[n] is the number that the first n digits say. *)
Sums(f, digits, b) ==
  /\ f[0] = 0
  /\ \A n \in 1 .. Len(digits) : f[n] = f[n - 1] * b + digit_value(digits[n])

LEMMA ValueSums ==
  ASSUME NEW digits, NEW b, Len(digits) \in Nat
  PROVE  \E f : Sums(f, digits, b) /\ Value(digits, b) = f[Len(digits)]
<1> DEFINE next(n, v) == v * b + digit_value(digits[n])
           IsIt(f, k) == f = [n \in 0 .. k |-> IF n = 0 THEN 0 ELSE next(n, f[n - 1])]
           g == CHOOSE f : IsIt(f, Len(digits))
           S == {k \in Nat : \E f : IsIt(f, k)}
<1>1. Value(digits, b) = g[Len(digits)]
  BY Zenon DEF Value
<1> HIDE DEF next
<1>2. 0 \in S
  <2> DEFINE f == [n \in 0 .. 0 |-> 0]
  <2>1. \A n \in 0 .. 0 : n = 0
    OBVIOUS
  <2>2. IsIt(f, 0)
    BY <2>1
  <2> QED
    BY <2>2
<1>3. ASSUME NEW k \in Nat, k \in S PROVE k + 1 \in S
  <2>1. PICK f : IsIt(f, k)
    BY <1>3
  <2> DEFINE y == next(k + 1, f[k])
             h == [n \in 0 .. k + 1 |-> IF n = k + 1 THEN y ELSE f[n]]
  <2>2. \A n \in 0 .. k : f[n] = IF n = 0 THEN 0 ELSE next(n, f[n - 1])
    BY <2>1
  <2>3. h[k + 1] = y /\ (\A n \in 0 .. k : h[n] = f[n]) /\ DOMAIN h = 0 .. k + 1
    <3> HIDE DEF y
    <3> QED
      OBVIOUS
  <2>4. ASSUME NEW n \in 0 .. k + 1
        PROVE  h[n] = IF n = 0 THEN 0 ELSE next(n, h[n - 1])
    <3> HIDE DEF h
    <3>1. CASE n = 0
      BY <2>2, <2>3, <3>1
    <3>2. CASE n \in 1 .. k
      <4>1. n \in 0 .. k /\ n - 1 \in 0 .. k /\ n # 0
        BY <3>2
      <4>2. h[n] = f[n] /\ h[n - 1] = f[n - 1]
        BY <2>3, <4>1
      <4>3. f[n] = next(n, f[n - 1])
        BY <2>2, <4>1
      <4> QED
        BY <4>1, <4>2, <4>3, Zenon
    <3>3. CASE n = k + 1
      <4>1. n # 0 /\ n - 1 = k /\ k \in 0 .. k
        BY <3>3
      <4>2. h[n] = y /\ h[n - 1] = f[k]
        BY <2>3, <3>3, <4>1
      <4> QED
        BY <3>3, <4>1, <4>2, Zenon
    <3>4. n = 0 \/ n \in 1 .. k \/ n = k + 1
      OBVIOUS
    <3> QED
      BY <3>1, <3>2, <3>3, <3>4
  <2>5. h = [n \in 0 .. k + 1 |-> h[n]]
    <3> HIDE DEF y
    <3> QED
      OBVIOUS
  <2> HIDE DEF h
  <2>6. IsIt(h, k + 1)
    BY <2>4, <2>5
  <2> QED
    BY <2>6
<1>4. Len(digits) \in S
  <2>1. Nat \subseteq S
    <3> HIDE DEF S
    <3> QED
      BY <1>2, <1>3, Induction
  <2> QED
    BY <2>1
<1>5. IsIt(g, Len(digits))
  BY <1>4
<1> HIDE DEF g
<1>6. g[0] = 0
  BY <1>5
<1>7. ASSUME NEW n \in 1 .. Len(digits)
      PROVE  g[n] = g[n - 1] * b + digit_value(digits[n])
  <2>1. n \in 0 .. Len(digits) /\ n # 0
    OBVIOUS
  <2>2. g[n] = next(n, g[n - 1])
    BY <1>5, <2>1
  <2> QED
    BY <2>2 DEF next
<1>8. Sums(g, digits, b)
  BY <1>6, <1>7 DEF Sums
<1> QED
  BY <1>1, <1>8

(* The sums grow: each is at most the whole number. *)
LEMMA SumsGrow ==
  ASSUME NEW digits \in Seq(Char), NEW b \in {10, 16}, Is(digits, Digits(b)),
         NEW f, Sums(f, digits, b)
  PROVE  /\ \A n \in 1 .. Len(digits) : digit_value(digits[n]) \in Nat
         /\ \A n \in 0 .. Len(digits) : f[n] \in Nat /\ f[n] <= f[Len(digits)]
<1>1. Len(digits) \in Nat /\ DOMAIN digits = 1 .. Len(digits) /\ b \in 0 .. 36
  BY LenProperties
<1>2. \A n \in 1 .. Len(digits) : digit_value(digits[n]) \in Nat
  BY <1>1, DigitValue DEF Is
<1> DEFINE S == {n \in Nat : n <= Len(digits) => f[n] \in Nat}
           T == {n \in Nat : n <= Len(digits) => f[Len(digits) - n] <= f[Len(digits)]}
<1>3. 0 \in S
  BY DEF Sums
<1>4. ASSUME NEW n \in Nat, n \in S PROVE n + 1 \in S
  <2> SUFFICES ASSUME n + 1 <= Len(digits) PROVE f[n + 1] \in Nat
    OBVIOUS
  <2>1. n + 1 \in 1 .. Len(digits) /\ (n + 1) - 1 = n /\ f[n] \in Nat
    BY <1>1, <1>4
  <2>2. f[n + 1] = f[n] * b + digit_value(digits[n + 1]) /\ digit_value(digits[n + 1]) \in Nat
    BY <1>2, <2>1 DEF Sums
  <2>3. CASE b = 10
    BY <2>1, <2>2, <2>3
  <2>4. CASE b = 16
    BY <2>1, <2>2, <2>4
  <2> QED
    BY <2>3, <2>4
<1>5. Nat \subseteq S
  <2> HIDE DEF S
  <2> QED
    BY <1>3, <1>4, Induction
<1>6. \A n \in 0 .. Len(digits) : f[n] \in Nat
  BY <1>1, <1>5
<1>7. 0 \in T
  BY <1>1, <1>6
<1>8. ASSUME NEW n \in Nat, n \in T PROVE n + 1 \in T
  <2> SUFFICES ASSUME n + 1 <= Len(digits) PROVE f[Len(digits) - (n + 1)] <= f[Len(digits)]
    OBVIOUS
  <2> DEFINE m == Len(digits) - n
  <2>1. /\ m \in 1 .. Len(digits) /\ m \in 0 .. Len(digits) /\ m - 1 \in 0 .. Len(digits)
        /\ Len(digits) - (n + 1) = m - 1 /\ Len(digits) \in 0 .. Len(digits)
    BY <1>1
  <2>2. f[m] <= f[Len(digits)]
    BY <1>1, <1>8
  <2> HIDE DEF m
  <2>3. f[m] = f[m - 1] * b + digit_value(digits[m]) /\ digit_value(digits[m]) \in Nat
    BY <1>2, <2>1 DEF Sums
  <2>4. f[m] \in Nat /\ f[m - 1] \in Nat /\ f[Len(digits)] \in Nat
    BY <1>6, <2>1
  <2>5. f[m - 1] <= f[m]
    <3>1. CASE b = 10
      BY <2>3, <2>4, <3>1
    <3>2. CASE b = 16
      BY <2>3, <2>4, <3>2
    <3> QED
      BY <3>1, <3>2
  <2>6. f[m - 1] <= f[Len(digits)]
    BY <2>2, <2>4, <2>5
  <2> QED
    BY <2>1, <2>6
<1>9. Nat \subseteq T
  <2> HIDE DEF T
  <2> QED
    BY <1>7, <1>8, Induction
<1>10. ASSUME NEW n \in 0 .. Len(digits) PROVE f[n] <= f[Len(digits)]
  <2>1. Len(digits) - n \in Nat /\ Len(digits) - n <= Len(digits) /\ Len(digits) - (Len(digits) - n) = n
    BY <1>1
  <2> QED
    BY <1>9, <2>1
<1> QED
  BY <1>2, <1>6, <1>10

(* A number that fits is read as it is. *)
LEMMA NumberIsValue ==
  ASSUME NEW digits \in Seq(Char), NEW b \in {10, 16}, Is(digits, Digits(b))
  PROVE  /\ Value(digits, b) \in Nat
         /\ Value(digits, b) < NUMBER_LIMIT => Number(digits, b) = Value(digits, b)
<1>1. Len(digits) \in Nat /\ NUMBER_LIMIT \in Nat \ {0}
  BY LineInputAssumption
<1>2. PICK f : Sums(f, digits, b) /\ Value(digits, b) = f[Len(digits)]
  BY <1>1, ValueSums
<1>3. /\ \A n \in 1 .. Len(digits) : digit_value(digits[n]) \in Nat
      /\ \A n \in 0 .. Len(digits) : f[n] \in Nat /\ f[n] <= f[Len(digits)]
  BY <1>2, SumsGrow
<1>4. Value(digits, b) \in Nat
  BY <1>1, <1>2, <1>3
<1>5. ASSUME Value(digits, b) < NUMBER_LIMIT PROVE Number(digits, b) = Value(digits, b)
  <2> DEFINE next(n, v) == (v * b + digit_value(digits[n])) % NUMBER_LIMIT
             IsIt(h) == h = [n \in 0 .. Len(digits) |-> IF n = 0 THEN 0 ELSE next(n, h[n - 1])]
             g == CHOOSE h : IsIt(h)
             i == [n \in 0 .. Len(digits) |-> f[n]]
  <2>1. Number(digits, b) = g[Len(digits)]
    BY Zenon DEF Number
  <2>2. ASSUME NEW n \in 1 .. Len(digits) PROVE f[n] = next(n, f[n - 1])
    <3>1. n \in 0 .. Len(digits) /\ n - 1 \in 0 .. Len(digits)
      OBVIOUS
    <3>2. f[n] \in Nat /\ f[n] < NUMBER_LIMIT
      BY <1>1, <1>2, <1>3, <1>4, <1>5, <3>1
    <3>3. f[n] % NUMBER_LIMIT = f[n]
      BY <1>1, <3>2
    <3>4. f[n] = f[n - 1] * b + digit_value(digits[n])
      BY <1>2 DEF Sums
    <3> QED
      BY <3>3, <3>4, Zenon
  <2> HIDE DEF next
  <2>3. IsIt(i)
    <3>1. ASSUME NEW n \in 0 .. Len(digits)
          PROVE  f[n] = IF n = 0 THEN 0 ELSE next(n, i[n - 1])
      <4>1. CASE n = 0
        BY <1>2, <4>1 DEF Sums
      <4>2. CASE n # 0
        <5>1. n \in 1 .. Len(digits) /\ n - 1 \in 0 .. Len(digits)
          BY <4>2
        <5>2. i[n - 1] = f[n - 1]
          BY <5>1
        <5> HIDE DEF i
        <5> QED
          BY <2>2, <4>2, <5>1, <5>2, Zenon
      <4> QED
        BY <4>1, <4>2
    <3>2. [n \in 0 .. Len(digits) |-> f[n]]
            = [n \in 0 .. Len(digits) |-> IF n = 0 THEN 0 ELSE next(n, i[n - 1])]
      <4> HIDE DEF i
      <4> QED
        BY <3>1, Zenon
    <3> QED
      BY <3>2
  <2>4. IsIt(g)
    <3> HIDE DEF IsIt
    <3> HIDE DEF i
    <3> QED
      BY <2>3
  <2> HIDE DEF g
  <2>5. \A n \in 0 .. Len(digits) : g[n] = IF n = 0 THEN 0 ELSE next(n, g[n - 1])
    BY <2>4, Zenon
  <2> HIDE DEF IsIt
  <2> DEFINE S == {n \in Nat : n <= Len(digits) => g[n] = f[n]}
  <2>6. 0 \in S
    BY <1>1, <1>2, <2>5 DEF Sums
  <2>7. ASSUME NEW n \in Nat, n \in S PROVE n + 1 \in S
    <3> SUFFICES ASSUME n + 1 <= Len(digits) PROVE g[n + 1] = f[n + 1]
      OBVIOUS
    <3>1. n + 1 \in 1 .. Len(digits) /\ n + 1 \in 0 .. Len(digits) /\ n + 1 # 0 /\ (n + 1) - 1 = n
      BY <1>1
    <3>2. g[n] = f[n]
      BY <1>1, <2>7
    <3>3. g[n + 1] = next(n + 1, g[n])
      BY <2>5, <3>1
    <3>4. f[n + 1] = next(n + 1, f[n])
      BY <2>2, <3>1
    <3> QED
      BY <3>2, <3>3, <3>4
  <2>8. Nat \subseteq S
    <3> HIDE DEF S
    <3> QED
      BY <2>6, <2>7, Induction
  <2>9. g[Len(digits)] = f[Len(digits)]
    BY <1>1, <2>8
  <2> QED
    BY <1>2, <2>1, <2>9
<1> QED
  BY <1>4, <1>5

(* A blank or the end of the line, where a number should be, is the number 0. *)
LEMMA NothingParsed ==
  ASSUME NEW memory, NEW text, Holds(memory, text), NEW b \in 0 .. 36,
         NEW pos \in 1 .. Len(text) + 1, memory[pos] \in {SPACE, NUL}
  PROVE  parse_int(memory, pos, b) = [ok |-> TRUE, pos |-> pos, value |-> 0]
<1>1. NUL \notin Digits(b) /\ SPACE \notin Digits(b)
  BY NotAlnum
<1>2. Len(text) \in Nat /\ pos \in pos .. Len(text) + 1 /\ pos \in Nat
  BY HoldsParts
<1>3. \A q \in pos .. pos - 1 : memory[q] \in Digits(b)
  BY <1>2
<1>4. memory[pos] \notin Digits(b)
  BY <1>1
<1>5. SkipWhile(Digits(b), memory, pos) = pos
  BY <1>1, <1>2, <1>3, <1>4, SkipsTo
<1>6. SubSeq(memory, pos, pos - 1) = <<>>
  <2>1. memory \in Seq(Char)
    BY DEF Holds
  <2> QED
    BY <1>2, <2>1
<1> QED
  BY <1>5, <1>6, NoDigits DEF parse_int

(* Something else that is no digit is no number. *)
LEMMA NotParsed ==
  ASSUME NEW memory, NEW text, Holds(memory, text), NEW b \in 0 .. 36,
         NEW pos \in 1 .. Len(text) + 1, memory[pos] \notin isalnum \cup {SPACE, NUL}
  PROVE  ~parse_int(memory, pos, b).ok
<1>1. NUL \notin Digits(b) /\ memory[pos] \notin Digits(b)
  BY NotAlnum
<1>2. Len(text) \in Nat /\ pos \in pos .. Len(text) + 1 /\ pos \in Nat
  BY HoldsParts
<1>3. \A q \in pos .. pos - 1 : memory[q] \in Digits(b)
  BY <1>2
<1>4. SkipWhile(Digits(b), memory, pos) = pos
  BY <1>1, <1>2, <1>3, SkipsTo
<1>5. parse_int(memory, pos, b) = [ok |-> FALSE, pos |-> pos, value |-> 0]
  BY <1>4 DEF parse_int
<1> QED
  BY <1>5

(* A word is a number if it is made of digits. *)
LEMMA WordParsed ==
  ASSUME NEW memory, NEW text, Holds(memory, text), NEW b \in 0 .. 36,
         NEW i \in 1 .. Len(text), text[i] # SPACE
  PROVE  LET e    == EndOf(text, i)
             word == SubSeq(text, i, e)
         IN  IF Is(word, Digits(b))
             THEN parse_int(memory, i, b) = [ok |-> TRUE, pos |-> e + 1, value |-> Number(word, b)]
             ELSE ~parse_int(memory, i, b).ok
<1> DEFINE e == EndOf(text, i)
           word == SubSeq(text, i, e)
<1>1. NUL \notin Digits(b) /\ SPACE \notin Digits(b)
  BY NotAlnum
<1>2. /\ e \in i .. Len(text) /\ (\A q \in i .. e : text[q] # SPACE)
      /\ memory[e + 1] \in {SPACE, NUL}
  BY WordEnds
<1> HIDE DEF e
<1>3. /\ Len(text) \in Nat /\ \A k \in 1 .. Len(text) : memory[k] = text[k] /\ text[k] # NUL
  BY HoldsParts
<1>4. /\ Is(word, Digits(b)) <=> \A q \in i .. e : text[q] \in Digits(b)
      /\ SubSeq(memory, i, e) = word
  BY <1>2, WordIs
<1> HIDE DEF word
<1>5. i \in 1 .. Len(text) + 1 /\ e + 1 \in i .. Len(text) + 1 /\ (e + 1) - 1 = e
  BY <1>2, <1>3
<1>6. CASE Is(word, Digits(b))
  <2>1. ASSUME NEW q \in i .. e PROVE memory[q] \in Digits(b)
    <3>1. q \in 1 .. Len(text)
      BY <1>2, <1>3
    <3> QED
      BY <1>3, <1>4, <1>6, <3>1
  <2>2. memory[e + 1] \notin Digits(b)
    BY <1>1, <1>2
  <2>3. SkipWhile(Digits(b), memory, i) = e + 1
    BY <1>1, <1>5, <2>1, <2>2, SkipsTo
  <2>4. parse_int(memory, i, b) = [ok |-> TRUE, pos |-> e + 1, value |-> Number(word, b)]
    BY <1>2, <1>4, <1>5, <2>3 DEF parse_int
  <2> QED
    BY <1>6, <2>4 DEF word, e
<1>7. CASE ~Is(word, Digits(b))
  <2> DEFINE p == SkipWhile(Digits(b), memory, i)
  <2>1. /\ p \in i .. Len(text) + 1 /\ memory[p] \notin Digits(b)
        /\ \A q \in i .. p - 1 : memory[q] \in Digits(b)
    BY <1>1, <1>5, Skips
  <2>2. p \in i .. e
    <3>1. PICK q \in i .. e : text[q] \notin Digits(b)
      BY <1>4, <1>7
    <3>2. memory[q] \notin Digits(b) /\ q \in i .. Len(text) + 1
      BY <1>2, <1>3, <3>1
    <3> HIDE DEF p
    <3>3. ~(q <= p - 1)
      BY <2>1, <3>2
    <3> QED
      BY <1>2, <1>3, <2>1, <3>3
  <2>3. memory[p] \notin {SPACE, NUL}
    <3> HIDE DEF p
    <3>1. p \in 1 .. Len(text)
      BY <1>2, <1>3, <2>2
    <3> QED
      BY <1>2, <1>3, <2>2, <3>1
  <2>4. parse_int(memory, i, b) = [ok |-> FALSE, pos |-> i, value |-> 0]
    BY <2>3 DEF parse_int
  <2>5. ~parse_int(memory, i, b).ok
    BY <2>4
  <2> QED
    BY <1>7, <2>5 DEF word, e
<1> QED
  BY <1>6, <1>7

-----------------------------------------------------------------------------
(* Words *)

Rank(text, i) == Cardinality({j \in Begins(text) : j <= i})

LEMMA BeginsFinite ==
  ASSUME NEW memory, NEW text, Holds(memory, text)
  PROVE  /\ IsFiniteSet(Begins(text)) /\ Cardinality(Begins(text)) \in Nat
         /\ Begins(text) \subseteq 1 .. Len(text)
         /\ \A i \in Begins(text) : text[i] # SPACE
         /\ \A i \in Nat : /\ IsFiniteSet({j \in Begins(text) : j <= i})
                           /\ Rank(text, i) \in Nat
                           /\ Rank(text, i) <= Cardinality(Begins(text))
<1>1. Len(text) \in Nat /\ DOMAIN text = 1 .. Len(text)
  BY HoldsParts
<1>2. Begins(text) \subseteq 1 .. Len(text) /\ \A i \in Begins(text) : text[i] # SPACE
  BY <1>1 DEF Begins
<1>3. IsFiniteSet(1 .. Len(text))
  BY <1>1, FS_Interval
<1>4. IsFiniteSet(Begins(text)) /\ Cardinality(Begins(text)) \in Nat
  BY <1>2, <1>3, FS_Subset, FS_CardinalityType
<1>5. ASSUME NEW i \in Nat
      PROVE  /\ IsFiniteSet({j \in Begins(text) : j <= i}) /\ Rank(text, i) \in Nat
             /\ Rank(text, i) <= Cardinality(Begins(text))
  <2> DEFINE T == {j \in Begins(text) : j <= i}
  <2>1. T \in SUBSET Begins(text)
    OBVIOUS
  <2>2. IsFiniteSet(T) /\ Cardinality(T) \in Nat /\ Cardinality(T) <= Cardinality(Begins(text))
    <3> HIDE DEF T
    <3> QED
      BY <1>4, <2>1, FS_Subset, FS_CardinalityType
  <2> QED
    BY <2>2 DEF Rank
<1> QED
  BY <1>2, <1>4, <1>5

(* Of two words, the later one has the higher rank. *)
LEMMA RankGrows ==
  ASSUME NEW memory, NEW text, Holds(memory, text),
         NEW i \in Begins(text), NEW k \in Begins(text), i < k
  PROVE  Rank(text, i) # Rank(text, k)
<1> DEFINE T == {j \in Begins(text) : j <= i}
           U == {j \in Begins(text) : j <= k}
<1>1. /\ Begins(text) \subseteq 1 .. Len(text) /\ Len(text) \in Nat
  BY BeginsFinite, HoldsParts
<1>2. i \in Nat /\ k \in Nat
  BY <1>1
<1>3. IsFiniteSet(U) /\ IsFiniteSet(T)
  BY <1>2, BeginsFinite
<1>4. T \subseteq U /\ T # U
  <2>1. k \in U /\ k \notin T
    BY <1>2
  <2>2. T \subseteq U
    BY <1>1, <1>2
  <2> QED
    BY <2>1, <2>2
<1>5. Cardinality(T) # Cardinality(U)
  <2> HIDE DEF T
  <2> HIDE DEF U
  <2> QED
    BY <1>3, <1>4, FS_Subset, FS_CardinalityType
<1> QED
  BY <1>5 DEF Rank

LEMMA NthIs ==
  ASSUME NEW memory, NEW text, Holds(memory, text), NEW i \in Begins(text)
  PROVE  /\ Nth(text, Rank(text, i)) = i
         /\ Rank(text, i) \in 1 .. Cardinality(Begins(text))
<1>1. /\ Begins(text) \subseteq 1 .. Len(text) /\ Len(text) \in Nat
  BY BeginsFinite, HoldsParts
<1>2. i \in Nat
  BY <1>1
<1> DEFINE P(k) == Cardinality({j \in Begins(text) : j <= k}) = Rank(text, i)
           c == CHOOSE k \in Begins(text) : P(k)
<1>3. Nth(text, Rank(text, i)) = c
  BY DEF Nth
<1>4. c \in Begins(text) /\ Rank(text, c) = Rank(text, i)
  <2>1. P(i)
    BY DEF Rank
  <2>2. c \in Begins(text) /\ P(c)
    <3> HIDE DEF P
    <3> QED
      BY <2>1
  <2> HIDE DEF c
  <2> QED
    BY <2>2 DEF Rank
<1> HIDE DEF c
<1>5. ~(c < i) /\ ~(i < c)
  BY <1>4, RankGrows
<1>6. c \in Nat
  BY <1>1, <1>4
<1>7. c = i
  BY <1>2, <1>5, <1>6
<1>8. Rank(text, i) # 0
  <2> DEFINE T == {j \in Begins(text) : j <= i}
  <2>1. i \in T /\ IsFiniteSet(T)
    BY <1>2, BeginsFinite
  <2>2. Cardinality(T) # 0
    <3> HIDE DEF T
    <3> QED
      BY <2>1, FS_EmptySet
  <2> QED
    BY <2>2 DEF Rank
<1>9. /\ Rank(text, i) \in Nat /\ Rank(text, i) <= Cardinality(Begins(text))
      /\ Cardinality(Begins(text)) \in Nat
  BY <1>2, BeginsFinite
<1> QED
  BY <1>3, <1>7, <1>8, <1>9

(* The word numbered k begins at pos, or there are fewer and pos is the end. *)
Starts(text, pos, k) ==
  \/ pos \in Begins(text) /\ Rank(text, pos) = k
  \/ pos = Len(text) + 1 /\ Cardinality(Begins(text)) = k - 1

LEMMA FirstWord ==
  ASSUME NEW memory, NEW text, Holds(memory, text), text # <<>>, text[1] # SPACE
  PROVE  1 \in Begins(text) /\ Rank(text, 1) = 1 /\ Nth(text, 1) = 1 /\ 1 \in 1 .. Len(text)
         /\ 1 \in 1 .. Cardinality(Begins(text))
<1>1. Len(text) \in Nat /\ DOMAIN text = 1 .. Len(text)
  BY HoldsParts
<1>2. Len(text) # 0
  <2>1. text \in Seq(Char \ {NUL})
    BY DEF Holds
  <2> QED
    BY <2>1, EmptySeq
<1>3. 1 \in 1 .. Len(text)
  BY <1>1, <1>2
<1>4. 1 \in Begins(text)
  BY <1>1, <1>3 DEF Begins
<1>5. Begins(text) \subseteq 1 .. Len(text)
  BY BeginsFinite
<1>6. {j \in Begins(text) : j <= 1} = {1}
  BY <1>1, <1>4, <1>5
<1>7. Rank(text, 1) = 1
  BY <1>6, FS_Singleton DEF Rank
<1> QED
  BY <1>3, <1>4, <1>7, NthIs

(* After a word and the blanks that follow it comes the next. *)
LEMMA NextWord ==
  ASSUME NEW memory, NEW text, Holds(memory, text), NEW i \in Begins(text)
  PROVE  Starts(text, SkipWhile({SPACE}, memory, EndOf(text, i) + 1), Rank(text, i) + 1)
<1> DEFINE e == EndOf(text, i)
           p == SkipWhile({SPACE}, memory, e + 1)
           T == {j \in Begins(text) : j <= i}
<1>1. /\ Len(text) \in Nat /\ DOMAIN text = 1 .. Len(text)
      /\ \A k \in 1 .. Len(text) : memory[k] = text[k]
      /\ memory[Len(text) + 1] = NUL
  BY HoldsParts
<1>2. /\ Begins(text) \subseteq 1 .. Len(text) /\ text[i] # SPACE
  BY BeginsFinite
<1>3. i \in 1 .. Len(text)
  BY <1>2
<1>4. /\ e \in i .. Len(text) /\ (\A q \in i .. e : text[q] # SPACE)
      /\ e < Len(text) => text[e + 1] = SPACE
  BY <1>2, <1>3, WordEnds
<1> HIDE DEF e
<1>5. /\ p \in e + 1 .. Len(text) + 1 /\ memory[p] # SPACE
      /\ \A q \in e + 1 .. p - 1 : memory[q] = SPACE
  <2>1. NUL \notin {SPACE}
    BY Characters
  <2>2. e + 1 \in 1 .. Len(text) + 1
    BY <1>1, <1>3, <1>4
  <2>3. /\ p \in e + 1 .. Len(text) + 1 /\ memory[p] \notin {SPACE}
        /\ \A q \in e + 1 .. p - 1 : memory[q] \in {SPACE}
    BY <2>1, <2>2, Skips
  <2> HIDE DEF p
  <2> QED
    BY <2>3
<1> HIDE DEF p
<1>6. ASSUME NEW j \in Begins(text), j < p PROVE j <= i
  <2>1. j \in 1 .. Len(text) /\ text[j] # SPACE /\ (j = 1 \/ text[j - 1] = SPACE)
    BY <1>1 DEF Begins
  <2>2. CASE j \in i + 1 .. e
    <3>1. j # 1 /\ j - 1 \in i .. e
      BY <1>1, <1>3, <1>4, <2>2
    <3> QED
      BY <1>4, <2>1, <3>1
  <2>3. CASE j \in e + 1 .. p - 1
    BY <1>1, <1>5, <2>1, <2>3
  <2>4. j <= i \/ j \in i + 1 .. e \/ j \in e + 1 .. p - 1
    BY <1>1, <1>3, <1>4, <1>5, <1>6, <2>1
  <2> QED
    BY <2>2, <2>3, <2>4
<1>7. IsFiniteSet(T) /\ Cardinality(T) = Rank(text, i) /\ Rank(text, i) \in Nat
  <2>1. i \in Nat
    BY <1>3
  <2> QED
    BY <2>1, BeginsFinite DEF Rank
<1>8. CASE p = Len(text) + 1
  <2>1. T = Begins(text)
    <3>1. \A j \in Begins(text) : j < p
      BY <1>1, <1>2, <1>8
    <3> QED
      BY <1>6, <3>1
  <2>2. Cardinality(Begins(text)) = (Rank(text, i) + 1) - 1
    <3> HIDE DEF T
    <3>1. Cardinality(Begins(text)) = Rank(text, i)
      BY <1>7, <2>1
    <3> QED
      BY <1>7, <3>1
  <2> QED
    BY <1>8, <2>2 DEF Starts, p, e
<1>9. CASE p # Len(text) + 1
  <2>1. p \in 1 .. Len(text) /\ e \in 1 .. Len(text) /\ p > i /\ p \in Nat
    BY <1>1, <1>3, <1>4, <1>5, <1>9
  <2>2. text[p] # SPACE
    BY <1>1, <1>5, <2>1
  <2>3. text[p - 1] = SPACE
    <3>1. CASE p = e + 1
      BY <1>1, <1>4, <1>5, <2>1, <2>2, <3>1
    <3>2. CASE p # e + 1
      <4>1. p - 1 \in e + 1 .. p - 1 /\ p - 1 \in 1 .. Len(text)
        BY <1>1, <1>5, <2>1, <3>2
      <4> QED
        BY <1>1, <1>5, <4>1
    <3> QED
      BY <3>1, <3>2
  <2>4. p \in Begins(text)
    BY <1>1, <2>1, <2>2, <2>3 DEF Begins
  <2>5. {j \in Begins(text) : j <= p} = T \cup {p}
    <3>1. \A j \in Begins(text) : j \in Nat
      BY <1>2
    <3>2. \A j \in Begins(text) : j <= p <=> j <= i \/ j = p
      <4> SUFFICES ASSUME NEW j \in Begins(text) PROVE j <= p <=> j <= i \/ j = p
        OBVIOUS
      <4>1. j \in Nat /\ i \in Nat /\ (j < p => j <= i)
        BY <1>3, <1>6, <3>1
      <4> QED
        BY <2>1, <4>1
    <3> QED
      BY <2>4, <3>2
  <2>6. p \notin T
    BY <1>3, <2>1
  <2>7. Cardinality(T \cup {p}) = Cardinality(T) + 1
    <3> HIDE DEF T
    <3> QED
      BY <1>7, <2>6, FS_AddElement
  <2>8. Rank(text, p) = Rank(text, i) + 1
    <3> HIDE DEF T
    <3> QED
      BY <1>7, <2>5, <2>7 DEF Rank
  <2> QED
    BY <2>4, <2>8 DEF Starts, p, e
<1> QED
  BY <1>8, <1>9

-----------------------------------------------------------------------------
(* Commands *)

(* The words after the key, up to k of them, are numbers. *)
Numerals(text, k) ==
  /\ Cardinality(Begins(text)) >= k + 1
  /\ \A m \in 1 .. k : Is(Words(text)[m + 1], Digits(BASE))

Arguments(text, k) == [m \in 1 .. k |-> Number(Words(text)[m + 1], BASE)]

(* The word that begins at pos *)
LEMMA WordAt ==
  ASSUME NEW memory, NEW text, Holds(memory, text), NEW pos \in Begins(text)
  PROVE  Words(text)[Rank(text, pos)] = SubSeq(text, pos, EndOf(text, pos))
<1>1. /\ Nth(text, Rank(text, pos)) = pos
      /\ Rank(text, pos) \in 1 .. Cardinality(Begins(text))
  BY NthIs
<1> QED
  BY <1>1, Zenon DEF Words

LEMMA ArgumentsAppend ==
  ASSUME NEW text, NEW k \in Nat
  PROVE  /\ Arguments(text, k + 1)
              = Append(Arguments(text, k), Number(Words(text)[k + 2], BASE))
         /\ Arguments(text, 0) = <<>>
<1> DEFINE value(m) == Number(Words(text)[m + 1], BASE)
           V == {value(m) : m \in 1 .. k + 1}
           a == [m \in 1 .. k |-> value(m)]
           c == [m \in 1 .. k + 1 |-> value(m)]
<1>1. a = Arguments(text, k) /\ c = Arguments(text, k + 1)
  BY DEF Arguments
<1>2. a \in [1 .. k -> V] /\ c \in [1 .. k + 1 -> V] /\ value(k + 1) \in V
  <2>1. \A m \in 1 .. k + 1 : value(m) \in V
    <3> HIDE DEF value
    <3> QED
      OBVIOUS
  <2>2. k + 1 \in 1 .. k + 1 /\ 1 .. k \subseteq 1 .. k + 1
    OBVIOUS
  <2> HIDE DEF V
  <2> HIDE DEF value
  <2> QED
    BY <2>1, <2>2
<1>3. (\A m \in 1 .. k : a[m] = c[m]) /\ c[k + 1] = value(k + 1)
  <2> HIDE DEF value
  <2> QED
    OBVIOUS
<1> DEFINE v == value(k + 1)
<1>4. v = Number(Words(text)[k + 2], BASE)
  <2>1. (k + 1) + 1 = k + 2
    OBVIOUS
  <2> QED
    BY <2>1
<1>5. c = Append(a, v)
  <2> HIDE DEF a
  <2> HIDE DEF c
  <2> HIDE DEF V
  <2> HIDE DEF v
  <2>1. a \in Seq(V) /\ Len(a) = k /\ c \in Seq(V) /\ Len(c) = k + 1 /\ v \in V
    BY <1>2 DEF v
  <2>2. /\ Append(a, v) \in Seq(V) /\ Len(Append(a, v)) = k + 1
        /\ \A m \in 1 .. k : Append(a, v)[m] = a[m]
        /\ Append(a, v)[k + 1] = v
    BY <2>1, AppendProperties
  <2>3. \A m \in 1 .. k + 1 : c[m] = Append(a, v)[m]
    <3> SUFFICES ASSUME NEW m \in 1 .. k + 1 PROVE c[m] = Append(a, v)[m]
      OBVIOUS
    <3>1. m \in 1 .. k \/ m = k + 1
      OBVIOUS
    <3>2. c[k + 1] = v
      BY <1>3 DEF v
    <3> QED
      BY <1>3, <2>2, <3>1, <3>2
  <2> QED
    BY <2>1, <2>2, <2>3, SeqEqual
<1>6. Arguments(text, 0) = <<>>
  <2> DEFINE z == Arguments(text, 0)
  <2>1. z \in [1 .. 0 -> V]
    <3>1. \A m \in 1 .. 0 : FALSE
      OBVIOUS
    <3>2. DOMAIN z = 1 .. 0
      BY DEF Arguments
    <3> QED
      BY <3>1 DEF Arguments
  <2> HIDE DEF z
  <2> HIDE DEF V
  <2>2. z \in Seq(V) /\ Len(z) = 0
    BY <2>1
  <2>3. z = <<>>
    BY <2>2, EmptySeq
  <2> QED
    BY <2>3 DEF z
<1> QED
  BY <1>1, <1>4, <1>5, <1>6

(* What parse_args may hold while it reads a text *)
Parsing(text) ==
  [ok : BOOLEAN, args : {Arguments(text, k) : k \in Nat}, pos : 1 .. Len(text) + 1]

(* A refusal is for good. *)
LEMMA RefusedForGood ==
  ASSUME NEW memory, NEW text, NEW s \in Parsing(text), ~s.ok
  PROVE  Argument(memory, s) \in Parsing(text) /\ ~Argument(memory, s).ok
<1>1. Argument(memory, s) = [s EXCEPT !.ok = FALSE]
  BY DEF Argument
<1>2. [s EXCEPT !.ok = FALSE] \in Parsing(text) /\ ~[s EXCEPT !.ok = FALSE].ok
  <2> DEFINE A == {Arguments(text, k) : k \in Nat}
             P == 1 .. Len(text) + 1
  <2>1. s \in [ok : BOOLEAN, args : A, pos : P]
    BY DEF Parsing
  <2> HIDE DEF A
  <2> HIDE DEF P
  <2>2. [s EXCEPT !.ok = FALSE] \in [ok : BOOLEAN, args : A, pos : P]
    BY <2>1
  <2>3. ~[s EXCEPT !.ok = FALSE].ok
    BY <2>1
  <2> QED
    BY <2>2, <2>3 DEF Parsing, A, P
<1> QED
  BY <1>1, <1>2

(* The word at pos, which is the one numbered k + 2, is the argument numbered
   k + 1. *)
LEMMA OneArgument ==
  ASSUME NEW memory, NEW text, Holds(memory, text), NEW k \in Nat,
         NEW t \in Parsing(text), t.ok, t.args = Arguments(text, k),
         Starts(text, t.pos, k + 2)
  PROVE  /\ Argument(memory, t) \in Parsing(text)
         /\ IF /\ Cardinality(Begins(text)) >= k + 2
               /\ Is(Words(text)[k + 2], Digits(BASE))
            THEN /\ Argument(memory, t).ok
                 /\ Argument(memory, t).args = Arguments(text, k + 1)
                 /\ Starts(text, Argument(memory, t).pos, k + 3)
            ELSE ~Argument(memory, t).ok
<1> DEFINE pos == t.pos
           s == Argument(memory, t)
           number == parse_int(memory, pos, BASE)
           no == [t EXCEPT !.ok = FALSE]
           A == {Arguments(text, n) : n \in Nat}
           P == 1 .. Len(text) + 1
<1>0. t \in [ok : BOOLEAN, args : A, pos : P] /\ Parsing(text) = [ok : BOOLEAN, args : A, pos : P]
  BY DEF Parsing
<1>1. /\ Len(text) \in Nat /\ DOMAIN text = 1 .. Len(text)
      /\ \A m \in 1 .. Len(text) : memory[m] = text[m] /\ text[m] # NUL
      /\ memory[Len(text) + 1] = NUL
  BY HoldsParts
<1>2. Cardinality(Begins(text)) \in Nat
  BY BeginsFinite
<1>3. no \in Parsing(text) /\ ~no.ok
  <2> HIDE DEF A
  <2> HIDE DEF P
  <2>1. no \in [ok : BOOLEAN, args : A, pos : P]
    BY <1>0
  <2> QED
    BY <1>0, <2>1
<1>4. s = IF memory[pos] = NUL \/ ~number.ok THEN no
          ELSE [t EXCEPT !.args = Append(@, number.value),
                         !.pos = SkipWhile({SPACE}, memory, number.pos)]
  BY Zenon DEF Argument
<1>5. CASE pos \in Begins(text) /\ Rank(text, pos) = k + 2
  <2> DEFINE e == EndOf(text, pos)
             word == SubSeq(text, pos, e)
             q == SkipWhile({SPACE}, memory, e + 1)
             b == Append(t.args, Number(word, BASE))
  <2>1. /\ Words(text)[k + 2] = word /\ Cardinality(Begins(text)) >= k + 2
    <3>1. Rank(text, pos) \in 1 .. Cardinality(Begins(text))
      BY <1>5, NthIs
    <3>2. Words(text)[Rank(text, pos)] = word
      BY <1>5, WordAt
    <3> QED
      BY <1>2, <1>5, <3>1, <3>2
  <2>2. pos \in 1 .. Len(text) /\ text[pos] # SPACE
    BY <1>5, BeginsFinite
  <2>3. memory[pos] # NUL
    BY <1>1, <2>2
  <2>4. Starts(text, q, k + 3)
    <3>1. Starts(text, q, Rank(text, pos) + 1)
      BY <1>5, NextWord
    <3>2. Rank(text, pos) + 1 = k + 3
      BY <1>5
    <3> QED
      BY <3>1, <3>2
  <2>5. BASE \in 0 .. 36
    BY NotAlnum
  <2>6. IF Is(word, Digits(BASE))
        THEN number = [ok |-> TRUE, pos |-> e + 1, value |-> Number(word, BASE)]
        ELSE ~number.ok
    BY <2>2, <2>5, WordParsed
  <2>7. b = Arguments(text, k + 1) /\ k + 1 \in Nat
    <3>1. Arguments(text, k + 1)
            = Append(Arguments(text, k), Number(Words(text)[k + 2], BASE))
      BY ArgumentsAppend
    <3> HIDE DEF word
    <3>2. b = Append(Arguments(text, k), Number(Words(text)[k + 2], BASE))
      BY <2>1, Zenon
    <3> QED
      BY <3>1, <3>2
  <2>8. q \in P
    BY <1>1, <2>4, BeginsFinite DEF Starts
  <2> HIDE DEF number
  <2> HIDE DEF word
  <2>9. CASE Is(word, Digits(BASE))
    <3>1. number.ok /\ number.pos = e + 1 /\ number.value = Number(word, BASE)
      BY <2>6, <2>9
    <3>2. s = [t EXCEPT !.args = b, !.pos = q]
      BY <1>4, <2>3, <3>1, Zenon
    <3>3. b \in A
      BY <2>7
    <3> HIDE DEF s
    <3> HIDE DEF b
    <3> HIDE DEF q
    <3> HIDE DEF A
    <3> HIDE DEF P
    <3>4. s \in [ok : BOOLEAN, args : A, pos : P]
      BY <1>0, <2>8, <3>2, <3>3
    <3>5. s.ok = t.ok /\ s.args = b /\ s.pos = q
      BY <1>0, <2>8, <3>2, <3>3
    <3>6. s \in Parsing(text) /\ s.ok /\ s.args = Arguments(text, k + 1) /\ Starts(text, s.pos, k + 3)
      BY <1>0, <2>4, <2>7, <3>4, <3>5
    <3> QED
      BY <2>1, <2>9, <3>6 DEF s
  <2>10. CASE ~Is(word, Digits(BASE))
    <3>1. s = no
      BY <1>4, <2>6, <2>10
    <3> HIDE DEF no
    <3> HIDE DEF s
    <3>2. s \in Parsing(text) /\ ~s.ok
      BY <1>3, <3>1
    <3> QED
      BY <2>1, <2>10, <3>2 DEF s
  <2> QED
    BY <2>9, <2>10
<1>6. CASE pos = Len(text) + 1 /\ Cardinality(Begins(text)) = (k + 2) - 1
  <2>1. memory[pos] = NUL
    BY <1>1, <1>6
  <2>2. s = no
    BY <1>4, <2>1
  <2>3. ~(Cardinality(Begins(text)) >= k + 2)
    BY <1>6
  <2> HIDE DEF no
  <2> HIDE DEF s
  <2>4. s \in Parsing(text) /\ ~s.ok
    BY <1>3, <2>2
  <2> QED
    BY <2>3, <2>4 DEF s
<1> QED
  BY <1>5, <1>6 DEF Starts

(* The key and what follows it *)
LEMMA AfterKeyStarts ==
  ASSUME NEW memory, NEW text, Holds(memory, text), text # <<>>, text[1] # SPACE
  PROVE  /\ AfterKey(memory) \in 1 .. Len(text) + 1
         /\ Is(Words(text)[1], isalnum) => Starts(text, AfterKey(memory), 2)
         /\ ~Is(Words(text)[1], isalnum) =>
              memory[AfterKey(memory)] \notin isalnum \cup {SPACE, NUL}
<1> DEFINE e == EndOf(text, 1)
           p == SkipWhile(isalnum, memory, 1)
           q == SkipWhile({SPACE}, memory, p)
           word == SubSeq(text, 1, e)
<1>1. /\ 1 \in Begins(text) /\ Rank(text, 1) = 1 /\ 1 \in 1 .. Len(text)
      /\ Words(text)[1] = word
  <2>1. 1 \in Begins(text) /\ Rank(text, 1) = 1 /\ 1 \in 1 .. Len(text)
    BY FirstWord
  <2>2. Words(text)[Rank(text, 1)] = word
    BY <2>1, WordAt
  <2> QED
    BY <2>1, <2>2
<1>2. /\ Len(text) \in Nat
      /\ \A m \in 1 .. Len(text) : memory[m] = text[m] /\ text[m] # NUL
  BY HoldsParts
<1>3. /\ e \in 1 .. Len(text) /\ (\A n \in 1 .. e : text[n] # SPACE)
      /\ memory[e + 1] \in {SPACE, NUL}
  BY <1>1, WordEnds
<1>4. Is(word, isalnum) <=> \A n \in 1 .. e : text[n] \in isalnum
  BY <1>1, <1>3, WordIs
<1>5. NUL \notin isalnum /\ SPACE \notin isalnum /\ NUL \notin {SPACE}
  BY NotAlnum, Characters
<1>6. 1 \in 1 .. Len(text) + 1
  BY <1>1, <1>2
<1>7. /\ p \in 1 .. Len(text) + 1 /\ memory[p] \notin isalnum
      /\ \A n \in 1 .. p - 1 : memory[n] \in isalnum
  BY <1>5, <1>6, Skips
<1>8. q \in 1 .. Len(text) + 1
  <2> HIDE DEF p
  <2>1. q \in p .. Len(text) + 1
    BY <1>5, <1>7, Skips
  <2> HIDE DEF q
  <2> QED
    BY <1>2, <1>7, <2>1
<1>9. AfterKey(memory) = q
  BY DEF AfterKey
<1> HIDE DEF e
<1>10. ASSUME Is(word, isalnum) PROVE Starts(text, q, 2)
  <2> HIDE DEF word
  <2>1. ASSUME NEW n \in 1 .. (e + 1) - 1 PROVE memory[n] \in isalnum
    <3>1. n \in 1 .. e /\ n \in 1 .. Len(text)
      BY <1>2, <1>3
    <3> QED
      BY <1>2, <1>4, <1>10, <3>1
  <2>2. e + 1 \in 1 .. Len(text) + 1 /\ memory[e + 1] \notin isalnum
    BY <1>2, <1>3, <1>5
  <2>3. p = e + 1
    BY <1>5, <1>6, <2>1, <2>2, SkipsTo
  <2>4. Starts(text, SkipWhile({SPACE}, memory, e + 1), Rank(text, 1) + 1)
    BY <1>1, NextWord DEF e
  <2>5. Rank(text, 1) + 1 = 2
    BY <1>1
  <2> HIDE DEF p
  <2> QED
    BY <2>3, <2>4, <2>5
<1>11. ASSUME ~Is(word, isalnum) PROVE memory[q] \notin isalnum \cup {SPACE, NUL}
  <2> HIDE DEF word
  <2>1. PICK n \in 1 .. e : text[n] \notin isalnum
    BY <1>4, <1>11
  <2> HIDE DEF p
  <2>2. p \in 1 .. e
    <3>1. n \in 1 .. Len(text) /\ memory[n] \notin isalnum
      BY <1>2, <1>3, <2>1
    <3>2. ~(n <= p - 1)
      BY <1>7, <3>1
    <3> QED
      BY <1>2, <1>3, <1>7, <2>1, <3>2
  <2>3. memory[p] \notin isalnum \cup {SPACE, NUL}
    <3>1. p \in 1 .. Len(text)
      BY <1>2, <1>3, <2>2
    <3> QED
      BY <1>2, <1>3, <1>7, <2>2, <3>1
  <2>4. q = p
    <3>1. \A m \in p .. p - 1 : memory[m] \in {SPACE}
      BY <1>7
    <3>2. p \in p .. Len(text) + 1 /\ memory[p] \notin {SPACE}
      BY <1>7, <2>3
    <3> QED
      BY <1>5, <1>7, <3>1, <3>2, SkipsTo
  <2> HIDE DEF q
  <2> QED
    BY <2>3, <2>4
<1> QED
  BY <1>1, <1>8, <1>9, <1>10, <1>11, Zenon

(* The function parse_args is made of *)
ParsedBy(f, memory, n) ==
  /\ f[0] = [ok |-> TRUE, args |-> <<>>, pos |-> AfterKey(memory)]
  /\ \A k \in 1 .. n : f[k] = Argument(memory, f[k - 1])

LEMMA ParseArgs ==
  ASSUME NEW memory, NEW n \in Nat
  PROVE  \E f : ParsedBy(f, memory, n) /\ parse_args(memory, n) = f[n]
<1> DEFINE first == [ok |-> TRUE, args |-> <<>>, pos |-> AfterKey(memory)]
           IsIt(f, k) == f = [arg \in 0 .. k |-> IF arg = 0 THEN first ELSE Argument(memory, f[arg - 1])]
           g == CHOOSE f : IsIt(f, n)
           S == {k \in Nat : \E f : IsIt(f, k)}
<1>1. parse_args(memory, n) = g[n]
  BY Zenon DEF parse_args
<1> HIDE DEF first
<1>2. 0 \in S
  <2> DEFINE f == [arg \in 0 .. 0 |-> first]
  <2>1. \A arg \in 0 .. 0 : arg = 0
    OBVIOUS
  <2>2. IsIt(f, 0)
    BY <2>1
  <2> QED
    BY <2>2
<1>3. ASSUME NEW k \in Nat, k \in S PROVE k + 1 \in S
  <2>1. PICK f : IsIt(f, k)
    BY <1>3
  <2> DEFINE y == Argument(memory, f[k])
             h == [arg \in 0 .. k + 1 |-> IF arg = k + 1 THEN y ELSE f[arg]]
  <2>2. \A arg \in 0 .. k : f[arg] = IF arg = 0 THEN first ELSE Argument(memory, f[arg - 1])
    BY <2>1
  <2>3. h[k + 1] = y /\ (\A arg \in 0 .. k : h[arg] = f[arg]) /\ DOMAIN h = 0 .. k + 1
    <3> HIDE DEF y
    <3> QED
      OBVIOUS
  <2>4. ASSUME NEW arg \in 0 .. k + 1
        PROVE  h[arg] = IF arg = 0 THEN first ELSE Argument(memory, h[arg - 1])
    <3> HIDE DEF h
    <3>1. CASE arg = 0
      BY <2>2, <2>3, <3>1
    <3>2. CASE arg \in 1 .. k
      <4>1. arg \in 0 .. k /\ arg - 1 \in 0 .. k /\ arg # 0
        BY <3>2
      <4>2. h[arg] = f[arg] /\ h[arg - 1] = f[arg - 1]
        BY <2>3, <4>1
      <4>3. f[arg] = Argument(memory, f[arg - 1])
        BY <2>2, <4>1
      <4> QED
        BY <4>1, <4>2, <4>3, Zenon
    <3>3. CASE arg = k + 1
      <4>1. arg # 0 /\ arg - 1 = k /\ k \in 0 .. k
        BY <3>3
      <4>2. h[arg] = y /\ h[arg - 1] = f[k]
        BY <2>3, <3>3, <4>1
      <4> QED
        BY <4>1, <4>2, Zenon
    <3>4. arg = 0 \/ arg \in 1 .. k \/ arg = k + 1
      OBVIOUS
    <3> QED
      BY <3>1, <3>2, <3>3, <3>4
  <2>5. h = [arg \in 0 .. k + 1 |-> h[arg]]
    <3> HIDE DEF y
    <3> QED
      OBVIOUS
  <2> HIDE DEF h
  <2>6. IsIt(h, k + 1)
    BY <2>4, <2>5
  <2> QED
    BY <2>6
<1>4. n \in S
  <2>1. Nat \subseteq S
    <3> HIDE DEF S
    <3> QED
      BY <1>2, <1>3, Induction
  <2> QED
    BY <2>1
<1>5. IsIt(g, n)
  BY <1>4
<1> HIDE DEF g
<1>6. g[0] = first
  BY <1>5
<1>7. ASSUME NEW k \in 1 .. n PROVE g[k] = Argument(memory, g[k - 1])
  <2>1. k \in 0 .. n /\ k # 0
    OBVIOUS
  <2> QED
    BY <1>5, <2>1
<1>8. ParsedBy(g, memory, n)
  BY <1>6, <1>7 DEF ParsedBy, first
<1> QED
  BY <1>1, <1>8

(* The arguments are the words after the key. *)
LEMMA ArgumentsRead ==
  ASSUME NEW memory, NEW text, Holds(memory, text), text # <<>>, text[1] # SPACE,
         Is(Words(text)[1], isalnum), NEW n \in Nat, NEW f, ParsedBy(f, memory, n)
  PROVE  IF Numerals(text, n) THEN f[n].ok /\ f[n].args = Arguments(text, n) ELSE ~f[n].ok
<1> DEFINE As(k) == /\ f[k] \in Parsing(text)
                    /\ Numerals(text, k) => /\ f[k].ok /\ f[k].args = Arguments(text, k)
                                           /\ Starts(text, f[k].pos, k + 2)
                    /\ ~Numerals(text, k) => ~f[k].ok
           S == {k \in Nat : k <= n => As(k)}
<1>1. 0 \in S
  <2>1. f[0] = [ok |-> TRUE, args |-> Arguments(text, 0), pos |-> AfterKey(memory)]
    BY ArgumentsAppend DEF ParsedBy
  <2>2. AfterKey(memory) \in 1 .. Len(text) + 1 /\ Starts(text, AfterKey(memory), 2)
    BY AfterKeyStarts
  <2>3. f[0].ok /\ f[0].args = Arguments(text, 0) /\ Starts(text, f[0].pos, 0 + 2)
    BY <2>1, <2>2
  <2>4. f[0] \in Parsing(text)
    BY <2>1, <2>2 DEF Parsing
  <2>5. Numerals(text, 0)
    <3>1. Cardinality(Begins(text)) \in Nat /\ 1 \in 1 .. Cardinality(Begins(text))
      BY BeginsFinite, FirstWord
    <3> QED
      BY <3>1 DEF Numerals
  <2> QED
    BY <2>3, <2>4, <2>5
<1>2. ASSUME NEW k \in Nat, k \in S PROVE k + 1 \in S
  <2> SUFFICES ASSUME k + 1 <= n PROVE As(k + 1)
    OBVIOUS
  <2>1. As(k)
    BY <1>2
  <2>2. f[k + 1] = Argument(memory, f[k])
    <3>1. k + 1 \in 1 .. n /\ (k + 1) - 1 = k
      OBVIOUS
    <3>2. f[k + 1] = Argument(memory, f[(k + 1) - 1])
      BY <3>1 DEF ParsedBy
    <3> QED
      BY <3>1, <3>2
  <2> DEFINE more == /\ Cardinality(Begins(text)) >= k + 2
                     /\ Is(Words(text)[k + 2], Digits(BASE))
  <2>3. Numerals(text, k + 1) <=> Numerals(text, k) /\ more
    <3>1. Cardinality(Begins(text)) \in Nat
      BY BeginsFinite
    <3>2. (k + 1) + 1 = k + 2 /\ k + 1 \in 1 .. k + 1 /\ \A m \in 1 .. k : m \in 1 .. k + 1
      OBVIOUS
    <3>3. \A m \in 1 .. k + 1 : m \in 1 .. k \/ m = k + 1
      OBVIOUS
    <3>4. Cardinality(Begins(text)) >= k + 2 => Cardinality(Begins(text)) >= k + 1
      BY <3>1
    <3>5. (\A m \in 1 .. k + 1 : Is(Words(text)[m + 1], Digits(BASE)))
          <=> /\ \A m \in 1 .. k : Is(Words(text)[m + 1], Digits(BASE))
              /\ Is(Words(text)[k + 2], Digits(BASE))
      BY <3>2, <3>3
    <3>6. Numerals(text, k + 1) <=>
            /\ Cardinality(Begins(text)) >= k + 2
            /\ \A m \in 1 .. k + 1 : Is(Words(text)[m + 1], Digits(BASE))
      BY <3>2, Zenon DEF Numerals
    <3> QED
      BY <3>4, <3>5, <3>6, Zenon DEF Numerals
  <2>4. CASE Numerals(text, k)
    <3>1. /\ f[k] \in Parsing(text) /\ f[k].ok /\ f[k].args = Arguments(text, k)
          /\ Starts(text, f[k].pos, k + 2)
      BY <2>1, <2>4
    <3>2. /\ Argument(memory, f[k]) \in Parsing(text)
          /\ IF more
             THEN /\ Argument(memory, f[k]).ok
                  /\ Argument(memory, f[k]).args = Arguments(text, k + 1)
                  /\ Starts(text, Argument(memory, f[k]).pos, k + 3)
             ELSE ~Argument(memory, f[k]).ok
      BY <3>1, OneArgument, Zenon
    <3>3. (k + 1) + 2 = k + 3
      OBVIOUS
    <3> HIDE DEF more
    <3> QED
      BY <2>2, <2>3, <2>4, <3>2, <3>3, Zenon
  <2>5. CASE ~Numerals(text, k)
    <3>1. f[k] \in Parsing(text) /\ ~f[k].ok
      BY <2>1, <2>5
    <3>2. Argument(memory, f[k]) \in Parsing(text) /\ ~Argument(memory, f[k]).ok
      BY <3>1, RefusedForGood
    <3> HIDE DEF more
    <3> QED
      BY <2>2, <2>3, <2>5, <3>2
  <2> QED
    BY <2>4, <2>5
<1>3. Nat \subseteq S
  <2> HIDE DEF S
  <2> QED
    BY <1>1, <1>2, Induction
<1> QED
  BY <1>3

(* With a key that is no word of its own a command takes no argument. *)
LEMMA NoArguments ==
  ASSUME NEW memory, NEW text, Holds(memory, text), text # <<>>, text[1] # SPACE,
         ~Is(Words(text)[1], isalnum), NEW n \in Nat \ {0}, NEW f, ParsedBy(f, memory, n)
  PROVE  ~f[n].ok
<1> DEFINE S == {k \in Nat : k + 1 <= n => f[k + 1] \in Parsing(text) /\ ~f[k + 1].ok}
<1>1. ASSUME NEW k \in Nat, k + 1 <= n PROVE f[k + 1] = Argument(memory, f[k])
  <2>1. k + 1 \in 1 .. n /\ (k + 1) - 1 = k
    BY <1>1
  <2>2. f[k + 1] = Argument(memory, f[(k + 1) - 1])
    BY <2>1 DEF ParsedBy
  <2> QED
    BY <2>1, <2>2
<1>2. 0 \in S
  <2> DEFINE t == [ok |-> TRUE, args |-> Arguments(text, 0), pos |-> AfterKey(memory)]
  <2>1. f[0] = t
    BY ArgumentsAppend DEF ParsedBy
  <2>2. /\ AfterKey(memory) \in 1 .. Len(text) + 1
        /\ memory[AfterKey(memory)] \notin isalnum \cup {SPACE, NUL}
    BY AfterKeyStarts
  <2>3. f[0] \in Parsing(text) /\ f[0].pos = AfterKey(memory)
    BY <2>1, <2>2 DEF Parsing
  <2>4. ~parse_int(memory, f[0].pos, BASE).ok
    BY <2>2, <2>3, NotAlnum, NotParsed
  <2>5. Argument(memory, f[0]) = [f[0] EXCEPT !.ok = FALSE]
    BY <2>4, Zenon DEF Argument
  <2>6. [f[0] EXCEPT !.ok = FALSE] \in Parsing(text) /\ ~[f[0] EXCEPT !.ok = FALSE].ok
    <3> DEFINE A == {Arguments(text, k) : k \in Nat}
               P == 1 .. Len(text) + 1
    <3>1. f[0] \in [ok : BOOLEAN, args : A, pos : P]
      BY <2>3 DEF Parsing
    <3> HIDE DEF A
    <3> HIDE DEF P
    <3>2. [f[0] EXCEPT !.ok = FALSE] \in [ok : BOOLEAN, args : A, pos : P]
      BY <3>1
    <3>3. ~[f[0] EXCEPT !.ok = FALSE].ok
      BY <3>1
    <3> QED
      BY <3>2, <3>3 DEF Parsing, A, P
  <2>7. 0 + 1 = 1 /\ 0 + 1 <= n
    OBVIOUS
  <2>8. f[0 + 1] = Argument(memory, f[0])
    BY <1>1, <2>7
  <2> QED
    BY <2>5, <2>6, <2>7, <2>8
<1>3. ASSUME NEW k \in Nat, k \in S PROVE k + 1 \in S
  <2> SUFFICES ASSUME (k + 1) + 1 <= n
               PROVE  f[(k + 1) + 1] \in Parsing(text) /\ ~f[(k + 1) + 1].ok
    OBVIOUS
  <2>1. f[k + 1] \in Parsing(text) /\ ~f[k + 1].ok
    BY <1>3
  <2>2. f[(k + 1) + 1] = Argument(memory, f[k + 1])
    BY <1>1
  <2>3. Argument(memory, f[k + 1]) \in Parsing(text) /\ ~Argument(memory, f[k + 1]).ok
    BY <2>1, RefusedForGood
  <2> QED
    BY <2>2, <2>3
<1>4. n - 1 \in S
  <2>1. Nat \subseteq S
    <3> HIDE DEF S
    <3> QED
      BY <1>2, <1>3, Induction
  <2> QED
    BY <2>1
<1>5. (n - 1) + 1 = n
  OBVIOUS
<1>6. f[(n - 1) + 1] \in Parsing(text) /\ ~f[(n - 1) + 1].ok
  BY <1>4, <1>5
<1> QED
  BY <1>5, <1>6

-----------------------------------------------------------------------------
(* Lines *)

LEMMA NumberRead ==
  ASSUME NEW memory, NEW text, Holds(memory, text), NEW b \in 0 .. 36
  PROVE  (IF parse_int(memory, 1, b).ok THEN <<parse_int(memory, 1, b).value>> ELSE NOTHING)
         = IF text = <<>> \/ text[1] = SPACE THEN <<0>>
           ELSE IF Is(Words(text)[1], Digits(b)) THEN <<Number(Words(text)[1], b)>>
           ELSE NOTHING
<1> DEFINE number == parse_int(memory, 1, b)
<1>1. /\ Len(text) \in Nat /\ memory[Len(text) + 1] = NUL
      /\ \A m \in 1 .. Len(text) : memory[m] = text[m]
  BY HoldsParts
<1>2. 1 \in 1 .. Len(text) + 1
  BY <1>1
<1>3. CASE text = <<>> \/ text[1] = SPACE
  <2>1. memory[1] \in {SPACE, NUL}
    <3>1. CASE Len(text) = 0
      BY <1>1, <3>1
    <3>2. CASE Len(text) # 0
      <4>1. 1 \in 1 .. Len(text) /\ text # <<>>
        BY <1>1, <3>2, EmptySeq
      <4> QED
        BY <1>1, <1>3, <4>1
    <3> QED
      BY <3>1, <3>2
  <2>2. number = [ok |-> TRUE, pos |-> 1, value |-> 0]
    BY <1>2, <2>1, NothingParsed
  <2>3. number.ok /\ number.value = 0
    BY <2>2
  <2> HIDE DEF number
  <2>4. (IF number.ok THEN <<number.value>> ELSE NOTHING) = <<0>>
    BY <2>3
  <2> QED
    BY <1>3, <2>4, Zenon DEF number
<1>4. CASE ~(text = <<>> \/ text[1] = SPACE)
  <2> DEFINE e == EndOf(text, 1)
             word == SubSeq(text, 1, e)
  <2>1. 1 \in Begins(text) /\ Rank(text, 1) = 1 /\ 1 \in 1 .. Len(text)
    BY <1>4, FirstWord
  <2>2. Words(text)[1] = word
    <3>1. Words(text)[Rank(text, 1)] = word
      BY <2>1, WordAt
    <3> HIDE DEF word
    <3> QED
      BY <2>1, <3>1
  <2>3. IF Is(word, Digits(b))
        THEN number = [ok |-> TRUE, pos |-> e + 1, value |-> Number(word, b)]
        ELSE ~number.ok
    BY <1>4, <2>1, WordParsed
  <2> HIDE DEF word
  <2>4. Is(word, Digits(b)) => number.ok /\ number.value = Number(word, b)
    <3> HIDE DEF number
    <3> QED
      BY <2>3
  <2> QED
    BY <1>4, <2>2, <2>3, <2>4, Zenon
<1> QED
  BY <1>3, <1>4

(* The command that a text is taken for: its numbers are what is left of them *)
CommandTaken(text) ==
  IF text = <<>> \/ text[1] \notin DOMAIN commands THEN NOTHING
  ELSE LET words == Words(text)
           n     == commands[text[1]]
       IN  IF n = 0 THEN <<text[1], <<>> >>
           ELSE IF Is(words[1], isalnum) /\ Len(words) > n
                     /\ \A k \in 1 .. n : Is(words[k + 1], Digits(BASE))
           THEN <<text[1], [k \in 1 .. n |-> Number(words[k + 1], BASE)]>>
           ELSE NOTHING

LEMMA CommandRead ==
  ASSUME NEW memory, NEW text, Holds(memory, text)
  PROVE  (IF memory[1] \notin DOMAIN commands THEN NOTHING
          ELSE LET parsed == parse_args(memory, commands[memory[1]])
               IN  IF parsed.ok THEN <<memory[1], parsed.args>> ELSE NOTHING)
         = CommandTaken(text)
<1> DEFINE parsed == parse_args(memory, commands[memory[1]])
<1>1. /\ Len(text) \in Nat /\ memory[Len(text) + 1] = NUL
      /\ \A m \in 1 .. Len(text) : memory[m] = text[m]
  BY HoldsParts
<1>2. NUL \notin DOMAIN commands /\ SPACE \notin DOMAIN commands
  BY CommandKeys
<1>3. CASE Len(text) = 0
  <2>1. memory[1] \notin DOMAIN commands
    BY <1>1, <1>2, <1>3
  <2>2. text = <<>>
    <3>1. text \in Seq(Char \ {NUL})
      BY DEF Holds
    <3> QED
      BY <1>3, <3>1, EmptySeq
  <2> QED
    BY <2>1, <2>2, Zenon DEF CommandTaken
<1>4. CASE Len(text) # 0
  <2>1. memory[1] = text[1] /\ text # <<>>
    BY <1>1, <1>4, EmptySeq
  <2>2. CASE text[1] \notin DOMAIN commands
    BY <2>1, <2>2, Zenon DEF CommandTaken
  <2>3. CASE text[1] \in DOMAIN commands
    <3> DEFINE n == commands[text[1]]
    <3>1. text[1] # SPACE /\ n \in Nat
      BY <1>2, <2>3, CommandKeys
    <3> HIDE DEF n
    <3>2. PICK f : ParsedBy(f, memory, n) /\ parse_args(memory, n) = f[n]
      BY <3>1, ParseArgs
    <3>3. parsed = f[n]
      BY <2>1, <3>2 DEF n
    <3> HIDE DEF parsed
    <3>4. Cardinality(Begins(text)) \in Nat /\ Len(Words(text)) = Cardinality(Begins(text))
      <4>1. Cardinality(Begins(text)) \in Nat
        BY BeginsFinite
      <4> QED
        BY <4>1 DEF Words
    <3>5. CASE n = 0
      <4>1. f[n] = [ok |-> TRUE, args |-> <<>>, pos |-> AfterKey(memory)]
        BY <3>2, <3>5 DEF ParsedBy
      <4>2. parsed.ok /\ parsed.args = <<>>
        BY <3>3, <4>1
      <4>3. CommandTaken(text) = <<text[1], <<>> >>
        BY <2>1, <2>3, <3>5, Zenon DEF CommandTaken, n
      <4> QED
        BY <2>1, <2>3, <4>2, <4>3, Zenon DEF parsed
    <3>6. CASE n # 0 /\ Is(Words(text)[1], isalnum)
      <4>1. IF Numerals(text, n) THEN f[n].ok /\ f[n].args = Arguments(text, n) ELSE ~f[n].ok
        BY <2>1, <3>1, <3>2, <3>6, ArgumentsRead
      <4>2. Numerals(text, n) <=> /\ Len(Words(text)) > n
                                 /\ \A k \in 1 .. n : Is(Words(text)[k + 1], Digits(BASE))
        <5>1. Cardinality(Begins(text)) >= n + 1 <=> Len(Words(text)) > n
          BY <3>1, <3>4
        <5> QED
          BY <5>1, Zenon DEF Numerals
      <4>3. CommandTaken(text) = IF Numerals(text, n) THEN <<text[1], Arguments(text, n)>> ELSE NOTHING
        BY <2>1, <2>3, <3>6, <4>2, Zenon DEF CommandTaken, Arguments, n
      <4> QED
        BY <2>1, <2>3, <3>3, <4>1, <4>3, Zenon DEF parsed
    <3>7. CASE n # 0 /\ ~Is(Words(text)[1], isalnum)
      <4>1. n \in Nat \ {0}
        BY <3>1, <3>7
      <4>2. ~f[n].ok
        BY <2>1, <3>1, <3>2, <3>7, <4>1, NoArguments
      <4>3. CommandTaken(text) = NOTHING
        BY <2>1, <2>3, <3>7, Zenon DEF CommandTaken, n
      <4> QED
        BY <2>1, <2>3, <3>3, <4>2, <4>3, Zenon DEF parsed
    <3> QED
      BY <3>5, <3>6, <3>7
  <2> QED
    BY <2>2, <2>3
<1> QED
  BY <1>3, <1>4

(* Every word is a sequence of characters. *)
LEMMA EveryWord ==
  ASSUME NEW memory, NEW text, Holds(memory, text), text # <<>>, text[1] # SPACE,
         NEW m \in 1 .. Cardinality(Begins(text))
  PROVE  Words(text)[m] \in Seq(Char)
<1> DEFINE n == Cardinality(Begins(text))
           Found(k) == \E i \in Begins(text) : Rank(text, i) = k
           S == {k \in Nat : k + 1 <= n => Found(k + 1)}
<1>1. /\ n \in Nat /\ Len(text) \in Nat /\ Begins(text) \subseteq 1 .. Len(text)
      /\ \A i \in Begins(text) : text[i] # SPACE
  BY BeginsFinite, HoldsParts
<1>2. 0 \in S
  <2>1. Found(1)
    BY FirstWord
  <2> HIDE DEF Found
  <2> QED
    BY <2>1
<1>3. ASSUME NEW k \in Nat, k \in S PROVE k + 1 \in S
  <2> SUFFICES ASSUME (k + 1) + 1 <= n PROVE Found((k + 1) + 1)
    OBVIOUS
  <2>1. Found(k + 1)
    <3> HIDE DEF Found
    <3> QED
      BY <1>1, <1>3
  <2>2. PICK i \in Begins(text) : Rank(text, i) = k + 1
    BY <2>1
  <2> DEFINE p == SkipWhile({SPACE}, memory, EndOf(text, i) + 1)
  <2>3. Starts(text, p, (k + 1) + 1)
    <3>1. Starts(text, p, Rank(text, i) + 1)
      BY NextWord
    <3> HIDE DEF p
    <3> QED
      BY <2>2, <3>1
  <2> HIDE DEF p
  <2>4. n # ((k + 1) + 1) - 1
    BY <1>1
  <2> QED
    BY <2>3, <2>4, Zenon DEF Starts
<1>4. Nat \subseteq S
  <2> HIDE DEF S
  <2> QED
    BY <1>2, <1>3, Induction
<1>5. Found(m)
  <2>1. m \in 1 .. n
    OBVIOUS
  <2> HIDE DEF Found
  <2> HIDE DEF n
  <2>2. m - 1 \in S /\ (m - 1) + 1 = m /\ m <= n
    BY <1>1, <1>4, <2>1
  <2> QED
    BY <2>2
<1>6. PICK i \in Begins(text) : Rank(text, i) = m
  BY <1>5
<1>7. Words(text)[m] = SubSeq(text, i, EndOf(text, i))
  <2> DEFINE w == SubSeq(text, i, EndOf(text, i))
  <2>1. Words(text)[Rank(text, i)] = w
    BY WordAt
  <2> QED
    BY <1>6, <2>1, Zenon
<1>8. EndOf(text, i) \in i .. Len(text) /\ i \in 1 .. Len(text)
  BY <1>1, WordEnds
<1>9. text \in Seq(Char)
  BY DEF Holds
<1> DEFINE e == EndOf(text, i)
           w == SubSeq(text, i, e)
<1>10. w \in Seq(Char)
  <2> HIDE DEF e
  <2> QED
    BY <1>1, <1>8, <1>9 DEF e
<1> QED
  BY <1>7, <1>10

(* If its numbers fit, a command is taken for what it says. *)
LEMMA CommandIsTaken ==
  ASSUME NEW memory, NEW text, Holds(memory, text),
         CommandShown(text) # NOTHING =>
           \A k \in 1 .. commands[text[1]] : ~(CommandShown(text)[2][k] >= NUMBER_LIMIT)
  PROVE  CommandTaken(text) = CommandShown(text)
<1>1. CASE text = <<>> \/ text[1] \notin DOMAIN commands
  BY <1>1, Zenon DEF CommandTaken, CommandShown
<1>2. CASE ~(text = <<>> \/ text[1] \notin DOMAIN commands)
  <2> DEFINE words == Words(text)
             n == commands[text[1]]
             complete == /\ Is(words[1], isalnum) /\ Len(words) > n
                         /\ \A k \in 1 .. n : Is(words[k + 1], Digits(BASE))
             taken == [k \in 1 .. n |-> Number(words[k + 1], BASE)]
             shown == [k \in 1 .. n |-> Value(words[k + 1], BASE)]
  <2>1. text[1] # SPACE /\ n \in Nat /\ BASE \in {10, 16} /\ NUMBER_LIMIT \in Nat
    BY <1>2, CommandKeys, LineInputAssumption DEF BASE
  <2>2. Cardinality(Begins(text)) \in Nat /\ Len(words) = Cardinality(Begins(text))
    <3>1. Cardinality(Begins(text)) \in Nat
      BY BeginsFinite
    <3> QED
      BY <3>1 DEF Words
  <2>3. /\ CommandTaken(text) = IF n = 0 THEN <<text[1], <<>> >>
                                ELSE IF complete THEN <<text[1], taken>> ELSE NOTHING
        /\ CommandShown(text) = IF n = 0 THEN <<text[1], <<>> >>
                                ELSE IF complete THEN <<text[1], shown>> ELSE NOTHING
    BY <1>2, Zenon DEF CommandTaken, CommandShown
  <2>4. CASE n # 0 /\ complete
    <3>1. CommandShown(text) = <<text[1], shown>>
      BY <2>3, <2>4, Zenon
    <3>2. CommandShown(text) # NOTHING /\ CommandShown(text)[2] = shown
      <4> HIDE DEF shown
      <4> QED
        BY <3>1 DEF NOTHING
    <3>3. ASSUME NEW k \in 1 .. n
          PROVE  Number(words[k + 1], BASE) = Value(words[k + 1], BASE)
      <4>1. k + 1 \in 1 .. Cardinality(Begins(text))
        BY <2>1, <2>2, <2>4
      <4>2. words[k + 1] \in Seq(Char) /\ Is(words[k + 1], Digits(BASE))
        BY <1>2, <2>1, <2>4, <4>1, EveryWord
      <4>3. CommandShown(text)[2][k] = Value(words[k + 1], BASE)
        BY <3>2, Zenon
      <4>4. ~(Value(words[k + 1], BASE) >= NUMBER_LIMIT)
        <5>1. ~(CommandShown(text)[2][k] >= NUMBER_LIMIT)
          BY <3>2
        <5> QED
          BY <4>3, <5>1, Zenon
      <4> HIDE DEF words
      <4>5. /\ Value(words[k + 1], BASE) \in Nat
            /\ Value(words[k + 1], BASE) < NUMBER_LIMIT
                 => Number(words[k + 1], BASE) = Value(words[k + 1], BASE)
        BY <2>1, <4>2, NumberIsValue
      <4> QED
        BY <2>1, <4>4, <4>5
    <3>4. taken = shown
      <4> HIDE DEF words
      <4> HIDE DEF n
      <4> QED
        BY <3>3, Zenon
    <3> HIDE DEF taken
    <3> HIDE DEF shown
    <3> QED
      BY <2>3, <3>4
  <2>5. CASE ~(n # 0 /\ complete)
    <3> HIDE DEF complete
    <3> HIDE DEF taken
    <3> HIDE DEF shown
    <3> HIDE DEF n
    <3> QED
      BY <2>3, <2>5
  <2> QED
    BY <2>4, <2>5
<1> QED
  BY <1>1, <1>2

(* A line that was read *)
LEMMA LineRead ==
  ASSUME NEW keys \in Typed, NEW bytes \in Beyond, console_getline(keys).i < LINE_LENGTH
  PROVE  LET s == console_getline(keys) IN
         Holds(InMemory(keys, bytes), SubSeq(Screen(s.echo).cells, 1, Screen(s.echo).cursor))
<1> DEFINE s == console_getline(keys)
<1>1. keys \in Seq(Char \ {NUL}) /\ bytes \in Seq(Char)
  BY LineInputAssumption
<1>2. s \in Edited
  BY <1>1, LineEdited
<1>3. InMemory(keys, bytes) = s.buffer \o bytes
  BY DEF InMemory
<1> HIDE DEF s
<1>4. s.i < LINE_LENGTH
  BY DEF s
<1>5. Holds(s.buffer \o bytes, SubSeq(s.buffer, 1, s.i))
  BY <1>1, <1>2, <1>4, MemoryHolds
<1>6. SubSeq(Screen(s.echo).cells, 1, Screen(s.echo).cursor) = SubSeq(s.buffer, 1, s.i)
  BY <1>2, EditedText
<1>7. Holds(InMemory(keys, bytes), SubSeq(Screen(s.echo).cells, 1, Screen(s.echo).cursor))
  BY <1>3, <1>5, <1>6
<1> QED
  BY <1>7 DEF s

LEMMA AskedAsShown ==
  ASSUME NEW keys \in Typed, NEW bytes \in Beyond, NEW b \in {10, 16}, AskInt(keys, bytes, b)
  PROVE  UnderstoodAsShown'
<1> DEFINE text == Shown'
           memory == InMemory(keys, bytes)
           word == Words(text)[1]
<1>1. /\ line' = console_getline(keys) /\ base' = b
      /\ understood' = IF parse_int(memory, 1, b).ok THEN <<parse_int(memory, 1, b).value>>
                       ELSE NOTHING
  BY DEF AskInt
<1>2. base' # 0
  BY <1>1
<1>3. CalledFor(Shown)' = IF Is(word, Digits(b)) THEN <<Value(word, b)>> ELSE NOTHING
  <2>1. CalledFor(Shown)' = NumberShown(Shown)'
    BY <1>2, Zenon DEF CalledFor
  <2> QED
    BY <1>1, <2>1, Zenon DEF NumberShown
<1> SUFFICES ASSUME line'.i < LINE_LENGTH, ~NoNumber(Shown)', ~TooLarge(Shown)'
             PROVE  understood' = CalledFor(Shown)'
  BY Zenon DEF UnderstoodAsShown, WasRead
<1>4. Holds(memory, text)
  BY <1>1, LineRead DEF Shown
<1>5. b \in 0 .. 36 /\ NUMBER_LIMIT \in Nat
  BY NotAlnum, LineInputAssumption
<1>6. text # <<>> /\ text[1] # SPACE
  BY <1>2, Zenon DEF NoNumber
<1> HIDE DEF memory
<1>7. CASE Is(word, Digits(b))
  <2>1. CalledFor(Shown)' = <<Value(word, b)>>
    BY <1>3, <1>7, Zenon
  <2>2. Value(word, b) \in NumbersShown(Shown)'
    <3>1. CalledFor(Shown)' # NOTHING
      BY <2>1 DEF NOTHING
    <3>2. NumberShown(Shown)' = <<Value(word, b)>>
      BY <1>1, <1>7, Zenon DEF NumberShown
    <3>3. NumberShown(Shown)'[1] = Value(word, b)
      <4> HIDE DEF word
      <4> QED
        BY <3>2
    <3>4. NumbersShown(Shown)' = {NumberShown(Shown)'[1]}
      BY <1>2, <3>1, Zenon DEF NumbersShown
    <3> QED
      BY <3>3, <3>4, Zenon
  <2>3. ~(Value(word, b) >= NUMBER_LIMIT)
    BY <2>2, Zenon DEF TooLarge
  <2> HIDE DEF text
  <2>4. word \in Seq(Char)
    BY <1>4, <1>6, FirstWord, EveryWord
  <2>5. /\ Value(word, b) \in Nat
        /\ Value(word, b) < NUMBER_LIMIT => Number(word, b) = Value(word, b)
    <3> HIDE DEF word
    <3> QED
      BY <1>7, <2>4, NumberIsValue
  <2>6. Number(word, b) = Value(word, b)
    <3> HIDE DEF word
    <3> QED
      BY <1>5, <2>3, <2>5
  <2>7. understood' = <<Number(word, b)>>
    BY <1>1, <1>4, <1>5, <1>6, <1>7, NumberRead, Zenon
  <2> QED
    BY <2>1, <2>6, <2>7, Zenon
<1>8. CASE ~Is(word, Digits(b))
  <2>1. understood' = NOTHING
    <3> HIDE DEF text
    <3> QED
      BY <1>1, <1>4, <1>5, <1>6, <1>8, NumberRead, Zenon
  <2> QED
    BY <1>3, <1>8, <2>1, Zenon
<1> QED
  BY <1>7, <1>8

LEMMA CommandAsShown ==
  ASSUME NEW keys \in Typed, NEW bytes \in Beyond, ReadCommand(keys, bytes)
  PROVE  UnderstoodAsShown'
<1> DEFINE text == Shown'
           memory == InMemory(keys, bytes)
<1>1. /\ line' = console_getline(keys) /\ base' = 0
      /\ understood' = IF memory[1] \notin DOMAIN commands THEN NOTHING
                       ELSE LET parsed == parse_args(memory, commands[memory[1]])
                            IN  IF parsed.ok THEN <<memory[1], parsed.args>> ELSE NOTHING
  BY DEF ReadCommand
<1>2. CalledFor(Shown)' = CommandShown(text)
  BY <1>1, Zenon DEF CalledFor
<1> SUFFICES ASSUME line'.i < LINE_LENGTH, ~TooLarge(Shown)'
             PROVE  understood' = CommandShown(text)
  BY <1>2, Zenon DEF UnderstoodAsShown, WasRead
<1>3. Holds(memory, text)
  BY <1>1, LineRead DEF Shown
<1>4. ASSUME CommandShown(text) # NOTHING, NEW k \in 1 .. commands[text[1]]
      PROVE  ~(CommandShown(text)[2][k] >= NUMBER_LIMIT)
  <2>1. CommandShown(text)[2][k] \in NumbersShown(Shown)'
    BY <1>1, <1>2, <1>4, Zenon DEF NumbersShown
  <2> QED
    BY <2>1, Zenon DEF TooLarge
<1> HIDE DEF text
<1> HIDE DEF memory
<1>5. CommandTaken(text) = CommandShown(text)
  BY <1>3, <1>4, CommandIsTaken
<1>6. (IF memory[1] \notin DOMAIN commands THEN NOTHING
       ELSE LET parsed == parse_args(memory, commands[memory[1]])
            IN  IF parsed.ok THEN <<memory[1], parsed.args>> ELSE NOTHING)
      = CommandTaken(text)
  BY <1>3, CommandRead
<1> QED
  BY <1>1, <1>5, <1>6

(* However a line was edited, the command or the number that is taken is the
   one the screen shows, if each number on it fits into an unsigned and a
   question is answered by one. *)
THEOREM LinesUnderstood == InputSpec => []UnderstoodAsShown
<1>1. InputInit => UnderstoodAsShown
  BY DEF InputInit, UnderstoodAsShown, WasRead
<1>2. UnderstoodAsShown /\ [GetLine \/ Forget]_input => UnderstoodAsShown'
  <2> SUFFICES ASSUME UnderstoodAsShown, [GetLine \/ Forget]_input PROVE UnderstoodAsShown'
    OBVIOUS
  <2>1. CASE GetLine
    <3>1. PICK keys \in Typed, bytes \in Beyond :
            (\E b \in {10, 16} : AskInt(keys, bytes, b)) \/ ReadCommand(keys, bytes)
      BY <2>1, Zenon DEF GetLine
    <3>2. ASSUME NEW b \in {10, 16}, AskInt(keys, bytes, b) PROVE UnderstoodAsShown'
      BY <3>2, AskedAsShown
    <3>3. ASSUME ReadCommand(keys, bytes) PROVE UnderstoodAsShown'
      BY <3>3, CommandAsShown
    <3> QED
      BY <3>1, <3>2, <3>3
  <2>2. CASE Forget
    BY <2>2 DEF Forget, UnderstoodAsShown, WasRead
  <2>3. CASE UNCHANGED input
    BY <2>3, Zenon DEF input, UnderstoodAsShown, Shown, WasRead, NoNumber, TooLarge,
                       NumbersShown, CalledFor, NumberShown
  <2> QED
    BY <2>1, <2>2, <2>3
<1> QED
  BY <1>1, <1>2, PTL DEF InputSpec

=============================================================================
