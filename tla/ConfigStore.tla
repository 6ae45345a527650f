----------------------------- MODULE ConfigStore -----------------------------
(***************************************************************************)
(* The configuration of a LED board and the page of flash memory it is     *)
(* kept in (config.c, flash.c, and the console's commands "save" and       *)
(* "reload"), with resets between any two writes and writes that fail.     *)
(*                                                                         *)
(* The page is modelled as it is addressed, a row of halfwords: the status *)
(* words of the slots first, then the entries.  A halfword of flash can be *)
(* programmed once after an erase, and to 0 at any time; another attempt   *)
(* leaves it alone and raises PGERR in FLASH_SR, where it stays until the  *)
(* processor is reset.                                                     *)
(***************************************************************************)
EXTENDS Integers, FiniteSetsExt

CONSTANTS
  ENTRY_COUNT,     (* slots in the page                                      *)
  ENTRY_LENGTH,    (* halfwords in a config_entry_t; the first is my_address *)
  Configs,         (* configurations a user enters                           *)
  DEFAULT          (* the configuration in RAM after a reset                 *)

ERASED   == 65535          \* 0xffff
Halfword == 0 .. ERASED
EMPTY    == ERASED         \* CONFIG_ENTRY_EMPTY
IN_USE   == 21845          \* CONFIG_ENTRY_IN_USE, 0x5555
OLD      == 0              \* CONFIG_ENTRY_OLD

Slot   == 0 .. ENTRY_COUNT - 1
Field  == 0 .. ENTRY_LENGTH - 1
Config == [Field -> Halfword]
NO_SLOT   == ENTRY_COUNT   \* what the code's searches start from
NO_CONFIG == [f \in {} |-> 0]

ASSUME ConfigStoreAssumption ==
  /\ ENTRY_COUNT \in Nat \ {0}
  /\ ENTRY_LENGTH \in Nat \ {0}
  /\ Configs \subseteq Config
  /\ DEFAULT \in Config

(* config_page_t: where a status word and a halfword of an entry are.
   StatusWord(NO_SLOT) is the first halfword of the first entry. *)
StatusWord(slot)   == slot
EntryWord(slot, f) == ENTRY_COUNT + slot * ENTRY_LENGTH + f
Page == 0 .. ENTRY_COUNT * (1 + ENTRY_LENGTH) - 1

VARIABLES
  page, pgerr,         (* flash memory, FLASH_SR.PGERR                       *)
  config,              (* the configuration in RAM                           *)
  pc,                  (* where save_config is                               *)
  unused, last_in_use, (* its locals                                         *)
  copied,              (* halfwords flash_copy has copied                    *)
  error,               (* what the last save returned                        *)
  saved, disturbed     (* history: the configuration of the last save if it
                          succeeded; a save was cut short or a write failed  *)

flash   == <<page, pgerr>>
locals  == <<unused, last_in_use, copied>>
history == <<saved, disturbed>>
vars == <<flash, config, pc, locals, error, history>>

TypeOK ==
  /\ page \in [Page -> Halfword]
  /\ pgerr \in BOOLEAN
  /\ config \in Config
  /\ pc \in {"running", "erase", "copy", "mark_old", "mark_in_use"}
  /\ unused \in Slot \cup {NO_SLOT}
  /\ last_in_use \in Slot \cup {NO_SLOT}
  /\ copied \in Field
  /\ error \in {"E_SUCCESS", "E_FLASH_WRITE"}
  /\ saved \in Config \cup {NO_CONFIG}
  /\ disturbed \in BOOLEAN

(* A board fresh from flash.sh *)
Init ==
  /\ page = [p \in Page |-> ERASED]
  /\ pgerr = FALSE
  /\ config = DEFAULT
  /\ pc = "running"
  /\ unused = NO_SLOT
  /\ last_in_use = NO_SLOT
  /\ copied = 0
  /\ error = "E_SUCCESS"
  /\ saved = NO_CONFIG
  /\ disturbed = FALSE

-----------------------------------------------------------------------------
(* flash.c *)

Programmable(p, value) == page[p] = ERASED \/ value = 0

(* flash_write_check: the write, *)
Write(p, value) ==
  /\ page' = IF Programmable(p, value) THEN [page EXCEPT ![p] = value] ELSE page
  /\ pgerr' = (pgerr \/ ~Programmable(p, value))

(* Mutant: flash_write_check does not check. *)
Unchecked(p, value) == TRUE

(* and whether it returns E_SUCCESS *)
Written(p, value) == Programmable(p, value) /\ ~pgerr

-----------------------------------------------------------------------------
(* config.c *)

SlotsOf(pg, status) == {slot \in Slot : pg[StatusWord(slot)] = status}
Entry(slot) == [f \in Field |-> page[EntryWord(slot, f)]]

(* load_config: the first entry in use; without one, config is left alone. *)
Loaded(otherwise) ==
  LET found == SlotsOf(page, IN_USE)
  IN  IF found = {} THEN otherwise ELSE Entry(Min(found))

(* config_valid, as far as the address goes; the rest is in Prompt. *)
config_valid == config[0] <= 253

(* Mutant: the entry that was saved last stays in use. *)
ScanForgets(pg) ==
  /\ last_in_use' = NO_SLOT
  /\ unused' = Min(SlotsOf(pg, EMPTY) \cup {NO_SLOT})
  /\ copied' = 0
  /\ pc' = IF SlotsOf(pg, EMPTY) = {} THEN "erase" ELSE "copy"

(* Mutant: an old entry counts as free. *)
ScanReuses(pg) ==
  LET used == SlotsOf(pg, IN_USE)
      free == SlotsOf(pg, EMPTY) \cup SlotsOf(pg, OLD)
  IN
  /\ last_in_use' = IF used = {} THEN NO_SLOT ELSE Max(used)
  /\ unused' = IF free = {} THEN NO_SLOT ELSE Min(free)
  /\ copied' = 0
  /\ pc' = IF free = {} THEN "erase" ELSE "copy"

(* The search at the start of save_config: the last entry in use and the
   first that is empty. *)
Scan(pg) ==
  LET used == SlotsOf(pg, IN_USE)
      free == SlotsOf(pg, EMPTY)
  IN
  /\ last_in_use' = IF used = {} THEN NO_SLOT ELSE Max(used)
  /\ unused' = IF free = {} THEN NO_SLOT ELSE Min(free)
  /\ copied' = 0
  /\ pc' = IF free = {} THEN "erase" ELSE "copy"

Return(result) ==
  /\ pc' = "running"
  /\ error' = result

Save ==
  /\ pc = "running"
  /\ config_valid
  /\ Scan(page)
  /\ saved' = NO_CONFIG
  /\ UNCHANGED <<flash, config, error, disturbed>>

(* Mutant: the page is not erased, or another one is. *)
EraseNothing ==
  /\ pc = "erase"
  /\ IF pgerr THEN Return("E_FLASH_WRITE") /\ UNCHANGED locals
              ELSE Scan(page) /\ UNCHANGED error
  /\ UNCHANGED <<flash, config, history>>

(* flash_erase_page, then save_config starts over. *)
Erase ==
  /\ pc = "erase"
  /\ page' = [p \in Page |-> ERASED]
  /\ IF pgerr THEN Return("E_FLASH_WRITE") /\ UNCHANGED locals
              ELSE Scan(page') /\ UNCHANGED error
  /\ UNCHANGED <<pgerr, config, history>>

(* Mutant: flash_copy stops one halfword early. *)
CopyAllButLast ==
  LET p == EntryWord(unused, copied) IN
  /\ pc = "copy"
  /\ Write(p, config[copied])
  /\ IF ~Written(p, config[copied])
     THEN Return("E_FLASH_WRITE") /\ UNCHANGED copied
     ELSE IF copied >= ENTRY_LENGTH - 2
          THEN pc' = "mark_old" /\ UNCHANGED <<copied, error>>
          ELSE copied' = copied + 1 /\ UNCHANGED <<pc, error>>
  /\ UNCHANGED <<config, unused, last_in_use, history>>

(* flash_copy, one halfword *)
Copy ==
  LET p == EntryWord(unused, copied) IN
  /\ pc = "copy"
  /\ Write(p, config[copied])
  /\ IF ~Written(p, config[copied])
     THEN Return("E_FLASH_WRITE") /\ UNCHANGED copied
     ELSE IF copied = ENTRY_LENGTH - 1
          THEN pc' = "mark_old" /\ UNCHANGED <<copied, error>>
          ELSE copied' = copied + 1 /\ UNCHANGED <<pc, error>>
  /\ UNCHANGED <<config, unused, last_in_use, history>>

(* The entry used so far becomes old.  When there was none, last_in_use is
   NO_SLOT and the write goes to StatusWord(NO_SLOT). *)
MarkOld ==
  LET p == StatusWord(last_in_use) IN
  /\ pc = "mark_old"
  /\ Write(p, OLD)
  /\ IF Written(p, OLD) THEN pc' = "mark_in_use" /\ UNCHANGED error
                        ELSE Return("E_FLASH_WRITE")
  /\ UNCHANGED <<config, locals, history>>

MarkInUse ==
  LET p == StatusWord(unused) IN
  /\ pc = "mark_in_use"
  /\ Write(p, IN_USE)
  /\ Return(IF Written(p, IN_USE) THEN "E_SUCCESS" ELSE "E_FLASH_WRITE")
  /\ saved' = IF Written(p, IN_USE) THEN config ELSE saved
  /\ UNCHANGED <<config, locals, disturbed>>

(* Worn flash: a write or an erase has no effect, and the check after it
   finds out. *)
FlashFails ==
  /\ pc # "running"
  /\ Return("E_FLASH_WRITE")
  /\ disturbed' = TRUE
  /\ UNCHANGED <<flash, config, locals, saved>>

-----------------------------------------------------------------------------
(* The console and the board *)

(* The user enters a configuration, command by command. *)
Edit(c) ==
  /\ pc = "running"
  /\ config' = c
  /\ UNCHANGED <<flash, pc, locals, error, history>>

(* run_reload_config *)
Reload ==
  /\ pc = "running"
  /\ config' = Loaded(config)
  /\ UNCHANGED <<flash, pc, locals, error, history>>

(* A reset at any time.  The page survives it; main loads the configuration. *)
Reset ==
  /\ pgerr' = FALSE
  /\ config' = Loaded(DEFAULT)
  /\ pc' = "running"
  /\ error' = "E_SUCCESS"
  /\ disturbed' = (disturbed \/ pc # "running")
  /\ UNCHANGED <<page, locals, saved>>

SaveStep == Erase \/ Copy \/ MarkOld \/ MarkInUse

Next ==
  \/ Save \/ SaveStep \/ FlashFails
  \/ \E c \in Configs : Edit(c)
  \/ Reload \/ Reset

Spec == Init /\ [][Next]_vars

(* save_config runs on the main thread and nothing else does meanwhile. *)
FairSpec == Spec /\ WF_vars(SaveStep)

-----------------------------------------------------------------------------
(* Properties *)

SameButAddress(c, d) == \A f \in Field \ {0} : c[f] = d[f]

(* "Assuming there is only one entry in use" (config.c:195): the assumption
   holds at all times, whatever was interrupted and whatever failed. *)
OneInUse == Cardinality(SlotsOf(page, IN_USE)) <= 1

(* What a reset would load changes in one step: a save, wherever it is cut
   short, leaves the old configuration, none, or the new one, apart from the
   address; never half of one and half of another, and never an entry that was
   not written to its end. *)
AtomicSave ==
  [][LET old == Loaded(NO_CONFIG) new == Loaded(NO_CONFIG)' IN
       new \in {old, NO_CONFIG} \/ SameButAddress(new, config)]_vars

(* A configuration whose save returned success is found again, apart from the
   address, until the next save is begun: no reset and no failure loses it. *)
SaveIsDurable ==
  saved # NO_CONFIG =>
    /\ SlotsOf(page, IN_USE) # {}
    /\ SameButAddress(Loaded(saved), saved)

(* As long as no save is cut short and the flash works, no save fails, however
   often the page fills up and is erased. *)
FailsOnlyDisturbed == error = "E_FLASH_WRITE" => disturbed

(* save_config returns: it calls itself only once. *)
SaveReturns == pc # "running" ~> pc = "running"

(* "Saves the configuration to flash" (config.c:181): what was saved is what
   is loaded.  VIOLATED: the first save on an erased page sets the address to
   0, by way of MarkOld. *)
SavedIsLoaded == saved # NO_CONFIG => Loaded(saved) = saved

=============================================================================
