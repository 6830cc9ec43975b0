---------------------------- MODULE ConfigStore -----------------------------
(***************************************************************************)
(* The configuration and the high score of Snake in data flash             *)
(* (src/config.c, src/data.c).  The record of the configuration lies at    *)
(* 0x7ED7..0x7FFE, over the end of one 256-byte page and most of the next; *)
(* the high score lies at 0x7FF8..0x7FFB, inside the record: on the height *)
(* of the splash screen and its speed.  A write clears bits and only an    *)
(* erase of a whole page sets them: a field is the set of its bits that    *)
(* are 1.                                                                  *)
(***************************************************************************)
EXTENDS Naturals

CONSTANTS
  Configs,   \* configurations [head, mark, speed, tail], see Fields
  Fallback,  \* the one of cfg_fallback
  Scores,    \* scores of games, as the sets of their bits
  NoConfig   \* no configuration has been saved

Bits == 0..2
\* HIGHSCORE_MAGIC; its bit 1 stands for bit 6 of the low byte 0x5A, which the
\* height of a splash screen, at most 44, never has.
Magic == {0, 1}
\* The part of the record on the first page, the bytes under the high score's magic
\* and value, and the rest of the second page but the checksum.
Fields == [head : SUBSET Bits, mark : SUBSET Bits, speed : SUBSET Bits,
           tail : SUBSET Bits]

ASSUME ConfigsAssumption ==
  /\ Configs \subseteq Fields /\ Fallback \in Configs
  /\ \A c \in Configs : 1 \notin c.mark
ASSUME ScoresAssumption == Scores \subseteq SUBSET Bits /\ {} \in Scores

VARIABLES
  badge_cfg,  \* in RAM
  flash,      \* the record: Fields and the checksum
  doing,      \* what is half done: "save", "score" or "nothing"
  score,      \* of the game that has ended
  kept,       \* the configuration last saved, if nothing was written since
  fresh,      \* that save found the record erased
  best        \* the high score last written

cfgVars == <<badge_cfg, flash, doing, score, kept, fresh, best>>

-----------------------------------------------------------------------------
\* crc_cal, taken to tell the configurations apart: the checksum of c is {c}, an
\* erased one all of Configs, and one written over another their intersection.
Record == [head : SUBSET Bits, mark : SUBSET Bits, speed : SUBSET Bits,
           tail : SUBSET Bits, crc : SUBSET Configs]
Blank == [head |-> Bits, mark |-> Bits, speed |-> Bits, tail |-> Bits, crc |-> Configs]

Contents == [head |-> flash.head, mark |-> flash.mark, speed |-> flash.speed,
             tail |-> flash.tail]

\* Fault: a record with a wrong checksum is used.
Loaded_Unchecked == Contents

\* cfg_readflash_def and cfg_init.
Loaded == IF flash.crc = {Contents} THEN Contents ELSE Fallback

data_read_highscore == IF flash.mark = Magic THEN flash.speed ELSE {}

Num(s) == (IF 0 \in s THEN 1 ELSE 0) + (IF 1 \in s THEN 2 ELSE 0) + (IF 2 \in s THEN 4 ELSE 0)

cfgInit ==
  /\ flash = Blank /\ badge_cfg = Fallback
  /\ doing = "nothing" /\ score = {}
  /\ kept = NoConfig /\ fresh = FALSE /\ best = {}

\* The commands that change a field, load_fallback_cfg among them.
Configure ==
  /\ doing = "nothing"
  /\ badge_cfg' \in Configs
  /\ UNCHANGED <<flash, doing, score, kept, fresh, best>>

\* cfg_writeflash writes without an erase; the record ends one page and begins the
\* next.
SaveHead ==
  /\ doing = "nothing" /\ doing' = "save"
  /\ flash' = [flash EXCEPT !.head = @ \cap badge_cfg.head]
  /\ kept' = NoConfig
  /\ fresh' = (flash = Blank)
  /\ UNCHANGED <<badge_cfg, score, best>>

\* Fault: the checksum is not brought up to date.
SaveRest_OldCrc ==
  /\ doing = "save" /\ doing' = "nothing"
  /\ flash' = [flash EXCEPT !.mark = @ \cap badge_cfg.mark,
                            !.speed = @ \cap badge_cfg.speed,
                            !.tail = @ \cap badge_cfg.tail,
                            !.crc = @ \cap {Fallback}]
  /\ kept' = badge_cfg
  /\ UNCHANGED <<badge_cfg, score, fresh, best>>

SaveRest ==
  /\ doing = "save" /\ doing' = "nothing"
  /\ flash' = [flash EXCEPT !.mark = @ \cap badge_cfg.mark,
                            !.speed = @ \cap badge_cfg.speed,
                            !.tail = @ \cap badge_cfg.tail,
                            !.crc = @ \cap {badge_cfg}]
  /\ kept' = badge_cfg
  /\ UNCHANGED <<badge_cfg, score, fresh, best>>

\* Fault: the page is not erased before the high score is written.
ErasePage_Skipped ==
  /\ kept' = NoConfig
  /\ UNCHANGED <<badge_cfg, flash, fresh, best>>

\* data_write_highscore erases the page of the high score, with the rest of the record on it.
ErasePage ==
  /\ flash' = [Blank EXCEPT !.head = flash.head]
  /\ kept' = NoConfig
  /\ UNCHANGED <<badge_cfg, fresh, best>>

\* show_score: a game with a better score than the stored one has ended.
show_score ==
  /\ doing = "nothing" /\ doing' = "score"
  /\ score' \in {s \in Scores : Num(s) > Num(data_read_highscore)}
  /\ ErasePage

WriteScore ==
  /\ doing = "score" /\ doing' = "nothing"
  /\ flash' = [flash EXCEPT !.mark = @ \cap Magic, !.speed = @ \cap score]
  /\ best' = score /\ score' = {}
  /\ UNCHANGED <<badge_cfg, kept, fresh>>

\* A reset or power loss at any time, and cfg_init after it.
Reboot ==
  /\ badge_cfg' = Loaded
  /\ doing' = "nothing" /\ score' = {}
  /\ UNCHANGED <<flash, kept, fresh, best>>

cfgNext == Configure \/ SaveHead \/ SaveRest \/ show_score \/ WriteScore \/ Reboot

cfgSpec == cfgInit /\ [][cfgNext]_cfgVars

-----------------------------------------------------------------------------
\* Type correctness: what a boot loads is a configuration.
cfgTypeOK ==
  /\ badge_cfg \in Configs
  /\ flash \in Record
  /\ doing \in {"nothing", "save", "score"}
  /\ score \in Scores /\ best \in Scores
  /\ kept \in Configs \cup {NoConfig} /\ fresh \in BOOLEAN

\* A configuration saved to an erased record is the one every later boot loads, until
\* the next save or high score: writing field by field over two pages loses nothing.
FirstSaveSurvives == kept # NoConfig /\ fresh => Loaded = kept

\* The score read back, under bytes that the configuration is written to as well, is
\* the one last written or none: never a mixture that would be shown as the best.
HighScoreReal == data_read_highscore \in {{}, best}

\* Nothing that is read back, a configuration or a score, is a mixture of both.
ScoreSafe == cfgTypeOK /\ HighScoreReal

\* BadgeBLE.md:199 says of save_cfg "Save configs to flash.": what was saved last is
\* what the next boot loads.
SavedSurvives == kept # NoConfig => Loaded = kept

=============================================================================
