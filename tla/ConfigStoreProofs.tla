------------------------- MODULE ConfigStoreProofs --------------------------
(***************************************************************************)
(* Proofs about ConfigStore, for every set of configurations and scores,   *)
(* and that DataFlash runs it and BootOta as they are: what is proved of   *)
(* the two (BootOtaProofs) holds of the data flash as a whole.             *)
(***************************************************************************)
EXTENDS DataFlash, TLAPS

\* Erased flash with the first part of a configuration written to it.
HeadOnly(c) == [head |-> c.head, mark |-> Bits, speed |-> Bits, tail |-> Bits,
                crc |-> Configs]

\* What the two halves of a save and of a high score find.
Halves ==
  /\ doing = "save" =>
       /\ kept = NoConfig
       /\ fresh => flash = HeadOnly(badge_cfg)
  /\ doing = "score" => kept = NoConfig /\ flash.mark = Bits /\ flash.speed = Bits

\* The record of a configuration that was written to erased flash.
Stored(c) == [head |-> c.head, mark |-> c.mark, speed |-> c.speed, tail |-> c.tail,
              crc |-> {c}]

KeptStored == kept # NoConfig /\ fresh => flash = Stored(kept)

ScoreStored == flash.mark = Magic => flash.speed = best

IInv == cfgTypeOK /\ Halves /\ KeptStored /\ ScoreStored

-----------------------------------------------------------------------------
\* What is loaded is always a configuration: cfg_init never takes over a record that
\* no configuration has.
LEMMA LoadedIsConfig == cfgTypeOK => Loaded \in Configs
<1>1. SUFFICES ASSUME cfgTypeOK, flash.crc = {Contents} PROVE Contents \in Configs
  BY ConfigsAssumption DEF Loaded
<1>2. flash.crc \in SUBSET Configs
  BY <1>1 DEF cfgTypeOK, Record
<1> QED BY <1>1, <1>2

LEMMA Initial == cfgInit => IInv
<1>1. SUFFICES ASSUME cfgInit PROVE IInv
  OBVIOUS
<1>2. cfgTypeOK
  BY <1>1, ConfigsAssumption, ScoresAssumption DEF cfgInit, cfgTypeOK, Record, Blank
<1>3. Bits # Magic
  BY DEF Bits, Magic
<1> QED BY <1>1, <1>2, <1>3 DEF cfgInit, IInv, Halves, KeptStored, ScoreStored, Blank

\* Writing clears bits: the record keeps its type.
LEMMA TypeStep == cfgTypeOK /\ [cfgNext]_cfgVars => cfgTypeOK'
<1> SUFFICES ASSUME cfgTypeOK, [cfgNext]_cfgVars PROVE cfgTypeOK'
  OBVIOUS
<1> USE DEF cfgTypeOK
<1>0. badge_cfg \in Fields
  BY ConfigsAssumption
<1>1. CASE Configure
  BY <1>1 DEF Configure
<1>2. CASE SaveHead
  BY <1>0, <1>2 DEF SaveHead, Record, Fields
<1>3. CASE SaveRest
  BY <1>0, <1>3 DEF SaveRest, Record, Fields
<1>4. CASE show_score
  BY <1>4 DEF show_score, ErasePage, Record, Blank
<1>5. CASE WriteScore
  BY <1>5, ScoresAssumption DEF WriteScore, Record
<1>6. CASE Reboot
  BY <1>6, LoadedIsConfig, ScoresAssumption DEF Reboot
<1>7. CASE UNCHANGED cfgVars
  BY <1>7 DEF cfgVars
<1> QED BY <1>1, <1>2, <1>3, <1>4, <1>5, <1>6, <1>7 DEF cfgNext

\* Each save and each high score finds what its first half left.
LEMMA HalvesStep == cfgTypeOK /\ Halves /\ [cfgNext]_cfgVars => Halves'
<1> SUFFICES ASSUME cfgTypeOK, Halves, [cfgNext]_cfgVars PROVE Halves'
  OBVIOUS
<1>0. badge_cfg \in Fields /\ flash \in Record
  BY ConfigsAssumption DEF cfgTypeOK
<1>1. CASE Configure
  BY <1>1 DEF Configure, Halves
<1>2. CASE SaveHead
  <2>1. Bits \cap badge_cfg.head = badge_cfg.head
    BY <1>0 DEF Fields
  <2>2. doing' = "save" /\ kept' = NoConfig /\ badge_cfg' = badge_cfg
    BY <1>2 DEF SaveHead
  <2>3. fresh' => flash = Blank
    BY <1>2, Zenon DEF SaveHead
  <2>4. ASSUME flash = Blank PROVE flash' = HeadOnly(badge_cfg)
    <3>1. flash' = [Blank EXCEPT !.head = Bits \cap badge_cfg.head]
      BY <1>2, <2>4 DEF SaveHead, Blank
    <3> QED BY <2>1, <3>1 DEF Blank, HeadOnly
  <2>5. fresh' => flash' = HeadOnly(badge_cfg)'
    BY <2>2, <2>3, <2>4 DEF HeadOnly
  <2> QED BY <2>2, <2>5 DEF Halves
<1>3. CASE SaveRest
  BY <1>3 DEF SaveRest, Halves
<1>4. CASE show_score
  <2>1. doing' = "score"
    BY <1>4 DEF show_score
  <2>2. kept' = NoConfig /\ flash'.mark = Bits /\ flash'.speed = Bits
    BY <1>4 DEF show_score, ErasePage, Blank
  <2> QED BY <2>1, <2>2 DEF Halves
<1>5. CASE WriteScore
  <2>1. doing' = "nothing"
    BY <1>5 DEF WriteScore
  <2> QED BY <2>1 DEF Halves
<1>6. CASE Reboot
  BY <1>6 DEF Reboot, Halves
<1>7. CASE UNCHANGED cfgVars
  BY <1>7 DEF cfgVars, Halves, HeadOnly
<1> QED BY <1>1, <1>2, <1>3, <1>4, <1>5, <1>6, <1>7 DEF cfgNext

LEMMA KeptStep == IInv /\ [cfgNext]_cfgVars => KeptStored'
<1> SUFFICES ASSUME IInv, [cfgNext]_cfgVars PROVE KeptStored'
  OBVIOUS
<1>0. badge_cfg \in Fields /\ badge_cfg \in Configs /\ flash \in Record
  BY ConfigsAssumption DEF IInv, cfgTypeOK
<1>1. CASE Configure
  BY <1>1 DEF Configure, IInv, KeptStored, Stored
<1>2. CASE SaveHead
  BY <1>2 DEF SaveHead, KeptStored
<1>3. CASE SaveRest
  <2>1. SUFFICES ASSUME fresh PROVE flash' = Stored(badge_cfg)
    BY <1>3 DEF SaveRest, KeptStored
  <2>2. flash = HeadOnly(badge_cfg)
    BY <1>3, <2>1 DEF SaveRest, IInv, Halves
  <2>3. /\ Bits \cap badge_cfg.mark = badge_cfg.mark
        /\ Bits \cap badge_cfg.speed = badge_cfg.speed
        /\ Bits \cap badge_cfg.tail = badge_cfg.tail
        /\ Configs \cap {badge_cfg} = {badge_cfg}
    BY <1>0 DEF Fields
  <2> QED BY <1>3, <2>2, <2>3 DEF SaveRest, HeadOnly, Stored
<1>4. CASE show_score
  BY <1>4 DEF show_score, ErasePage, KeptStored
<1>5. CASE WriteScore
  BY <1>5 DEF WriteScore, IInv, Halves, KeptStored
<1>6. CASE Reboot
  BY <1>6 DEF Reboot, IInv, KeptStored, Stored
<1>7. CASE UNCHANGED cfgVars
  BY <1>7 DEF cfgVars, IInv, KeptStored, Stored
<1> QED BY <1>1, <1>2, <1>3, <1>4, <1>5, <1>6, <1>7 DEF cfgNext

LEMMA ScoreStep == IInv /\ [cfgNext]_cfgVars => ScoreStored'
<1> SUFFICES ASSUME IInv, [cfgNext]_cfgVars PROVE ScoreStored'
  OBVIOUS
<1>0. badge_cfg \in Configs /\ flash \in Record /\ score \in SUBSET Bits
  BY ScoresAssumption DEF IInv, cfgTypeOK
<1>1. CASE Configure
  BY <1>1 DEF Configure, IInv, ScoreStored
<1>2. CASE SaveHead
  BY <1>0, <1>2 DEF SaveHead, IInv, ScoreStored, Record
<1>3. CASE SaveRest
  <2>1. 1 \notin flash'.mark
    BY <1>0, <1>3, ConfigsAssumption DEF SaveRest, Record
  <2> QED BY <2>1 DEF ScoreStored, Magic
<1>4. CASE show_score
  <2>1. flash'.mark = Bits
    BY <1>4 DEF show_score, ErasePage, Blank
  <2> QED BY <2>1 DEF ScoreStored, Magic, Bits
<1>5. CASE WriteScore
  <2>1. Bits \cap score = score
    BY <1>0
  <2> QED BY <1>0, <1>5, <2>1 DEF WriteScore, IInv, Halves, ScoreStored, Record
<1>6. CASE Reboot
  BY <1>6 DEF Reboot, IInv, ScoreStored
<1>7. CASE UNCHANGED cfgVars
  BY <1>7 DEF cfgVars, IInv, ScoreStored
<1> QED BY <1>1, <1>2, <1>3, <1>4, <1>5, <1>6, <1>7 DEF cfgNext

LEMMA Inductive == cfgSpec => []IInv
<1>1. IInv /\ [cfgNext]_cfgVars => IInv'
  BY TypeStep, HalvesStep, KeptStep, ScoreStep DEF IInv
<1> QED BY Initial, <1>1, PTL DEF cfgSpec

-----------------------------------------------------------------------------
\* The badge always runs with a configuration that was set as a whole, whatever
\* record a power loss left (cfg_init).
THEOREM TypeCorrect == cfgSpec => []cfgTypeOK
<1>1. IInv => cfgTypeOK
  BY DEF IInv
<1> QED BY Inductive, <1>1, PTL

\* A configuration saved to erased flash is loaded at every later boot until the next
\* save or high score (cfg_writeflash, cfg_init).
THEOREM FirstSaveSurvivesHolds == cfgSpec => []FirstSaveSurvives
<1>1. IInv => FirstSaveSurvives
  <2>1. SUFFICES ASSUME IInv, kept # NoConfig, fresh PROVE Loaded = kept
    BY DEF FirstSaveSurvives
  <2>2. flash = Stored(kept) /\ kept \in Fields
    BY <2>1, ConfigsAssumption DEF IInv, KeptStored, cfgTypeOK
  <2>3. Contents = kept
    BY <2>2 DEF Contents, Stored, Fields
  <2> QED BY <2>2, <2>3 DEF Loaded, Stored
<1> QED BY Inductive, <1>1, PTL

\* data_read_highscore returns the score last written or none.
THEOREM HighScoreRealHolds == cfgSpec => []HighScoreReal
<1>1. IInv => HighScoreReal
  BY DEF IInv, ScoreStored, HighScoreReal, data_read_highscore
<1> QED BY Inductive, <1>1, PTL

\* Nothing that is read back, a configuration or a score, is a mixture of both
\* (config.c, data.c).
THEOREM ScoreSafeHolds == cfgSpec => []ScoreSafe
<1>1. cfgTypeOK /\ HighScoreReal => ScoreSafe
  BY DEF ScoreSafe
<1> QED BY <1>1, TypeCorrect, HighScoreRealHolds, PTL

-----------------------------------------------------------------------------
\* Sharing the data flash and its resets, the boot record and the configuration each
\* behave as they do alone (main.c:965-968, peripheral.c:474-516, config.c, data.c).
THEOREM DataFlashParts == DataSpec => Spec /\ cfgSpec
<1>1. DataInit => Init /\ cfgInit
  BY DEF DataInit
<1>2. [DataNext]_dataVars => [Next]_vars
  BY Zenon DEF DataNext, dataVars, Boots, Updates, Configures, Resets, Next, Loader, App
<1>3. [DataNext]_dataVars => [cfgNext]_cfgVars
  BY Zenon DEF DataNext, dataVars, Boots, Updates, Configures, Resets, cfgNext
<1> QED BY <1>1, <1>2, <1>3, PTL DEF DataSpec, Spec, cfgSpec

=============================================================================
