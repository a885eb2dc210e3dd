------------------------------ MODULE MCTools -------------------------------
(* The tools around the memory share no state and no process: a behaviour of *)
(* the run is a behaviour of one of them, chosen by `part`.                  *)
EXTENDS Spool, SpoolRead, Recovery, SkillSync, Setup, ToolCompactor,
        ContentCompressor, Continuity

CONSTANTS c1, c2, l1, l2, l3

VARIABLE part

MCClients == <<c1, c2>>

\* The third client reads the first one's folder as well.
MCRows == <<l1, l2, l3>>
MCScans == [l \in {l1, l2, l3} |-> IF l = l3 THEN {l1} ELSE {}]

\* Runs, proxies, texts and memories are each treated alike by their tool, and no
\* tool knows of another's: they have the same names here, to be permuted at once.
MCAlike == Permutations(Texts)

ToolsInit ==
  /\ part \in {"spool", "read", "recovery", "skills", "setup", "compactor", "compressor",
              "continuity"}
  /\ SpoolInit /\ RecoveryInit /\ SkillInit /\ SetupInit /\ CompactorInit /\ CompressorInit
  /\ SpoolReadInit /\ ContinuityInit
  /\ part # "read" => total = 0 /\ query.limit = CHOOSE n \in Limits : TRUE
  /\ part # "skills" => symlinks = "yes"
  /\ part # "setup" => local.db = "none" /\ \A c \in AllClients : config[c] = Absent
  /\ part # "compactor" => format = "openai"
  /\ part # "compressor" => kind = "text"

ToolsNext ==
  /\ UNCHANGED part
  /\ \/ part = "spool" /\ SpoolNext
        /\ UNCHANGED <<recoveryVars, skillVars, setupVars, compactorVars, compressorVars,
                      continuityVars, spoolReadVars>>
     \/ part = "recovery" /\ RecoveryNext
        /\ UNCHANGED <<spoolVars, skillVars, setupVars, compactorVars, compressorVars,
                      continuityVars, spoolReadVars>>
     \/ part = "skills" /\ SkillNext
        /\ UNCHANGED <<spoolVars, recoveryVars, setupVars, compactorVars, compressorVars,
                      continuityVars, spoolReadVars>>
     \/ part = "setup" /\ SetupNext
        /\ UNCHANGED <<spoolVars, recoveryVars, skillVars, compactorVars, compressorVars,
                      continuityVars, spoolReadVars>>
     \/ part = "compactor" /\ CompactorNext
        /\ UNCHANGED <<spoolVars, recoveryVars, skillVars, setupVars, compressorVars,
                      continuityVars, spoolReadVars>>
     \/ part = "compressor" /\ Grow
        /\ UNCHANGED <<spoolVars, recoveryVars, skillVars, setupVars, compactorVars,
                      continuityVars, spoolReadVars>>
     \/ part = "continuity" /\ ContinuityNext
        /\ UNCHANGED <<spoolVars, recoveryVars, skillVars, setupVars, compactorVars,
                      compressorVars, spoolReadVars>>
     \/ part = "read" /\ SpoolReadNext
        /\ UNCHANGED <<spoolVars, recoveryVars, skillVars, setupVars, compactorVars,
                      compressorVars, continuityVars>>

ToolsSpec ==
  ToolsInit /\ [][ToolsNext]_<<part, spoolVars, spoolReadVars, recoveryVars, skillVars, setupVars,
                              compactorVars, compressorVars, continuityVars>>

\* The component's variables keep their types.
ToolsTypeOK ==
  /\ part = "spool" => SpoolTypeOK
  /\ part = "read" => SpoolReadTypeOK
  /\ part = "recovery" => RecoveryTypeOK
  /\ part = "skills" => SkillTypeOK
  /\ part = "setup" => SetupTypeOK
  /\ part = "compactor" => CompactorTypeOK
  /\ part = "compressor" => CompressorTypeOK
  /\ part = "continuity" => ContinuityTypeOK
=============================================================================
