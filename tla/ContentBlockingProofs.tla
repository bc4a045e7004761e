------------------------ MODULE ContentBlockingProofs ------------------------
(***************************************************************************)
(* For any number of list versions, any faults of disk and input, any      *)
(* tables and any threads that flush events: which lists the blocker in    *)
(* use is of, and when the shell shows what is saved.                      *)
(***************************************************************************)
EXTENDS ContentBlocking, SequenceTheorems, WellFoundedInduction, TLAPS

(***************************************************************************)
(* The cache                                                               *)
(***************************************************************************)

\* No file is from lists newer than the installed ones: without downgrades.
NotNewer == \A f \in File : files[f] \in Version => files[f] <= installed

\* An artifact is at least as new as the fingerprint beside it; and when the
\* fingerprint is about to be written the artifact is of the installed lists, or
\* is none; unless its last write failed.
Backed(file, print, at) ==
  file \notin refused =>
    /\ (files[file] \in Version /\ files[print] \in Version) => files[print] <= files[file]
    /\ at = print => files[file] \in {installed, Torn, Missing}

\* A fingerprint of the installed lists stands beside whole rules, unless the last
\* write of the rules failed.
RulesWhole ==
  "json" \notin refused =>
    /\ files["json_fp"] \in Version =>
         files["json"] \in Version \/ (files["json"] = Torn /\ files["json_fp"] < installed)
    /\ step = "json" => files["json_fp"] # installed
    /\ step = "json_fp" => files["json"] = installed

\* Engine and rules are set after their files are written.
BeforeEngine == {"off", "lists", "dat", "dat_fp", "set_engine"}
BeforeRules == BeforeEngine \cup {"rules", "json", "json_fp", "set_rules"}
NotYetSet ==
  /\ step \in BeforeEngine => engine = Missing
  /\ step \in BeforeRules => rules = Missing

CacheInv ==
  /\ CacheTypeOK
  /\ NotNewer
  /\ Backed("dat", "dat_fp", step) /\ Backed("json", "json_fp", step)
  /\ RulesWhole
  /\ writing => files[step] = Torn
  /\ NotYetSet
  /\ CacheMatchesLists

CacheNext ==
  \/ InitStep \/ RefuseFile \/ InitFails
  \/ CacheLaunch \/ CacheEnds \/ InstallLists

\* Versions are numbers, and Missing and Torn are none.
LEMMA VersionFacts ==
  /\ Version \subseteq Nat
  /\ Missing \notin Version /\ Torn \notin Version /\ Missing # Torn
  BY VersionsIsPos, NoVersion DEF Version

\* What a file that holds a version holds.
LEMMA FileFacts ==
  ASSUME CacheInv, NEW f \in File
  PROVE  /\ installed \in Nat
         /\ files[f] \in Version \cup {Missing, Torn}
         /\ files[f] \in Version => files[f] \in Nat /\ files[f] <= installed
  BY VersionFacts DEF CacheInv, CacheTypeOK, NotNewer

LEMMA FileNames == "dat" \in File /\ "dat_fp" \in File /\ "json" \in File /\ "json_fp" \in File
  BY DEF File

\* The file written next.
LEMMA BuiltType ==
  ASSUME NEW f \in File
  PROVE  Built[f] \in {"dat_fp", "set_engine", "json_fp", "set_rules"}
  BY DEF File, Built

LEMMA CacheInitInv == CacheInit => CacheInv
  BY VersionFacts DEF CacheInit, CacheInv, CacheTypeOK, NotNewer, Backed, RulesWhole, File,
     NotYetSet, CacheMatchesLists

\* Every step keeps the types.
LEMMA CacheTypeInv ==
  ASSUME CacheTypeOK, CacheNext \/ UNCHANGED cacheVars
  PROVE  CacheTypeOK'
<1>1. CASE OpenFile
  BY <1>1 DEF OpenFile, CacheTypeOK, File
<1>2. CASE FillFile \/ RefuseFile
  <2>1. step \in File /\ installed \in Version
    BY <1>2 DEF FillFile, RefuseFile, CacheTypeOK
  <2>2. step' \in {"dat_fp", "set_engine", "json_fp", "set_rules"}
    BY <1>2, <2>1, BuiltType DEF FillFile, RefuseFile
  <2>3. files' \in [File -> Version \cup {Missing, Torn}]
    BY <1>2, <2>1 DEF FillFile, RefuseFile, CacheTypeOK
  <2>4. ~writing' /\ refused' \subseteq Artifact /\ UNCHANGED <<installed, engine, rules>>
    BY <1>2 DEF FillFile, RefuseFile, CacheTypeOK
  <2> QED BY <2>2, <2>3, <2>4, <1>2 DEF CacheTypeOK, File, FillFile, RefuseFile
<1>3. CASE LoadEngine \/ SetEngine
  BY <1>3 DEF LoadEngine, SetEngine, CacheTypeOK, File
<1>4. CASE LoadRules \/ SetRules
  <2>1. files["json"] \in Version \cup {Missing, Torn}
    BY FileNames DEF CacheTypeOK
  <2> QED BY <1>4, <2>1 DEF LoadRules, SetRules, CacheTypeOK, File
<1>5. CASE InitFails \/ CacheLaunch
  BY <1>5 DEF InitFails, CacheLaunch, CacheTypeOK, File
<1>6. CASE CacheEnds
  BY <1>6 DEF CacheEnds, CacheTypeOK, File
<1>7. CASE InstallLists
  BY <1>7 DEF InstallLists, CacheTypeOK, File
<1>8. CASE UNCHANGED cacheVars
  BY <1>8 DEF cacheVars, CacheTypeOK
<1> QED BY <1>1, <1>2, <1>3, <1>4, <1>5, <1>6, <1>7, <1>8 DEF CacheNext, InitStep

\* The engine is taken from the cache when its fingerprint is current.
LEMMA LoadEngineInv ==
  ASSUME CacheInv, LoadEngine
  PROVE  CacheInv'
<1>1. CacheTypeOK'
  BY CacheTypeInv DEF CacheInv, CacheNext, InitStep
<1>2. NotNewer'
  BY VersionFacts DEF LoadEngine, CacheInv, CacheTypeOK, NotNewer, File
<1>3. Backed("dat", "dat_fp", step)' /\ Backed("json", "json_fp", step)'
  BY VersionFacts DEF LoadEngine, CacheInv, CacheTypeOK, NotNewer, Backed, File
<1>4. RulesWhole'
  BY VersionFacts DEF LoadEngine, CacheInv, CacheTypeOK, NotNewer, RulesWhole, File
<1>5. (writing => files[step] = Torn)' /\ NotYetSet'
  BY VersionFacts DEF LoadEngine, CacheInv, CacheTypeOK, File, Artifact, NotYetSet, BeforeEngine, BeforeRules
<1>6. CacheMatchesLists'
  <2>1. files["dat_fp"] = installed /\ files["dat"] \in Version
        => files["dat"] = installed \/ "dat" \in refused
    BY FileFacts, FileNames DEF CacheInv, CacheTypeOK, Backed
  <2> QED BY <2>1 DEF LoadEngine, CacheInv, CacheMatchesLists
<1> QED BY <1>1, <1>2, <1>3, <1>4, <1>5, <1>6 DEF CacheInv

\* The engine was built from the installed lists.
LEMMA SetEngineInv ==
  ASSUME CacheInv, SetEngine
  PROVE  CacheInv'
<1>1. CacheTypeOK'
  BY CacheTypeInv DEF CacheInv, CacheNext, InitStep
<1>2. NotNewer'
  BY VersionFacts DEF SetEngine, CacheInv, CacheTypeOK, NotNewer, File
<1>3. Backed("dat", "dat_fp", step)' /\ Backed("json", "json_fp", step)'
  BY VersionFacts DEF SetEngine, CacheInv, CacheTypeOK, NotNewer, Backed, File
<1>4. RulesWhole'
  BY VersionFacts DEF SetEngine, CacheInv, CacheTypeOK, NotNewer, RulesWhole, File
<1>5. (writing => files[step] = Torn)' /\ NotYetSet'
  BY VersionFacts DEF SetEngine, CacheInv, CacheTypeOK, File, Artifact, NotYetSet, BeforeEngine, BeforeRules
<1>6. CacheMatchesLists'
  BY VersionFacts DEF SetEngine, CacheInv, CacheTypeOK, NotNewer, Backed, RulesWhole, CacheMatchesLists, File
<1> QED BY <1>1, <1>2, <1>3, <1>4, <1>5, <1>6 DEF CacheInv

\* Rules beside a current fingerprint are current, or a piece.
LEMMA LoadRulesInv ==
  ASSUME CacheInv, LoadRules
  PROVE  CacheInv'
<1>1. CacheTypeOK'
  BY CacheTypeInv DEF CacheInv, CacheNext, InitStep
<1>2. NotNewer'
  BY VersionFacts DEF LoadRules, CacheInv, CacheTypeOK, NotNewer, File
<1>3. Backed("dat", "dat_fp", step)' /\ Backed("json", "json_fp", step)'
  BY VersionFacts DEF LoadRules, CacheInv, CacheTypeOK, NotNewer, Backed, File
<1>4. RulesWhole'
  BY VersionFacts DEF LoadRules, CacheInv, CacheTypeOK, NotNewer, RulesWhole, File
<1>5. (writing => files[step] = Torn)' /\ NotYetSet'
  BY VersionFacts DEF LoadRules, CacheInv, CacheTypeOK, File, Artifact, NotYetSet, BeforeEngine, BeforeRules
<1>6. CacheMatchesLists'
  <2>1. files["json_fp"] = installed /\ files["json"] \in Version
        => files["json"] = installed \/ "json" \in refused
    BY FileFacts, FileNames DEF CacheInv, CacheTypeOK, Backed
  <2>2. files["json_fp"] = installed /\ files["json"] = Torn => "json" \in refused
    BY FileFacts, FileNames, VersionFacts DEF CacheInv, CacheTypeOK, RulesWhole
  <2>3. files["json"] \in Version \cup {Missing, Torn}
    BY FileFacts, FileNames
  <2> QED BY <2>1, <2>2, <2>3 DEF LoadRules, CacheInv, CacheMatchesLists
<1> QED BY <1>1, <1>2, <1>3, <1>4, <1>5, <1>6 DEF CacheInv

\* The rules were compiled from the installed lists.
LEMMA SetRulesInv ==
  ASSUME CacheInv, SetRules
  PROVE  CacheInv'
<1>1. CacheTypeOK'
  BY CacheTypeInv DEF CacheInv, CacheNext, InitStep
<1>2. NotNewer'
  BY VersionFacts DEF SetRules, CacheInv, CacheTypeOK, NotNewer, File
<1>3. Backed("dat", "dat_fp", step)' /\ Backed("json", "json_fp", step)'
  BY VersionFacts DEF SetRules, CacheInv, CacheTypeOK, NotNewer, Backed, File
<1>4. RulesWhole'
  BY VersionFacts DEF SetRules, CacheInv, CacheTypeOK, NotNewer, RulesWhole, File
<1>5. (writing => files[step] = Torn)' /\ NotYetSet'
  BY VersionFacts DEF SetRules, CacheInv, CacheTypeOK, File, Artifact, NotYetSet, BeforeEngine, BeforeRules
<1>6. CacheMatchesLists'
  BY VersionFacts DEF SetRules, CacheInv, CacheTypeOK, NotNewer, Backed, RulesWhole, CacheMatchesLists, File
<1> QED BY <1>1, <1>2, <1>3, <1>4, <1>5, <1>6 DEF CacheInv

\* A start that fails leaves everything as it is.
LEMMA InitFailsInv ==
  ASSUME CacheInv, InitFails
  PROVE  CacheInv'
<1>1. CacheTypeOK'
  BY CacheTypeInv DEF CacheInv, CacheNext
<1>2. NotNewer'
  BY VersionFacts DEF InitFails, CacheInv, CacheTypeOK, NotNewer, File
<1>3. Backed("dat", "dat_fp", step)' /\ Backed("json", "json_fp", step)'
  BY VersionFacts DEF InitFails, CacheInv, CacheTypeOK, NotNewer, Backed, File
<1>4. RulesWhole'
  BY VersionFacts DEF InitFails, CacheInv, CacheTypeOK, NotNewer, RulesWhole, File
<1>5. (writing => files[step] = Torn)' /\ NotYetSet'
  BY VersionFacts DEF InitFails, CacheInv, CacheTypeOK, File, Artifact, NotYetSet, BeforeEngine, BeforeRules
<1>6. CacheMatchesLists'
  BY VersionFacts DEF InitFails, CacheInv, CacheTypeOK, NotNewer, Backed, RulesWhole, CacheMatchesLists, File
<1> QED BY <1>1, <1>2, <1>3, <1>4, <1>5, <1>6 DEF CacheInv

\* The truncated file is no version any more; its neighbour is what it was.
LEMMA OpenFileInv ==
  ASSUME CacheInv, OpenFile
  PROVE  CacheInv'
<1>1. CacheTypeOK'
  BY CacheTypeInv DEF CacheInv, CacheNext, InitStep
<1>2. NotNewer'
  BY VersionFacts DEF OpenFile, CacheInv, CacheTypeOK, NotNewer, File
<1>3. Backed("dat", "dat_fp", step)' /\ Backed("json", "json_fp", step)'
  BY VersionFacts DEF OpenFile, CacheInv, CacheTypeOK, NotNewer, Backed, File
<1>4. RulesWhole'
  <2>1. files["json_fp"] \in Version /\ files["json_fp"] # installed => files["json_fp"] < installed
    BY FileFacts, FileNames
  <2>2. step \in File /\ files' = [files EXCEPT ![step] = Torn]
        /\ step' = step /\ installed' = installed /\ refused' = refused
    BY DEF OpenFile
  <2>3. files \in [File -> Version \cup {Missing, Torn}]
    BY DEF CacheInv, CacheTypeOK
  <2>4. CASE step = "json"
    BY <2>1, <2>2, <2>3, <2>4, FileNames, VersionFacts DEF CacheInv, RulesWhole
  <2>5. CASE step = "json_fp"
    BY <2>2, <2>3, <2>5, FileNames, VersionFacts DEF CacheInv, RulesWhole
  <2>6. CASE step \in {"dat", "dat_fp"}
    BY <2>2, <2>3, <2>6, FileNames, VersionFacts DEF CacheInv, RulesWhole
  <2> QED BY <2>2, <2>4, <2>5, <2>6 DEF File
<1>5. (writing => files[step] = Torn)' /\ NotYetSet'
  BY VersionFacts DEF OpenFile, CacheInv, CacheTypeOK, File, Artifact, NotYetSet, BeforeEngine, BeforeRules
<1>6. CacheMatchesLists'
  BY VersionFacts DEF OpenFile, CacheInv, CacheTypeOK, NotNewer, Backed, RulesWhole, CacheMatchesLists, File
<1> QED BY <1>1, <1>2, <1>3, <1>4, <1>5, <1>6 DEF CacheInv

\* The file that is whole now is of the installed lists, which are the newest.
LEMMA FillFileInv ==
  ASSUME CacheInv, FillFile
  PROVE  CacheInv'
<1>1. CacheTypeOK'
  BY CacheTypeInv DEF CacheInv, CacheNext, InitStep
<1>2. NotNewer'
  BY VersionFacts DEF FillFile, Built, CacheInv, CacheTypeOK, NotNewer, File
<1>3. Backed("dat", "dat_fp", step)' /\ Backed("json", "json_fp", step)'
  BY VersionFacts DEF FillFile, Built, CacheInv, CacheTypeOK, NotNewer, Backed, File
<1>4. RulesWhole'
  BY VersionFacts DEF FillFile, Built, CacheInv, CacheTypeOK, NotNewer, RulesWhole, File
<1>5. (writing => files[step] = Torn)' /\ NotYetSet'
  BY VersionFacts DEF FillFile, Built, CacheInv, CacheTypeOK, File, Artifact, NotYetSet, BeforeEngine, BeforeRules
<1>6. CacheMatchesLists'
  <2>1. step = "dat" => engine = Missing
    BY DEF CacheInv, NotYetSet, BeforeEngine
  <2>2. step = "json" => rules = Missing
    BY DEF CacheInv, NotYetSet, BeforeRules
  <2>3. refused' = refused \ {step} /\ UNCHANGED <<installed, engine, rules>>
    BY DEF FillFile
  <2> QED BY <2>1, <2>2, <2>3 DEF CacheInv, CacheMatchesLists
<1> QED BY <1>1, <1>2, <1>3, <1>4, <1>5, <1>6 DEF CacheInv

\* A write that fails leaves what it finds or has opened, and is remembered.
LEMMA RefuseFileInv ==
  ASSUME CacheInv, RefuseFile
  PROVE  CacheInv'
<1>1. CacheTypeOK'
  BY CacheTypeInv DEF CacheInv, CacheNext
<1>2. NotNewer'
  BY VersionFacts DEF RefuseFile, Built, CacheInv, CacheTypeOK, NotNewer, File
<1>a. /\ step \in File /\ step' = Built[step] /\ UNCHANGED <<installed, files>>
      /\ refused \subseteq refused'
      /\ step = "dat" => "dat" \in refused'
      /\ step = "json" => "json" \in refused'
  BY DEF RefuseFile, Artifact
<1>b. /\ step' = "dat_fp" => step = "dat"
      /\ step' = "json_fp" => step = "json"
      /\ step' # "json"
  BY <1>a DEF File, Built
<1>3. Backed("dat", "dat_fp", step)' /\ Backed("json", "json_fp", step)'
  BY <1>a, <1>b DEF CacheInv, Backed
<1>4. RulesWhole'
  BY <1>a, <1>b DEF CacheInv, RulesWhole
<1>5. (writing => files[step] = Torn)' /\ NotYetSet'
  BY VersionFacts DEF RefuseFile, Built, CacheInv, CacheTypeOK, File, Artifact, NotYetSet, BeforeEngine, BeforeRules
<1>6. CacheMatchesLists'
  BY VersionFacts DEF RefuseFile, Built, CacheInv, CacheTypeOK, NotNewer, Backed, RulesWhole, CacheMatchesLists, File
<1> QED BY <1>1, <1>2, <1>3, <1>4, <1>5, <1>6 DEF CacheInv

\* The end of a process leaves the files.
LEMMA CacheEndsInv ==
  ASSUME CacheInv, CacheEnds
  PROVE  CacheInv'
<1>1. CacheTypeOK'
  BY CacheTypeInv DEF CacheInv, CacheNext
<1>2. NotNewer'
  BY VersionFacts DEF CacheEnds, CacheInv, CacheTypeOK, NotNewer, File
<1>3. Backed("dat", "dat_fp", step)' /\ Backed("json", "json_fp", step)'
  BY VersionFacts DEF CacheEnds, CacheInv, CacheTypeOK, NotNewer, Backed, File
<1>4. RulesWhole'
  BY VersionFacts DEF CacheEnds, CacheInv, CacheTypeOK, NotNewer, RulesWhole, File
<1>5. (writing => files[step] = Torn)' /\ NotYetSet'
  BY VersionFacts DEF CacheEnds, CacheInv, CacheTypeOK, File, Artifact, NotYetSet, BeforeEngine, BeforeRules
<1>6. CacheMatchesLists'
  BY VersionFacts DEF CacheEnds, CacheInv, CacheTypeOK, NotNewer, Backed, RulesWhole, CacheMatchesLists, File
<1> QED BY <1>1, <1>2, <1>3, <1>4, <1>5, <1>6 DEF CacheInv

\* A start finds the files.
LEMMA CacheLaunchInv ==
  ASSUME CacheInv, CacheLaunch
  PROVE  CacheInv'
<1>1. CacheTypeOK'
  BY CacheTypeInv DEF CacheInv, CacheNext
<1>2. NotNewer'
  BY VersionFacts DEF CacheLaunch, CacheInv, CacheTypeOK, NotNewer, File
<1>3. Backed("dat", "dat_fp", step)' /\ Backed("json", "json_fp", step)'
  BY VersionFacts DEF CacheLaunch, CacheInv, CacheTypeOK, NotNewer, Backed, File
<1>4. RulesWhole'
  BY VersionFacts DEF CacheLaunch, CacheInv, CacheTypeOK, NotNewer, RulesWhole, File
<1>5. (writing => files[step] = Torn)' /\ NotYetSet'
  BY VersionFacts DEF CacheLaunch, CacheInv, CacheTypeOK, File, Artifact, NotYetSet, BeforeEngine, BeforeRules
<1>6. CacheMatchesLists'
  BY VersionFacts DEF CacheLaunch, CacheInv, CacheTypeOK, NotNewer, Backed, RulesWhole, CacheMatchesLists, File
<1> QED BY <1>1, <1>2, <1>3, <1>4, <1>5, <1>6 DEF CacheInv

LEMMA CacheNextInv ==
  ASSUME "downgrade" \notin CacheFaults, CacheInv, CacheNext \/ UNCHANGED cacheVars
  PROVE  CacheInv'
<1>1. CASE InitStep
  BY <1>1, LoadEngineInv, SetEngineInv, LoadRulesInv, SetRulesInv, OpenFileInv, FillFileInv
     DEF InitStep
<1>2. CASE RefuseFile \/ InitFails
  BY <1>2, RefuseFileInv, InitFailsInv
<1>3. CASE CacheLaunch \/ CacheEnds
  BY <1>3, CacheLaunchInv, CacheEndsInv
<1>4. CASE InstallLists
  <2>1. CacheTypeOK'
    BY <1>4, CacheTypeInv DEF CacheInv, CacheNext
  <2>2. NotNewer'
    <3>1. installed' \in Nat /\ installed < installed' /\ files' = files
      BY <1>4, VersionFacts DEF InstallLists, CacheInv, CacheTypeOK
    <3> QED BY <3>1, FileFacts DEF NotNewer
  <2>3. Backed("dat", "dat_fp", step)' /\ Backed("json", "json_fp", step)'
      BY <1>4, VersionFacts DEF InstallLists, CacheInv, CacheTypeOK, NotNewer, Backed, File
  <2>4. RulesWhole'
    <3>1. installed' \in Nat /\ installed < installed' /\ files' = files
      BY <1>4, VersionFacts DEF InstallLists, CacheInv, CacheTypeOK
    <3>2. step' = "off" /\ refused' = refused
      BY <1>4 DEF InstallLists
    <3> QED BY <3>1, <3>2, FileFacts, FileNames DEF RulesWhole, CacheInv
  <2>5. (writing => files[step] = Torn)' /\ NotYetSet'
      BY <1>4, VersionFacts DEF InstallLists, CacheInv, CacheTypeOK, File, Artifact, NotYetSet, BeforeEngine, BeforeRules
  <2>6. CacheMatchesLists'
    BY <1>4 DEF InstallLists, CacheInv, NotYetSet, BeforeEngine, BeforeRules, CacheMatchesLists
  <2> QED BY <2>1, <2>2, <2>3, <2>4, <2>5, <2>6 DEF CacheInv
<1>5. CASE UNCHANGED cacheVars
  BY <1>5 DEF cacheVars, CacheInv, CacheTypeOK, NotNewer, Backed, RulesWhole, NotYetSet,
     CacheMatchesLists
<1> QED BY <1>1, <1>2, <1>3, <1>4, <1>5 DEF CacheNext

\* What a step of the system is to the cache.
LEMMA StepOfCache == [Next]_vars => CacheNext \/ UNCHANGED cacheVars
  BY DEF Next, vars, CacheNext, Launch, InitAdblock, Crash, Update, Toggle, WriteToggle,
     UpdateSettings, FlushSettings, TakeBatch, PostBatch, HandleSettingsChanged, OpenView, CloseView, Retry, RulesCompiled

(***************************************************************************)
(* The exceptions and the shell                                            *)
(***************************************************************************)

SwitchTypeOK ==
  /\ setting \in BOOLEAN /\ saved \in BOOLEAN
  /\ pending \in Seq(BOOLEAN) /\ taken \in [Flusher -> Seq(BOOLEAN)]
  /\ events \in Seq(BOOLEAN) /\ mirror \in BOOLEAN
  /\ outdated \subseteq Flusher /\ overtaken \in BOOLEAN

ViewTypeOK ==
  /\ compiled \in BOOLEAN
  /\ view \in [open : BOOLEAN, rules : BOOLEAN, retry : BOOLEAN, compiling : BOOLEAN]

\* No flusher holds the newest event.
NoneInHand == \A f \in Flusher \ outdated : taken[f] = <<>>

\* The newest event says what is saved, be it with the dispatcher or with the one
\* flusher that took it; once posted it is the last, unless it was overtaken, and
\* when the main thread has served them all the shell shows it.
NewestIsSaved ==
  /\ pending # <<>> => pending = <<saved>>
  /\ \A f \in Flusher \ outdated : taken[f] # <<>> => taken[f] = <<saved>>
  /\ pending = <<>> /\ NoneInHand /\ ~overtaken =>
       /\ events = <<>> => mirror = saved
       /\ events # <<>> => events[Len(events)] = saved

ShellInv == SiteTypeOK /\ SwitchTypeOK /\ ViewTypeOK /\ NewestIsSaved

\* Head and rest of a queue.
LEMMA HeadTail ==
  ASSUME NEW S, NEW s \in Seq(S), s # <<>>
  PROVE  /\ Head(s) \in S /\ Head(s) = s[1]
         /\ Tail(s) \in Seq(S) /\ Len(s) \in Nat \ {0} /\ Len(Tail(s)) = Len(s) - 1
         /\ Len(s) = 1 => Tail(s) = <<>>
         /\ Len(s) # 1 => Tail(s) # <<>> /\ Tail(s)[Len(s) - 1] = s[Len(s)]
<1>1. /\ Head(s) \in S /\ Head(s) = s[1]
      /\ Tail(s) \in Seq(S) /\ Len(Tail(s)) = Len(s) - 1
      /\ \A i \in 1 .. Len(Tail(s)) : Tail(s)[i] = s[i + 1]
  BY HeadTailProperties
<1>2. Len(s) \in Nat \ {0}
  BY EmptySeq
<1>3. CASE Len(s) = 1
  <2>1. Len(Tail(s)) = 0
    BY <1>1, <1>3
  <2> QED BY <1>1, <1>3, <2>1, EmptySeq
<1>4. CASE Len(s) # 1
  <2>1. Len(s) - 1 \in 1 .. Len(Tail(s)) /\ Len(s) - 1 + 1 = Len(s) /\ Len(Tail(s)) # 0
    BY <1>1, <1>2, <1>4
  <2>2. Tail(s) # <<>>
    BY <2>1, EmptySeq
  <2> QED BY <1>1, <1>2, <1>4, <2>1, <2>2
<1> QED BY <1>1, <1>2, <1>3, <1>4

LEMMA NoViewType ==
  /\ NoView \in [open : BOOLEAN, rules : BOOLEAN, retry : BOOLEAN, compiling : BOOLEAN]
  /\ [NoView EXCEPT !.open = TRUE] \in
       [open : BOOLEAN, rules : BOOLEAN, retry : BOOLEAN, compiling : BOOLEAN]
  BY DEF NoView

LEMMA InstallType ==
  ASSUME NEW v \in [open : BOOLEAN, rules : BOOLEAN, retry : BOOLEAN, compiling : BOOLEAN], NEW on
  PROVE  InstallContentRules(v, on) \in
           [open : BOOLEAN, rules : BOOLEAN, retry : BOOLEAN, compiling : BOOLEAN]
  BY DEF InstallContentRules

\* An operation of the exceptions keeps their types.
LEMMA SiteInv ==
  ASSUME SiteTypeOK, Toggle \/ WriteToggle \/ SitesEnd \/ UNCHANGED siteVars
  PROVE  SiteTypeOK'
<1>1. CASE Toggle
  <2>1. PICK h \in Toggled, b \in BOOLEAN : SetSiteException(h, b)
    BY <1>1 DEF Toggle
  <2> QED BY <2>1 DEF SetSiteException, SiteTypeOK
<1>2. CASE WriteToggle
  <2> DEFINE op == Head(toggles)
  <2>1. op \in [host : Toggled, enabled : BOOLEAN]
        /\ Tail(toggles) \in Seq([host : Toggled, enabled : BOOLEAN])
    BY <1>2, HeadTail DEF WriteToggle, ApplyToggle, SiteTypeOK
  <2>2. op.host \in Toggled /\ op.enabled \in BOOLEAN
    BY <2>1
  <2>3. exceptions' = Put(exceptions, op.host, op.enabled) /\ toggles' = Tail(toggles)
    BY <1>2 DEF WriteToggle, ApplyToggle
  <2>4. DOMAIN exceptions' = DOMAIN exceptions \cup {op.host}
    BY <2>3 DEF Put
  <2>5. \A h \in DOMAIN exceptions' :
          exceptions'[h] = IF h = op.host THEN op.enabled ELSE exceptions[h]
    BY <2>3 DEF Put
  <2> HIDE DEF op
  <2> QED BY <2>1, <2>2, <2>3, <2>4, <2>5 DEF SiteTypeOK
<1>3. CASE SitesEnd
  BY <1>3 DEF SitesEnd, SiteTypeOK
<1>4. CASE UNCHANGED siteVars
  BY <1>4 DEF siteVars, SiteTypeOK
<1> QED BY <1>1, <1>2, <1>3, <1>4

\* A queue to which one element is added ends in it.
LEMMA AppendedIsLast ==
  ASSUME NEW S, NEW s \in Seq(S), NEW e \in S
  PROVE  /\ s \o <<e>> \in Seq(S) /\ s \o <<e>> # <<>>
         /\ (s \o <<e>>)[Len(s \o <<e>>)] = e
<1>1. s \o <<e>> = Append(s, e)
  OBVIOUS
<1>2. /\ Append(s, e) \in Seq(S) /\ Len(Append(s, e)) = Len(s) + 1
      /\ Append(s, e)[Len(s) + 1] = e
  BY AppendProperties
<1>3. Append(s, e) # <<>>
  BY <1>2, LenProperties, EmptySeq
<1> QED BY <1>1, <1>2, <1>3

\* What is emitted is what was saved, and the batches in hand are old from then on.
LEMMA UpdateSettingsInv ==
  ASSUME ShellInv, UpdateSettings
  PROVE  SwitchTypeOK' /\ NewestIsSaved'
<1>1. PICK on \in BOOLEAN :
        /\ setting' = on
        /\ \/ saved' = on /\ Emit(on)
           \/ UNCHANGED <<saved, pending, outdated>>
  BY DEF UpdateSettings
<1>2. UNCHANGED <<taken, overtaken, events, mirror>> /\ pending = <<>>
  BY DEF UpdateSettings, Room, MainIsFree
<1>3. CASE saved' = on /\ Emit(on)
  <2>1. pending' = <<on>> /\ outdated' = {f \in Flusher : taken[f] # <<>>}
    BY <1>2, <1>3 DEF Emit
  <2>2. pending' \in Seq(BOOLEAN) /\ pending' # <<>>
    BY <1>1, <2>1
  <2>3. SwitchTypeOK'
    BY <1>1, <1>2, <1>3, <2>1, <2>2 DEF ShellInv, SwitchTypeOK
  <2> QED BY <1>2, <1>3, <2>1, <2>2, <2>3 DEF NewestIsSaved
<1>4. CASE UNCHANGED <<saved, pending, outdated>>
  <2>1. SwitchTypeOK'
    BY <1>1, <1>2, <1>4 DEF ShellInv, SwitchTypeOK
  <2> QED BY <1>2, <1>4, <2>1 DEF ShellInv, NewestIsSaved, NoneInHand
<1> QED BY <1>1, <1>3, <1>4

\* The main thread's flush posts the newest event.
LEMMA FlushSettingsInv ==
  ASSUME ShellInv, FlushSettings
  PROVE  SwitchTypeOK' /\ NewestIsSaved'
<1>1. /\ pending' = <<>> /\ overtaken' = FALSE
      /\ UNCHANGED <<setting, saved, taken, outdated, mirror>>
  BY DEF FlushSettings
<1>2. events' = events \o <<saved>>
  BY DEF FlushSettings, ShellInv, NewestIsSaved
<1>3. events \in Seq(BOOLEAN) /\ saved \in BOOLEAN
  BY DEF ShellInv, SwitchTypeOK
<1>4. events' \in Seq(BOOLEAN) /\ events' # <<>> /\ events'[Len(events')] = saved'
  BY <1>1, <1>2, <1>3, AppendedIsLast
<1>5. SwitchTypeOK'
  <2>1. pending' \in Seq(BOOLEAN)
    BY <1>1
  <2> QED BY <1>1, <1>4, <2>1 DEF ShellInv, SwitchTypeOK
<1> QED BY <1>1, <1>4, <1>5 DEF ShellInv, NewestIsSaved

\* Whoever takes the newest event has it in hand until it is posted.
LEMMA TakeBatchInv ==
  ASSUME ShellInv, NEW f \in Flusher, TakeBatch(f)
  PROVE  SwitchTypeOK' /\ NewestIsSaved'
<1>1. /\ pending' = <<>> /\ outdated' = outdated \ {f}
      /\ taken' = [taken EXCEPT ![f] = pending]
      /\ UNCHANGED <<setting, saved, events, overtaken, mirror>>
  BY DEF TakeBatch
<1>2. pending = <<saved>> /\ pending \in Seq(BOOLEAN) /\ pending # <<>>
  BY DEF TakeBatch, ShellInv, SwitchTypeOK, NewestIsSaved
<1>3. taken \in [Flusher -> Seq(BOOLEAN)]
  BY DEF ShellInv, SwitchTypeOK
<1>4. taken' \in [Flusher -> Seq(BOOLEAN)] /\ taken'[f] = pending
      /\ \A g \in Flusher \ {f} : taken'[g] = taken[g]
  BY <1>1, <1>2, <1>3
<1>5. SwitchTypeOK'
  BY <1>1, <1>4 DEF ShellInv, SwitchTypeOK
<1>6. ~NoneInHand'
  BY <1>1, <1>2, <1>4 DEF NoneInHand
<1> QED BY <1>1, <1>2, <1>4, <1>5, <1>6 DEF ShellInv, NewestIsSaved

\* A batch posted is the newest or an old one, and this is noted.
LEMMA PostBatchInv ==
  ASSUME ShellInv, NEW f \in Flusher, PostBatch(f)
  PROVE  SwitchTypeOK' /\ NewestIsSaved'
<1>1. /\ taken[f] # <<>> /\ events' = events \o taken[f]
      /\ taken' = [taken EXCEPT ![f] = <<>>]
      /\ outdated' = outdated \ {f} /\ overtaken' = (f \in outdated)
      /\ UNCHANGED <<setting, saved, pending, mirror>>
  BY DEF PostBatch
<1>2. taken \in [Flusher -> Seq(BOOLEAN)] /\ events \in Seq(BOOLEAN) /\ saved \in BOOLEAN
  BY DEF ShellInv, SwitchTypeOK
<1>3. taken' \in [Flusher -> Seq(BOOLEAN)] /\ taken'[f] = <<>>
      /\ \A g \in Flusher \ {f} : taken'[g] = taken[g]
  BY <1>1, <1>2
<1>4. taken[f] \in Seq(BOOLEAN) /\ events' \in Seq(BOOLEAN)
  BY <1>1, <1>2
<1>5. SwitchTypeOK'
  BY <1>1, <1>3, <1>4 DEF ShellInv, SwitchTypeOK
<1>6. \A g \in Flusher \ outdated' : taken'[g] # <<>> => taken'[g] = <<saved'>>
  BY <1>1, <1>3 DEF ShellInv, NewestIsSaved
<1>7. ~overtaken' => events' # <<>> /\ events'[Len(events')] = saved'
  <2>1. SUFFICES ASSUME f \notin outdated
                 PROVE  events' # <<>> /\ events'[Len(events')] = saved'
    BY <1>1
  <2>2. taken[f] = <<saved>>
    BY <1>1, <2>1 DEF ShellInv, NewestIsSaved
  <2> QED BY <1>1, <1>2, <2>2, AppendedIsLast
<1> QED BY <1>1, <1>5, <1>6, <1>7 DEF ShellInv, NewestIsSaved

\* The event that was the last one brings the shell up to date.
LEMMA HandleInv ==
  ASSUME ShellInv, HandleSettingsChanged
  PROVE  SwitchTypeOK' /\ NewestIsSaved' /\ ViewTypeOK'
<1>1. /\ events # <<>> /\ events' = Tail(events) /\ mirror' = Head(events)
      /\ saved' = saved /\ setting' = setting /\ compiled' = compiled
      /\ UNCHANGED <<pending, taken, outdated, overtaken>>
  BY DEF HandleSettingsChanged, eventVars
<1>2. events \in Seq(BOOLEAN)
  BY DEF ShellInv, SwitchTypeOK
<1>3. /\ Head(events) \in BOOLEAN /\ Head(events) = events[1]
      /\ Tail(events) \in Seq(BOOLEAN) /\ Len(Tail(events)) = Len(events) - 1
      /\ Len(events) = 1 => Tail(events) = <<>>
      /\ Len(events) # 1 => Tail(events) # <<>> /\ Tail(events)[Len(events) - 1] = events[Len(events)]
  BY <1>1, <1>2, HeadTail
<1>4. SwitchTypeOK'
  BY <1>1, <1>3 DEF ShellInv, SwitchTypeOK
<1>5. NewestIsSaved'
  <2>1. CASE Len(events) = 1
    <3>1. Tail(events) = <<>> /\ Head(events) = events[Len(events)]
      BY <1>3, <2>1
    <3> QED BY <1>1, <3>1 DEF ShellInv, NewestIsSaved, NoneInHand
  <2>2. CASE Len(events) # 1
    <3>1. Tail(events) # <<>> /\ Tail(events)[Len(Tail(events))] = events[Len(events)]
      BY <1>3, <2>2
    <3> QED BY <1>1, <3>1 DEF ShellInv, NewestIsSaved, NoneInHand
  <2> QED BY <2>1, <2>2
<1>6. ViewTypeOK'
  <2>1. view' \in {view, InstallContentRules(view, mirror), [view EXCEPT !.rules = FALSE]}
    BY DEF HandleSettingsChanged
  <2> QED BY <1>1, <2>1, InstallType DEF ShellInv, ViewTypeOK
<1> QED BY <1>4, <1>5, <1>6

\* What happens to the view alone.
LEMMA ViewInv ==
  ASSUME ShellInv, OpenView \/ CloseView \/ Retry \/ RulesCompiled
  PROVE  ViewTypeOK'
<1>1. view \in [open : BOOLEAN, rules : BOOLEAN, retry : BOOLEAN, compiling : BOOLEAN]
  BY DEF ShellInv, ViewTypeOK
<1>2. CASE OpenView
  BY <1>2, NoViewType, InstallType DEF OpenView, ShellInv, ViewTypeOK
<1>3. CASE CloseView
  BY <1>3, NoViewType DEF CloseView, ShellInv, ViewTypeOK
<1>4. CASE Retry
  <2>1. [view EXCEPT !.retry = FALSE] \in
          [open : BOOLEAN, rules : BOOLEAN, retry : BOOLEAN, compiling : BOOLEAN]
    BY <1>1
  <2> QED BY <1>4, <2>1, InstallType DEF Retry, ShellInv, ViewTypeOK
<1>5. CASE RulesCompiled
  BY <1>5 DEF RulesCompiled, ShellInv, ViewTypeOK
<1> QED BY <1>2, <1>3, <1>4, <1>5

LEMMA ShellNextInv == ShellInv /\ [Next]_vars => ShellInv'
<1> SUFFICES ASSUME ShellInv, [Next]_vars PROVE ShellInv'
  OBVIOUS
<1>1. CASE Launch
  <2>1. SiteTypeOK'
    BY <1>1, SiteInv DEF Launch, ShellInv
  <2>2. NewestIsSaved'
    <3>1. events = <<>> => mirror' = saved'
      BY <1>1 DEF Launch
    <3> QED BY <1>1, <3>1 DEF Launch, eventVars, ShellInv, NewestIsSaved, NoneInHand
  <2> QED BY <1>1, <2>1, <2>2 DEF Launch, eventVars, ShellInv, SwitchTypeOK, ViewTypeOK
<1>2. CASE InitAdblock \/ Update
  <2>1. UNCHANGED <<siteVars, shellVars>>
    BY <1>2 DEF InitAdblock, Update
  <2>2. SiteTypeOK'
    BY <2>1, SiteInv DEF ShellInv
  <2> QED BY <2>1, <2>2 DEF shellVars, eventVars, ShellInv, SwitchTypeOK, ViewTypeOK,
     NewestIsSaved, NoneInHand
<1>3. CASE Crash
  <2>1. SiteTypeOK'
    BY <1>3, SiteInv DEF Crash, ShellInv
  <2>2. SwitchTypeOK' /\ NewestIsSaved'
    <3>1. /\ pending' = <<>> /\ events' = <<>> /\ outdated' = {} /\ overtaken' = FALSE
          /\ taken' = [f \in Flusher |-> <<>>]
          /\ saved' = saved /\ mirror' = saved /\ setting' = saved
      BY <1>3 DEF Crash
    <3>2. saved \in BOOLEAN /\ <<>> \in Seq(BOOLEAN)
      BY DEF ShellInv, SwitchTypeOK
    <3> QED BY <3>1, <3>2 DEF SwitchTypeOK, NewestIsSaved, NoneInHand
  <2>3. ViewTypeOK'
    BY <1>3, NoViewType DEF Crash, ViewTypeOK
  <2> QED BY <2>1, <2>2, <2>3 DEF ShellInv
<1>4. CASE Toggle \/ WriteToggle
  <2>1. SiteTypeOK'
    BY <1>4, SiteInv DEF ShellInv
  <2>2. UNCHANGED shellVars
    BY <1>4 DEF Toggle, WriteToggle
  <2> QED BY <2>1, <2>2 DEF shellVars, eventVars, ShellInv, SwitchTypeOK, ViewTypeOK,
     NewestIsSaved, NoneInHand
<1>5. CASE UpdateSettings \/ FlushSettings \/ \E f \in Flusher : TakeBatch(f) \/ PostBatch(f)
  <2>1. UNCHANGED <<siteVars, compiled, view>>
    BY <1>5 DEF UpdateSettings, FlushSettings, TakeBatch, PostBatch
  <2>2. SiteTypeOK' /\ ViewTypeOK'
    BY <2>1, SiteInv DEF ShellInv, ViewTypeOK
  <2>3. SwitchTypeOK' /\ NewestIsSaved'
    BY <1>5, UpdateSettingsInv, FlushSettingsInv, TakeBatchInv, PostBatchInv
  <2> QED BY <2>2, <2>3 DEF ShellInv
<1>6. CASE HandleSettingsChanged
  <2>1. SiteTypeOK'
    BY <1>6, SiteInv DEF HandleSettingsChanged, ShellInv
  <2> QED BY <1>6, <2>1, HandleInv DEF ShellInv
<1>7. CASE OpenView \/ CloseView \/ Retry \/ RulesCompiled
  <2>1. UNCHANGED <<siteVars, setting, saved, eventVars, events, mirror>>
    BY <1>7 DEF OpenView, CloseView, Retry, RulesCompiled
  <2>2. SiteTypeOK'
    BY <2>1, SiteInv DEF ShellInv
  <2> QED BY <1>7, <2>1, <2>2, ViewInv DEF eventVars, ShellInv, SwitchTypeOK,
     NewestIsSaved, NoneInHand
<1>8. CASE UNCHANGED vars
  <2>1. UNCHANGED <<siteVars, shellVars>>
    BY <1>8 DEF vars
  <2>2. SiteTypeOK'
    BY <2>1, SiteInv DEF ShellInv
  <2> QED BY <2>1, <2>2 DEF shellVars, eventVars, ShellInv, SwitchTypeOK, ViewTypeOK,
     NewestIsSaved, NoneInHand
<1> QED BY <1>1, <1>2, <1>3, <1>4, <1>5, <1>6, <1>7, <1>8 DEF Next
-----------------------------------------------------------------------------
(***************************************************************************)
(* The lookup                                                              *)
(***************************************************************************)

\* Induction over the naturals, for a set instead of a predicate.
LEMMA SetInduction ==
  ASSUME NEW S, 0 \in S, \A n \in Nat : n \in S => n + 1 \in S
  PROVE  \A n \in Nat : n \in S
<1> DEFINE R == OpToRel(<, Nat)
           T == {n \in Nat : n \notin S}
<1>1. SUFFICES ASSUME T # {}
               PROVE  FALSE
  OBVIOUS
<1>2. PICK m \in T : \A k \in T : <<k, m>> \notin R
  <2>1. T \subseteq Nat
    OBVIOUS
  <2> HIDE DEF R, T
  <2> QED BY <1>1, <2>1, WFMin, NatLessThanWellFounded DEF R
<1>3. \A k \in T : ~(k < m)
  BY <1>2 DEF OpToRel
<1>4. m \in Nat /\ m # 0 /\ m \notin S
  OBVIOUS
<1>5. m - 1 \in Nat /\ m - 1 < m /\ (m - 1) + 1 = m
  BY <1>4, SMT
<1>6. m - 1 \in S
  BY <1>3, <1>5
<1> QED BY <1>4, <1>5, <1>6

\* What a step of the walk says of the n last labels, when `next` is the answer for one less.
StepOfWalk(table, h, n, next) ==
  IF LastLabels(h, n) \in DOMAIN table THEN table[LastLabels(h, n)]
  ELSE IF n > 2 THEN next ELSE TRUE
IsWalk(table, h, walk, n) == walk = [k \in 0 .. n |-> StepOfWalk(table, h, k, walk[k - 1])]

LEMMA WalkExists ==
  ASSUME NEW table, NEW h
  PROVE  \A n \in Nat : \E walk : IsWalk(table, h, walk, n)
<1> DEFINE Walked == {n \in Nat : \E walk : IsWalk(table, h, walk, n)}
<1>1. 0 \in Walked
  <2> DEFINE f == [k \in 0 .. 0 |-> StepOfWalk(table, h, 0, TRUE)]
  <2>1. ASSUME NEW k \in 0 .. 0
        PROVE  StepOfWalk(table, h, 0, TRUE) = StepOfWalk(table, h, k, f[k - 1])
    <3>1. k = 0
      BY SMT
    <3>2. ~(0 > 2)
      BY SMT
    <3> QED BY <3>1, <3>2 DEF StepOfWalk
  <2>2. IsWalk(table, h, f, 0)
    BY <2>1 DEF IsWalk
  <2>3. \E walk : IsWalk(table, h, walk, 0)
    <3> HIDE DEF f
    <3> QED BY <2>2
  <2> QED BY <2>3
<1>2. ASSUME NEW n \in Nat, n \in Walked
      PROVE  n + 1 \in Walked
  <2>1. PICK f : IsWalk(table, h, f, n)
    BY <1>2
  <2> DEFINE g == [k \in 0 .. n + 1 |->
                     IF k <= n THEN f[k] ELSE StepOfWalk(table, h, n + 1, f[n])]
  <2>2. ASSUME NEW k \in 0 .. n + 1
        PROVE  g[k] = StepOfWalk(table, h, k, g[k - 1])
    <3>1. CASE k = 0
      <4>1. 0 \in 0 .. n /\ ~(0 > 2) /\ 0 <= n
        BY SMT
      <4>2. g[k] = StepOfWalk(table, h, 0, f[0 - 1])
        BY <2>1, <3>1, <4>1 DEF IsWalk
      <4> QED BY <3>1, <4>1, <4>2 DEF StepOfWalk
    <3>2. CASE k \in 1 .. n
      <4>1. k \in 0 .. n /\ k <= n /\ k - 1 <= n /\ k - 1 \in 0 .. n + 1
        BY <3>2, SMT
      <4>2. g[k] = f[k] /\ g[k - 1] = f[k - 1]
        BY <4>1
      <4>3. f[k] = StepOfWalk(table, h, k, f[k - 1])
        BY <2>1, <4>1 DEF IsWalk
      <4> QED BY <4>2, <4>3
    <3>3. CASE k = n + 1
      <4>1. k - 1 = n /\ ~(k <= n) /\ n <= n /\ n \in 0 .. n + 1
        BY <3>3, SMT
      <4> QED BY <3>3, <4>1
    <3> QED BY <3>1, <3>2, <3>3, SMT
  <2>3. IsWalk(table, h, g, n + 1)
    BY <2>2 DEF IsWalk
  <2>4. \E walk : IsWalk(table, h, walk, n + 1)
    <3> HIDE DEF g
    <3> QED BY <2>3
  <2> QED BY <2>4, SMT
<1> QED
  <2> HIDE DEF Walked
  <2>1. \A n \in Nat : n \in Walked
    BY <1>1, <1>2, SetInduction
  <2> QED BY <2>1 DEF Walked

\* Labels from the end of h: for what length the walk looks the table up
Looks(h, k) == k \in 1 .. Len(h) /\ (k = Len(h) \/ k > 1)
\* The answer of a walk over the n last labels: that of the longest found, or TRUE
Answers(table, h, n, answer) ==
  /\ (\A k \in 1 .. n : (k = n \/ k > 1) => LastLabels(h, k) \notin DOMAIN table) => answer = TRUE
  /\ \A k \in 1 .. n :
       /\ k = n \/ k > 1
       /\ LastLabels(h, k) \in DOMAIN table
       /\ \A j \in k + 1 .. n : LastLabels(h, j) \notin DOMAIN table
       => answer = table[LastLabels(h, k)]

LEMMA WalkAnswers ==
  ASSUME NEW table, NEW h, NEW m \in Nat, m > 0, NEW walk, IsWalk(table, h, walk, m)
  PROVE  Answers(table, h, m, walk[m])
<1> DEFINE Found(k) == LastLabels(h, k) \in DOMAIN table
           Right == {n \in Nat : n \in 1 .. m => Answers(table, h, n, walk[n])}
<1>1. ASSUME NEW n \in 1 .. m
      PROVE  walk[n] = StepOfWalk(table, h, n, walk[n - 1])
  BY <1>1, SMT DEF IsWalk
<1>2. 0 \in Right
  BY SMT
<1>3. ASSUME NEW n \in Nat, n \in Right
      PROVE  n + 1 \in Right
  <2>1. SUFFICES ASSUME n + 1 \in 1 .. m
                 PROVE  Answers(table, h, n + 1, walk[n + 1])
    BY SMT
  <2>2. walk[n + 1] = StepOfWalk(table, h, n + 1, walk[n])
    BY <1>1, <2>1, SMT
  <2>3. CASE Found(n + 1)
    <3>1. walk[n + 1] = table[LastLabels(h, n + 1)]
      BY <2>2, <2>3 DEF StepOfWalk
    <3>2. ASSUME NEW k \in 1 .. n + 1, \A j \in k + 1 .. n + 1 : ~Found(j)
          PROVE  k = n + 1
      BY <2>3, <3>2, SMT
    <3>3. n + 1 \in 1 .. n + 1
      BY SMT
    <3> QED BY <2>3, <3>1, <3>2, <3>3 DEF Answers
  <2>4. CASE ~Found(n + 1) /\ ~(n + 1 > 2)
    <3>1. walk[n + 1] = TRUE
      BY <2>2, <2>4 DEF StepOfWalk
    <3>2. ASSUME NEW k \in 1 .. n + 1, k = n + 1 \/ k > 1, Found(k)
          PROVE  FALSE
      <4>1. k = n + 1
        BY <2>4, <3>2, SMT
      <4> QED BY <2>4, <3>2, <4>1
    <3> QED BY <3>1, <3>2 DEF Answers
  <2>5. CASE ~Found(n + 1) /\ n + 1 > 2
    <3>1. walk[n + 1] = walk[n]
      BY <2>2, <2>5 DEF StepOfWalk
    <3>2. Answers(table, h, n, walk[n])
      BY <1>3, <2>1, <2>5, SMT
    <3> DEFINE answer == walk[n]
    <3>3. ASSUME \A k \in 1 .. n + 1 : (k = n + 1 \/ k > 1) => ~Found(k)
          PROVE  answer = TRUE
      <4>1. ASSUME NEW k \in 1 .. n, k = n \/ k > 1
            PROVE  ~Found(k)
        <5>1. k \in 1 .. n + 1 /\ k > 1
          BY <2>5, <4>1, SMT
        <5> QED BY <3>3, <5>1
      <4> QED BY <3>2, <4>1 DEF Answers
    <3>4. ASSUME NEW k \in 1 .. n + 1, k = n + 1 \/ k > 1, Found(k),
                 \A j \in k + 1 .. n + 1 : ~Found(j)
          PROVE  answer = table[LastLabels(h, k)]
      <4>1. k # n + 1
        BY <2>5, <3>4
      <4>2. k \in 1 .. n /\ k > 1
        BY <3>4, <4>1, SMT
      <4>3. \A j \in k + 1 .. n : ~Found(j)
        BY <3>4, <4>2, SMT
      <4> QED BY <3>2, <3>4, <4>2, <4>3 DEF Answers
    <3> HIDE DEF answer
    <3>5. Answers(table, h, n + 1, answer)
      BY <3>3, <3>4 DEF Answers
    <3> QED BY <3>1, <3>5 DEF answer
  <2> QED BY <2>3, <2>4, <2>5
<1>4. \A n \in Nat : n \in Right
  <2> HIDE DEF Right
  <2> QED BY <1>2, <1>3, SetInduction
<1> QED BY <1>4, SMT

LEMMA LookupAnswers ==
  ASSUME NEW table, NEW h, Len(h) \in Nat, Len(h) > 0
  PROVE  Answers(table, h, Len(h), BlockingEnabledFor(table, h))
<1> DEFINE walk == CHOOSE f : IsWalk(table, h, f, Len(h))
<1>1. IsWalk(table, h, walk, Len(h))
  BY WalkExists
<1>2. BlockingEnabledFor(table, h) = walk[Len(h)]
  BY DEF BlockingEnabledFor, IsWalk, StepOfWalk
<1> HIDE DEF walk
<1> QED BY <1>1, <1>2, WalkAnswers

Labels == UNION {ToSet(h) : h \in Host}
LEMMA HostIsList ==
  ASSUME NEW h \in Host
  PROVE  h \in Seq(Labels) /\ Len(h) \in Nat /\ Len(h) > 0
<1>1. h \in Seq(ToSet(h)) /\ h # <<>> /\ ToSet(h) \subseteq Labels
  BY HostsHaveLabels DEF Labels
<1>2. h \in Seq(Labels)
  <2> DEFINE S == ToSet(h)
  <2>1. h \in Seq(S) /\ S \subseteq Labels
    BY <1>1
  <2> HIDE DEF S
  <2> QED BY <2>1
<1> QED BY <1>1, <1>2, EmptySeq, SMT

LEMMA LastLabelsFacts ==
  ASSUME NEW S, NEW h \in Seq(S), NEW k \in 1 .. Len(h)
  PROVE  /\ LastLabels(h, k) \in Seq(S) /\ Len(LastLabels(h, k)) = k
         /\ \A i \in 1 .. k : LastLabels(h, k)[i] = h[Len(h) - k + i]
<1> DEFINE m == Len(h) - k + 1
           n == Len(h)
<1>1. Len(h) \in Nat
  BY LenProperties
<1>2. /\ m \in 1 .. Len(h) + 1 /\ n \in m - 1 .. Len(h) /\ m \in Nat /\ n - m + 1 = k
      /\ \A i \in 1 .. k : m + i - 1 = Len(h) - k + i
  BY <1>1, SMT
<1>0. m \in Int /\ n \in Int /\ m <= n /\ \A i \in m .. n : h[i] \in S
  BY <1>1, LenProperties, SMT
<1> HIDE DEF m, n
<1>3. /\ SubSeq(h, m, n) \in Seq(S) /\ Len(SubSeq(h, m, n)) = k
      /\ \A i \in 1 .. k : SubSeq(h, m, n)[i] = h[m + i - 1]
  BY <1>0, <1>2, SubSeqProperties
<1> QED BY <1>2, <1>3 DEF LastLabels, m, n

LEMMA ReverseList ==
  ASSUME NEW S, NEW s \in Seq(S)
  PROVE  /\ Reverse(s) \in Seq(S) /\ Len(Reverse(s)) = Len(s)
         /\ \A i \in 1 .. Len(s) : Reverse(s)[i] = s[Len(s) - i + 1]
<1>1. /\ Len(s) \in Nat /\ s \in [1 .. Len(s) -> S]
      /\ \A i \in 1 .. Len(s) : Len(s) - i + 1 \in 1 .. Len(s)
  BY LenProperties, SMT
<1>2. Reverse(s) = [i \in 1 .. Len(s) |-> s[Len(s) - i + 1]]
  BY DEF Reverse
<1> DEFINE n == Len(s)
<1>3. n \in Nat /\ Reverse(s) \in [1 .. n -> S]
  BY <1>1, <1>2
<1> HIDE DEF n
<1>4. Reverse(s) \in Seq(S) /\ Len(Reverse(s)) = n
  BY <1>3, SMT
<1> QED BY <1>2, <1>4 DEF n

\* A name covers a host when its labels are the last of the host's.
LEMMA SuffixIsLast ==
  ASSUME NEW S, NEW p \in Seq(S), NEW h \in Seq(S), Len(p) > 0
  PROVE  IsSuffix(p, h) <=> Len(p) <= Len(h) /\ p = LastLabels(h, Len(p))
<1> DEFINE n == Len(p)
<1>1. /\ n \in Nat /\ Len(h) \in Nat /\ DOMAIN p = 1 .. n /\ DOMAIN h = 1 .. Len(h)
      /\ p \in [1 .. n -> S] /\ h \in [1 .. Len(h) -> S]
  BY LenProperties
<1>2. /\ Reverse(p) \in Seq(S) /\ Reverse(h) \in Seq(S)
      /\ Len(Reverse(p)) = n /\ Len(Reverse(h)) = Len(h)
      /\ \A i \in 1 .. n : Reverse(p)[i] = p[n - i + 1]
      /\ \A i \in 1 .. Len(h) : Reverse(h)[i] = h[Len(h) - i + 1]
  BY ReverseList DEF n
<1>3. ASSUME n <= Len(h)
      PROVE  /\ Len(SubSeq(Reverse(p), 1, n)) = n /\ Len(SubSeq(Reverse(h), 1, n)) = n
             /\ SubSeq(Reverse(p), 1, n) \in Seq(S) /\ SubSeq(Reverse(h), 1, n) \in Seq(S)
             /\ \A i \in 1 .. n : /\ SubSeq(Reverse(p), 1, n)[i] = p[n - i + 1]
                                  /\ SubSeq(Reverse(h), 1, n)[i] = h[Len(h) - i + 1]
  <2>1. ASSUME NEW q \in Seq(S), n <= Len(q)
        PROVE  /\ Len(SubSeq(q, 1, n)) = n /\ SubSeq(q, 1, n) \in Seq(S)
               /\ \A i \in 1 .. n : SubSeq(q, 1, n)[i] = q[i]
    <3>1. /\ 1 \in Int /\ n \in Int /\ n - 1 + 1 = n /\ (1 <= n \/ n = 0)
          /\ \A i \in 1 .. n : 1 + i - 1 = i /\ q[i] \in S
      BY <1>1, <2>1, LenProperties, SMT
    <3>2. /\ SubSeq(q, 1, n) \in Seq(S)
          /\ Len(SubSeq(q, 1, n)) = IF 1 <= n THEN n - 1 + 1 ELSE 0
          /\ \A i \in 1 .. n - 1 + 1 : SubSeq(q, 1, n)[i] = q[1 + i - 1]
      BY <3>1, SubSeqProperties
    <3> QED BY <3>1, <3>2, SMT
  <2>2. n <= n /\ \A i \in 1 .. n : i \in 1 .. Len(h)
    BY <1>1, <1>3, SMT
  <2> QED BY <1>2, <1>3, <2>1, <2>2
<1>4. ASSUME n <= Len(h)
      PROVE  SubSeq(Reverse(p), 1, n) = SubSeq(Reverse(h), 1, n)
               <=> \A i \in 1 .. n : p[n - i + 1] = h[Len(h) - i + 1]
  <2> DEFINE a == SubSeq(Reverse(p), 1, n)
             b == SubSeq(Reverse(h), 1, n)
  <2>1. /\ Len(a) = n /\ Len(b) = n /\ a \in Seq(S) /\ b \in Seq(S)
        /\ \A i \in 1 .. n : a[i] = p[n - i + 1] /\ b[i] = h[Len(h) - i + 1]
    BY <1>3, <1>4
  <2> HIDE DEF a, b
  <2>2. a = b <=> \A i \in 1 .. n : a[i] = b[i]
    BY <2>1, SeqEqual
  <2> QED BY <2>1, <2>2 DEF a, b
<1>5. ASSUME n <= Len(h)
      PROVE  p = LastLabels(h, n) <=> \A i \in 1 .. n : p[i] = h[Len(h) - n + i]
  <2>1. n \in 1 .. Len(h)
    BY <1>1, <1>5, SMT
  <2>2. /\ LastLabels(h, n) \in Seq(S) /\ Len(LastLabels(h, n)) = n
        /\ \A i \in 1 .. n : LastLabels(h, n)[i] = h[Len(h) - n + i]
    BY <2>1, LastLabelsFacts
  <2> QED BY <2>2, SeqEqual
<1>6. ASSUME n <= Len(h)
      PROVE  (\A i \in 1 .. n : p[n - i + 1] = h[Len(h) - i + 1])
               <=> \A i \in 1 .. n : p[i] = h[Len(h) - n + i]
  <2>1. ASSUME NEW i \in 1 .. n
        PROVE  /\ n - i + 1 \in 1 .. n /\ n - (n - i + 1) + 1 = i
               /\ Len(h) - (n - i + 1) + 1 = Len(h) - n + i
               /\ Len(h) - n + (n - i + 1) = Len(h) - i + 1
    BY <1>1, <2>1, SMT
  <2> QED BY <2>1
<1>7. IsSuffix(p, h) <=> n <= Len(h) /\ SubSeq(Reverse(p), 1, n) = SubSeq(Reverse(h), 1, n)
  BY <1>2 DEF IsSuffix, IsPrefix
<1> QED BY <1>4, <1>5, <1>6, <1>7

\* For every table of hosts: no exception that covers the host, and blocking is on; and
\* of those that cover it the one with most labels decides.
LEMMA LookupDecides ==
  ASSUME NEW table, DOMAIN table \subseteq Host
  PROVE  NearestDecides(table)
<1> SUFFICES ASSUME NEW h \in Host
             PROVE  LET covering == {p \in DOMAIN table : Covers(p, h)}
                    IN  /\ covering = {} => BlockingEnabledFor(table, h)
                        /\ \A p \in covering :
                             (\A q \in covering : Len(q) <= Len(p)) =>
                               BlockingEnabledFor(table, h) = table[p]
  BY DEF NearestDecides
<1> DEFINE covering == {p \in DOMAIN table : Covers(p, h)}
           answer == BlockingEnabledFor(table, h)
           Found(k) == LastLabels(h, k) \in DOMAIN table
<1>1. h \in Seq(Labels) /\ Len(h) \in Nat /\ Len(h) > 0
  BY HostIsList
<1>2. Answers(table, h, Len(h), answer)
  BY <1>1, LookupAnswers
<1>3. LastLabels(h, Len(h)) = h
  <2>1. Len(h) \in 1 .. Len(h) /\ \A i \in 1 .. Len(h) : Len(h) - Len(h) + i = i
    BY <1>1, SMT
  <2>2. /\ LastLabels(h, Len(h)) \in Seq(Labels) /\ Len(LastLabels(h, Len(h))) = Len(h)
        /\ \A i \in 1 .. Len(h) : LastLabels(h, Len(h))[i] = h[i]
    BY <1>1, <2>1, LastLabelsFacts
  <2> QED BY <1>1, <2>2, SeqEqual
<1>4. ASSUME NEW p \in DOMAIN table
      PROVE  Covers(p, h) <=>
               /\ Looks(h, Len(p))
               /\ p = LastLabels(h, Len(p))
  <2>1. p \in Seq(Labels) /\ Len(p) \in Nat /\ Len(p) > 0
    BY HostIsList
  <2>2. IsSuffix(p, h) <=> Len(p) <= Len(h) /\ p = LastLabels(h, Len(p))
    BY <1>1, <2>1, SuffixIsLast
  <2>3. Len(p) <= Len(h) <=> Len(p) \in 1 .. Len(h)
    BY <1>1, <2>1, SMT
  <2>4. CASE p = h
    <3>1. Len(p) \in 1 .. Len(h) /\ Len(p) = Len(h)
      BY <1>1, <2>4, SMT
    <3> QED BY <1>3, <2>4, <3>1 DEF Covers, Looks
  <2>5. CASE p # h
    <3>1. p = LastLabels(h, Len(p)) => Len(p) # Len(h)
      BY <1>3, <2>5
    <3> QED BY <2>2, <2>3, <2>5, <3>1 DEF Covers, Looks
  <2> QED BY <2>4, <2>5
<1>5. ASSUME NEW k \in 1 .. Len(h), k = Len(h) \/ k > 1, Found(k)
      PROVE  LastLabels(h, k) \in covering /\ Len(LastLabels(h, k)) = k
  <2>1. Len(LastLabels(h, k)) = k
    BY <1>1, LastLabelsFacts
  <2>2. Covers(LastLabels(h, k), h)
    BY <1>4, <1>5, <2>1 DEF Looks
  <2> QED BY <1>5, <2>1, <2>2
<1> HIDE DEF answer
<1>6. covering = {} => answer
  <2>1. ASSUME covering = {}
        PROVE  answer = TRUE
    <3>1. \A k \in 1 .. Len(h) : (k = Len(h) \/ k > 1) => ~Found(k)
      BY <1>5, <2>1
    <3> QED BY <1>2, <3>1 DEF Answers
  <2> QED BY <2>1
<1>7. ASSUME NEW p \in covering, \A q \in covering : Len(q) <= Len(p)
      PROVE  answer = table[p]
  <2> DEFINE k == Len(p)
  <2>1. k \in 1 .. Len(h) /\ (k = Len(h) \/ k > 1) /\ p = LastLabels(h, k) /\ Found(k)
    BY <1>4 DEF Looks
  <2>2. ASSUME NEW j \in k + 1 .. Len(h), Found(j)
        PROVE  FALSE
    <3>1. j \in 1 .. Len(h) /\ j > 1 /\ ~(j <= k)
      BY <1>1, <2>1, SMT
    <3> QED BY <1>5, <1>7, <2>2, <3>1
  <2> HIDE DEF k
  <2> QED BY <1>2, <2>1, <2>2 DEF Answers
<1> QED BY <1>6, <1>7 DEF answer
-----------------------------------------------------------------------------
\* Without downgrades of the application, engine and rules are those of the installed
\* lists whatever crashed or failed before, each unless the last write of its own file
\* failed: then init_adblock may take what the file held before for current.
THEOREM CacheHolds == "downgrade" \notin CacheFaults => (Spec => []CacheMatchesLists)
<1> SUFFICES ASSUME "downgrade" \notin CacheFaults PROVE Spec => []CacheMatchesLists
  OBVIOUS
<1>1. Init => CacheInv
  BY CacheInitInv DEF Init
<1>2. CacheInv /\ [Next]_vars => CacheInv'
  BY CacheNextInv, StepOfCache
<1>3. CacheInv => CacheMatchesLists
  BY DEF CacheInv
<1> QED BY <1>1, <1>2, <1>3, PTL DEF Spec

LEMMA TypesHold == Spec => [](CacheTypeOK /\ ShellInv)
<1>1. Init => CacheTypeOK /\ ShellInv
  <2>1. CacheInit => CacheTypeOK
    BY CacheInitInv DEF CacheInv
  <2>2. SiteInit => SiteTypeOK
    BY DEF SiteInit, SiteTypeOK
  <2>3. Init => SwitchTypeOK /\ NewestIsSaved
    <3>1. /\ TRUE \in BOOLEAN /\ FALSE \in BOOLEAN /\ <<>> \in Seq(BOOLEAN)
          /\ [f \in Flusher |-> <<>>] \in [Flusher -> Seq(BOOLEAN)]
      OBVIOUS
    <3>2. Init => SwitchTypeOK
      BY <3>1 DEF Init, SwitchTypeOK
    <3> QED BY <3>2 DEF Init, NewestIsSaved
  <2>4. Init => ViewTypeOK
    BY NoViewType DEF Init, ViewTypeOK
  <2> QED BY <2>1, <2>2, <2>3, <2>4 DEF Init, ShellInv
<1>2. CacheTypeOK /\ ShellInv /\ [Next]_vars => CacheTypeOK' /\ ShellInv'
  BY CacheTypeInv, StepOfCache, ShellNextInv
<1> QED BY <1>1, <1>2, PTL DEF Spec

\* Types, and: when no event is on its way the shell shows what the next start will
\* load, whatever saves failed, crashes came and threads flushed before, unless the
\* batch posted last had been taken before the newest change.
THEOREM ShellHolds == Spec => []ShellShowsSaved
<1>1. CacheTypeOK /\ ShellInv => ShellShowsSaved
  BY DEF ShellInv, SwitchTypeOK, ViewTypeOK, NewestIsSaved, NoneInHand, ShellShowsSaved,
     OnItsWay, TypeOK
<1> QED BY <1>1, TypesHold, PTL

\* blocking_enabled_for: for any set of hosts and every table over it, and so for the one
\* the toggles have left, the walk from the host to its parent domains ends at the
\* exception that covers the host and has most labels; without one blocking is on.
THEOREM LookupHolds == Spec => []LookupIsNearest
<1>1. EveryTable
  <2>1. ASSUME NEW table \in Tables
        PROVE  DOMAIN table \subseteq Host
    BY DEF Tables
  <2> QED BY <2>1, LookupDecides DEF EveryTable
<1>2. ShellInv => LookupIsNearest
  <2>1. ShellInv => DOMAIN exceptions \subseteq Host
    BY TogglesAreHosts DEF ShellInv, SiteTypeOK
  <2> QED BY <1>1, <2>1, LookupDecides DEF LookupIsNearest
<1> QED BY <1>2, TypesHold, PTL
=============================================================================
