----------------------------- MODULE FilterCache -----------------------------
(***************************************************************************)
(* The start of ad blocking (init_adblock in src/crates/blaze-ffi/src/     *)
(* lib.rs), on a background queue: filter engine and WebKit rules are      *)
(* taken from the profile when their fingerprint is that of the installed  *)
(* lists, else built and written there, each in a file with a fingerprint  *)
(* file beside it. Between two starts the installed lists may change; the  *)
(* process may die at any step, and a write may fail before it has touched *)
(* the file or after.                                                      *)
(***************************************************************************)
EXTENDS Naturals

CONSTANTS
  Versions,      \* the lists come in versions 1 .. Versions
  Missing,       \* no file; an OnceLock that is not set
  Torn,          \* a file with a part of its content
  CacheFaults    \* of "disk", "input", "downgrade"

ASSUME VersionsIsPos == Versions \in Nat \ {0}
ASSUME NoVersion == Missing \notin Nat /\ Torn \notin Nat /\ Missing # Torn

Version == 1 .. Versions
File == {"dat", "dat_fp", "json", "json_fp"}
Artifact == {"dat", "json"}

VARIABLES
  installed,     \* version of the bundled lists
  files,         \* File |-> what it holds; a fingerprint names its version
  step,          \* how far init_adblock has come; "off": no process
  writing,       \* a file is opened, and so truncated, but not yet written
  engine,        \* OnceLock<AdblockEngine>
  rules,         \* OnceLock<String>: the WebKit rules
  refused        \* history: the artifacts whose last write failed

cacheVars == <<installed, files, step, writing, engine, rules, refused>>

Built == [dat |-> "dat_fp", dat_fp |-> "set_engine", json |-> "json_fp", json_fp |-> "set_rules"]

Running == step # "off"

CacheTypeOK ==
  /\ installed \in Version
  /\ files \in [File -> Version \cup {Missing, Torn}]
  /\ step \in File \cup {"off", "lists", "set_engine", "rules", "set_rules", "done", "failed"}
  /\ writing \in BOOLEAN /\ (writing => step \in File)
  /\ engine \in Version \cup {Missing}
  /\ rules \in Version \cup {Missing, Torn}
  /\ refused \subseteq Artifact

CacheInit ==
  /\ installed \in Version
  /\ files = [f \in File |-> Missing]
  /\ step = "off" /\ writing = FALSE
  /\ engine = Missing /\ rules = Missing
  /\ refused = {}

\* Mutant: the engine is taken from its file whatever the fingerprint says.
LoadEngineUnchecked ==
  /\ step = "lists"
  /\ IF files["dat"] \in Version
     THEN engine' = files["dat"] /\ step' = "rules"
     ELSE UNCHANGED engine /\ step' = "dat"
  /\ UNCHANGED <<installed, files, writing, rules, refused>>

\* read_filter_lists, fingerprint, and from_cache if the fingerprint agrees;
\* a torn image does not deserialize.
LoadEngine ==
  /\ step = "lists"
  /\ IF files["dat_fp"] = installed /\ files["dat"] \in Version
     THEN engine' = files["dat"] /\ step' = "rules"
     ELSE UNCHANGED engine /\ step' = "dat"
  /\ UNCHANGED <<installed, files, writing, rules, refused>>

\* std::fs::write opens and truncates, then writes.
OpenFile ==
  /\ step \in File /\ ~writing
  /\ files' = [files EXCEPT ![step] = Torn]
  /\ writing' = TRUE
  /\ UNCHANGED <<installed, step, engine, rules, refused>>

FillFile ==
  /\ writing
  /\ files' = [files EXCEPT ![step] = installed]
  /\ writing' = FALSE
  /\ step' = Built[step]
  /\ refused' = refused \ {step}
  /\ UNCHANGED <<installed, engine, rules>>

\* A write fails and its result is ignored: at the open, and what was in the file
\* stays, or later, and a piece is left.
RefuseFile ==
  /\ "disk" \in CacheFaults
  /\ step \in File
  /\ writing' = FALSE
  /\ step' = Built[step]
  /\ refused' = refused \cup ({step} \cap Artifact)
  /\ UNCHANGED <<installed, files, engine, rules>>

SetEngine ==
  /\ step = "set_engine"
  /\ engine' = installed
  /\ step' = "rules"
  /\ UNCHANGED <<installed, files, writing, rules, refused>>

\* The rules are text that nobody looks into.
LoadRules ==
  /\ step = "rules"
  /\ IF files["json_fp"] = installed /\ files["json"] # Missing
     THEN rules' = files["json"] /\ step' = "done"
     ELSE UNCHANGED rules /\ step' = "json"
  /\ UNCHANGED <<installed, files, writing, engine, refused>>

SetRules ==
  /\ step = "set_rules"
  /\ rules' = installed
  /\ step' = "done"
  /\ UNCHANGED <<installed, files, writing, engine, refused>>

\* Lists that cannot be read, or not be compiled to rules: an error returns.
InitFails ==
  /\ "input" \in CacheFaults
  /\ step = "lists" \/ (step = "json" /\ ~writing)
  /\ step' = "failed"
  /\ UNCHANGED <<installed, files, writing, engine, rules, refused>>

InitStep ==
  \/ LoadEngine \/ SetEngine \/ LoadRules \/ SetRules
  \/ OpenFile \/ FillFile

CacheLaunch ==
  /\ step = "off"
  /\ step' = "lists"
  /\ UNCHANGED <<installed, files, writing, engine, rules, refused>>

\* The process ends: files stay, a half-written one too.
CacheEnds ==
  /\ step' = "off" /\ writing' = FALSE
  /\ engine' = Missing /\ rules' = Missing
  /\ UNCHANGED <<installed, files, refused>>

\* Another version of the application brings other lists.
InstallLists ==
  /\ step = "off"
  /\ \E v \in Version :
       /\ v > installed \/ ("downgrade" \in CacheFaults /\ v < installed)
       /\ installed' = v
  /\ UNCHANGED <<files, step, writing, engine, rules, refused>>
-----------------------------------------------------------------------------
\* The engine that decides is the one of the installed lists, and so are the rules,
\* in spite of crashes between an artifact and its fingerprint and of updates. The
\* one exception is an artifact whose last write failed: init_adblock writes the new
\* fingerprint all the same, and vouches for what was in the file before.
CacheMatchesLists ==
  /\ engine # Missing => engine = installed \/ "dat" \in refused
  /\ rules # Missing => rules = installed \/ "json" \in refused
=============================================================================
