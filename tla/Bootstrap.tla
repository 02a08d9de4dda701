----------------------------- MODULE Bootstrap ------------------------------
(***************************************************************************)
(* From the environment to the first command line (main.go bootstrap,      *)
(* config.go, scheduler.go): the configuration is loaded or refused, the   *)
(* cache directory is probed by a goroutine that a timer races, and a      *)
(* container that came through runs fclones with the words of its          *)
(* environment.                                                            *)
(*                                                                         *)
(* An argument variable holds words somebody meant, written down in one of *)
(* the package's quoting styles; cut means the closing quote was left out. *)
(***************************************************************************)
EXTENDS ConfigGates

CONSTANT Settings  \* environments the container may be started with

\* "path" and "--" stand for all that is neither special nor an option.
Runes == {"sp", "bs", "path", "--"} \union Quotes \union Flags

\* An argument variable; only quoted words can lack their closing quote.
ArgValues ==
  {v \in [words : Seq(Seq(Runes)), style : {"bs"} \union Quotes, cut : BOOLEAN] :
     v.cut => v.words # <<>> /\ v.style # "bs"}

Environments ==
  [args : ArgValues, actionArgs : ArgValues, scanPaths : ArgValues, action : Actions \union {"unset", "bogus"},
   unsafe : BOOLEAN, timeout : Durations, interval : Durations \union {"off"}]

ASSUME SettingsAssumption == \A e \in Settings : e \in Environments

VARIABLES
  env,       \* the environment as it was meant
  main,      \* control point of bootstrap, then of the job
  cfg,       \* the loaded configuration
  probe,     \* control point of the writeProbe goroutine
  testFile,  \* /cache/.write_test exists
  denied,    \* history: the file system refused to remove it
  scanArgv,  \* the command line of the scan
  actionArgv \* the command line of the action

vars == <<env, main, cfg, probe, testFile, denied, scanArgv, actionArgv>>

\* A rune in a quoting style: what would mean something else is escaped.
SpellRune(r, style) ==
  LET special == IF style = "bs" THEN {"sp", "sq", "dq", "bs"} ELSE {style, "bs"}
  IN  IF r \in special THEN <<"bs", r>> ELSE <<r>>

SpellWord(word, style) ==
  LET body == FlattenSeq([i \in DOMAIN word |-> SpellRune(word[i], style)])
  IN  IF style = "bs" THEN body ELSE <<style>> \o body \o <<style>>

SpellWords(words, style) ==
  FlattenSeq([i \in DOMAIN words |-> <<"sp">> \o SpellWord(words[i], style)])

Spell(v) ==
  LET raw == SpellWords(v.words, v.style)
  IN  IF v.cut THEN Front(raw) ELSE raw

\* The environment as the process reads it.
Raw == [env EXCEPT !.args = Spell(@), !.actionArgs = Spell(@), !.scanPaths = Spell(@)]

Nothing == [mode |-> "none"]

Init ==
  /\ env \in Settings
  /\ main = "load"
  /\ cfg = Nothing
  /\ probe = "off"
  /\ testFile \in BOOLEAN
  /\ denied = FALSE
  /\ scanArgv = <<>>
  /\ actionArgv = <<>>

\* loadConfig: any refused variable ends the process.
Load ==
  /\ main = "load"
  /\ \E raw \in {Raw} :
       IF ConfigAccepted(raw)
       THEN main' = "verify" /\ cfg' = loadConfig(raw) /\ probe' = "mkdir"
       ELSE main' = "refused" /\ UNCHANGED <<cfg, probe>>
  /\ UNCHANGED <<env, testFile, denied, scanArgv, actionArgv>>

(***************************************************************************)
(* writeProbe in its goroutine.  Each call may take for ever; the process  *)
(* may be refusing to start while it goes on.                              *)
(***************************************************************************)
ProbeRuns == main \in {"verify", "refused"}

Mkdir ==
  /\ ProbeRuns /\ probe = "mkdir"
  /\ probe' \in {"create", "failed"}
  /\ UNCHANGED <<env, main, cfg, testFile, denied, scanArgv, actionArgv>>

Create ==
  /\ ProbeRuns /\ probe = "create"
  /\ \/ probe' = "remove" /\ testFile' = TRUE
     \/ probe' = "failed" /\ UNCHANGED testFile
  /\ UNCHANGED <<env, main, cfg, denied, scanArgv, actionArgv>>

\* The removal's own error is ignored.
RemoveTest ==
  /\ ProbeRuns /\ probe = "remove"
  /\ probe' = "ok"
  /\ denied' \in BOOLEAN
  /\ testFile' = denied'
  /\ UNCHANGED <<env, main, cfg, scanArgv, actionArgv>>

\* A mutant: bootstrap goes on whatever the probe came to.
VerifyDoneAny ==
  /\ main = "verify" /\ probe \in {"ok", "failed"}
  /\ main' = "ready"
  /\ UNCHANGED <<env, cfg, probe, testFile, denied, scanArgv, actionArgv>>

\* verifyDirWithProbe: the probe's result arrives before the timeout.
VerifyDone ==
  /\ main = "verify" /\ probe \in {"ok", "failed"}
  /\ main' = IF probe = "ok" THEN "ready" ELSE "refused"
  /\ UNCHANGED <<env, cfg, probe, testFile, denied, scanArgv, actionArgv>>

\* A mutant: the timeout applies only once the directory exists.
VerifyTimeoutAfterMkdir ==
  /\ main = "verify" /\ probe # "mkdir"
  /\ main' = "refused"
  /\ UNCHANGED <<env, cfg, probe, testFile, denied, scanArgv, actionArgv>>

\* verifyDirWithProbe: the timeout wins, whatever the probe is doing.
VerifyTimeout ==
  /\ main = "verify"
  /\ main' = "refused"
  /\ UNCHANGED <<env, cfg, probe, testFile, denied, scanArgv, actionArgv>>

\* bootstrap's error ends the process and the probe with it.
Exit ==
  /\ main = "refused"
  /\ main' = "exited"
  /\ UNCHANGED <<env, cfg, probe, testFile, denied, scanArgv, actionArgv>>

\* The job parses the strings again for its two commands.
BuildScan ==
  /\ main = "ready"
  /\ main' = "scan"
  /\ scanArgv' = buildScanArgs(cfg)
  /\ UNCHANGED <<env, cfg, probe, testFile, denied, actionArgv>>

BuildAction ==
  /\ main = "scan"
  /\ main' = "act"
  /\ actionArgv' = buildActionArgs(cfg)
  /\ UNCHANGED <<env, cfg, probe, testFile, denied, scanArgv>>

MainStep == Load \/ VerifyDone \/ VerifyTimeout \/ Exit \/ BuildScan \/ BuildAction

Next == MainStep \/ Mkdir \/ Create \/ RemoveTest

Spec == Init /\ [][Next]_vars

(***************************************************************************)
(* Fairness: the main goroutine runs on and its timer fires; a call of the *)
(* probe on a hung file system may never return.                           *)
(***************************************************************************)
FairSpec == Spec /\ WF_vars(MainStep)

(***************************************************************************)
(* PROPERTIES.                                                             *)
(***************************************************************************)
Started == main \in {"ready", "scan", "act"}

TypeOK ==
  /\ main \in {"load", "verify", "refused", "exited", "ready", "scan", "act"}
  /\ probe \in {"off", "mkdir", "create", "remove", "ok", "failed"}
  /\ testFile \in BOOLEAN /\ denied \in BOOLEAN
  /\ main \notin {"load", "refused", "exited"} =>
       /\ cfg.mode \in {"builtin", "external", "once"}
       /\ cfg.timeout \in {"zero", "positive"}
       /\ cfg.action \in Actions

NonEmpty(words) ==
  FlattenSeq([i \in DOMAIN words |-> IF words[i] = <<>> THEN <<>> ELSE <<words[i]>>])

(***************************************************************************)
(* fclones is run with the words that were meant, however they were        *)
(* quoted: nothing is split, joined or left out but empty words, and a     *)
(* value with an open quote never gets that far.  FCLONES_SCAN_PATHS       *)
(* defaults to one path.                                                   *)
(***************************************************************************)
CommandAsWritten ==
  LET paths == IF Spell(env.scanPaths) = <<>> THEN <<<<"path">>>> ELSE NonEmpty(env.scanPaths.words)
  IN  /\ Started => ~env.args.cut /\ ~env.actionArgs.cut /\ ~env.scanPaths.cut
      /\ main \in {"scan", "act"} =>
           scanArgv = <<<<"group">>>> \o paths \o NonEmpty(env.args.words) \o OwnTokens
      /\ main = "act" /\ cfg.action # "group" =>
           Tail(actionArgv) = NonEmpty(env.actionArgs.words)

\* Every word is a flag or stands right after one.
FlagBeforeWord(words) ==
  \A i \in DOMAIN words :
    Head(words[i]) \in Flags \/ (i > 1 /\ Head(words[i - 1]) \in Flags)

(***************************************************************************)
(* The contracts of each argument variable (validateArgEnvs).  In both     *)
(* safety modes FCLONES_ARGS brings none of the wrapper's own options, and *)
(* neither it nor FCLONES_ACTION_ARGS a word without a flag right before   *)
(* it; FCLONES_SCAN_PATHS is held to neither.  Without ALLOW_UNSAFE_ARGS   *)
(* no command line has a dangerous option, whichever variable it was       *)
(* written in.                                                             *)
(***************************************************************************)
CommandWithinContract ==
  LET args == NonEmpty(env.args.words)
  IN  Started =>
        /\ \A i \in DOMAIN args : Head(args[i]) \notin OwnedFlags
        /\ FlagBeforeWord(args) /\ FlagBeforeWord(NonEmpty(env.actionArgs.words))
        /\ ~env.unsafe => \A i \in DOMAIN scanArgv : Head(scanArgv[i]) \notin DangerousFlags
        /\ ~env.unsafe => \A i \in DOMAIN actionArgv : Head(actionArgv[i]) \notin DangerousFlags

(***************************************************************************)
(* The healthcheck, a process of its own that reads the environment again, *)
(* arms its deadline exactly for the containers that keep a schedule and   *)
(* bound their phases; any other would be called dead while it works.      *)
(***************************************************************************)
ProbeAgrees ==
  Started => (probeOptions(Raw) <=> cfg.mode = "builtin" /\ cfg.timeout = "positive")

(***************************************************************************)
(* A container starts only on a cache directory it has written to, and     *)
(* leaves its test file there only if it may not remove it.                *)
(***************************************************************************)
StartedMeansWritable == Started => probe = "ok" /\ (testFile => denied)

(***************************************************************************)
(* A hung file system cannot block startup: bootstrap comes to an end.     *)
(***************************************************************************)
BootstrapEnds == main = "load" ~> main \in {"exited", "act"}

\* clap (external): an option that takes the next word as its value.
TakesValue(token) == token \in {<<"name">>, <<"transform">>}

(***************************************************************************)
(* "A bare token is accepted only as a flag's value. "--" is rejected too" *)
(* (config.go).  Not so: "--" after any option comes through, and so does  *)
(* a word after an option that takes no value; where fclones does not take *)
(* it as a value, it reads it, or all that follows, as a path.             *)
(***************************************************************************)
OnlyFlagsAndValues ==
  LET args == NonEmpty(env.args.words)
  IN  Started => \A i \in DOMAIN args :
        \/ Head(args[i]) \in Flags
        \/ args[i] # <<"--">> /\ i > 1 /\ TakesValue(args[i - 1])
=============================================================================
