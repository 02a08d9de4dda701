---------------------------- MODULE ConfigGates -----------------------------
(***************************************************************************)
(* config.go, health.go and the command lines of scheduler.go: how the     *)
(* environment becomes a configuration, what stops the container instead,  *)
(* and what fclones is run with.                                           *)
(*                                                                         *)
(* A token is told by its first rune.  "hidden" is any option without a    *)
(* value, "name" one that takes a value, "name=" one joined to its value,  *)
(* "format" one of the wrapper's own, "transform" a dangerous one, each in *)
(* any spelling the code folds into it; every other token is a bare word.  *)
(*                                                                         *)
(* A duration in the environment is "unset", "bad" (it does not parse),    *)
(* "negative", "zero" or "positive"; SCAN_INTERVAL may also be "off".      *)
(*                                                                         *)
(* A gate keeps its name in the code and holds where it returns no error.  *)
(***************************************************************************)
EXTENDS ArgsParse, SequencesExt

OwnedFlags == {"format"}
DangerousFlags == {"transform"}
Flags == {"hidden", "name", "name="} \union OwnedFlags \union DangerousFlags
Actions == {"group", "link"}
Durations == {"unset", "bad", "negative", "zero", "positive"}

\* Some token of an argument string begins with one of these.
Mentions(raw, names) == \E i \in DOMAIN Parse(raw).args : Head(Parse(raw).args[i]) \in names

\* FCLONES_SCAN_PATHS, /scandir if it is not set.
ScanPaths(env) == IF env.scanPaths = <<>> THEN <<"path">> ELSE env.scanPaths

\* The value parses: what every gate asks first.
parseArgString(raw) == Parse(raw).ok

\* Options that run commands or change files in place are refused.
rejectDangerousArgs(raw) == parseArgString(raw) /\ ~Mentions(raw, DangerousFlags)

\* The wrapper's own options are refused in FCLONES_ARGS.
rejectWrapperOwnedArgs(raw) == parseArgString(raw) /\ ~Mentions(raw, OwnedFlags)

\* A word or "--" is refused unless the token before it is a flag.
rejectPositionalArgs(raw) ==
  LET tokens == Parse(raw).args
      isFlag(i) == Head(tokens[i]) \in Flags
  IN  /\ parseArgString(raw)
      /\ \A i \in DOMAIN tokens : isFlag(i) \/ (i > 1 /\ isFlag(i - 1))

\* A mutant: ALLOW_UNSAFE_ARGS turns off the contracts as well.
validateArgEnvsUnsafeFirst(env) ==
  IF env.unsafe
  THEN \A raw \in {env.args, env.actionArgs, ScanPaths(env)} : parseArgString(raw)
  ELSE /\ \A raw \in {env.args, env.actionArgs, ScanPaths(env)} : rejectDangerousArgs(raw)
       /\ rejectWrapperOwnedArgs(env.args)
       /\ rejectPositionalArgs(env.args) /\ rejectPositionalArgs(env.actionArgs)

\* ALLOW_UNSAFE_ARGS relaxes the first gate and no other.
validateArgEnvs(env) ==
  /\ \A raw \in {env.args, env.actionArgs, ScanPaths(env)} :
       IF env.unsafe THEN parseArgString(raw) ELSE rejectDangerousArgs(raw)
  /\ rejectWrapperOwnedArgs(env.args)
  /\ rejectPositionalArgs(env.args) /\ rejectPositionalArgs(env.actionArgs)

\* An unset action is "group"; any other must be one fclones has.
parseAction(action) == IF action = "unset" THEN "group" ELSE action

\* A mutant: a negative timeout is let through.
TimeoutAcceptedNegative(timeout) == timeout # "bad"

\* SCAN_TIMEOUT: the default is a deadline, zero is none, the rest is refused.
TimeoutAccepted(timeout) == timeout \notin {"bad", "negative"}
loadScanTimeout(timeout) == IF timeout = "unset" THEN "positive" ELSE timeout

\* SCAN_INTERVAL: never refused; what is not understood means the default.
parseInterval(interval) ==
  IF interval = "off" THEN "external" ELSE IF interval = "zero" THEN "once" ELSE "builtin"

\* loadConfig: all gates, then the configuration.
ConfigAccepted(env) ==
  /\ parseAction(env.action) \in Actions
  /\ validateArgEnvs(env)
  /\ TimeoutAccepted(env.timeout)

loadConfig(env) ==
  [mode |-> parseInterval(env.interval), timeout |-> loadScanTimeout(env.timeout),
   action |-> parseAction(env.action), args |-> env.args,
   actionArgs |-> env.actionArgs, scanPaths |-> ScanPaths(env)]

\* A mutant: a probe without a timeout counts one of length zero.
probeOptionsZero(env) ==
  parseInterval(env.interval) = "builtin" /\ env.timeout \notin {"bad", "negative"}

\* `wrapper health` reads the environment by itself: does it arm a deadline?
probeOptions(env) ==
  /\ parseInterval(env.interval) = "builtin"
  /\ env.timeout # "bad"
  /\ (IF env.timeout = "unset" THEN "positive" ELSE env.timeout) = "positive"

\* fclones group <paths> <args> --cache -f json
OwnTokens == <<<<"cache">>, <<"format">>, <<"json">>>>
buildScanArgs(cfg) ==
  <<<<"group">>>> \o Parse(cfg.scanPaths).args \o Parse(cfg.args).args \o OwnTokens

\* fclones <action> <args>, or nothing to run.
buildActionArgs(cfg) ==
  IF cfg.action = "group" THEN <<>> ELSE <<<<cfg.action>>>> \o Parse(cfg.actionArgs).args
=============================================================================
