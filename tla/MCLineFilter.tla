---------------------------- MODULE MCLineFilter ----------------------------
(***************************************************************************)
(* LineFilter for TLC: the child writes any three of these lines.  Among   *)
(* them are both kinds of noise, genuine diagnostics that quote a noise    *)
(* phrase, runes and control bytes, a line longer than the cap and one     *)
(* that lacks its newline.                                                 *)
(***************************************************************************)
EXTENDS LineFilter

MCLines ==
  {<<"nl">>,
   <<"txt", "fc", "info", "scan", "nl">>,
   <<"fc", "warn", "fs", "fiemap", "nl">>,
   <<"fc", "warn", "txt", "fiemap", "nl">>,
   <<"fc", "err", "fc", "info", "scan", "nl">>,
   <<"ctl", "cont", "lead", "nl">>,
   <<"txt", "txt", "lead", "cont", "lead", "cont", "nl">>,
   <<"fc", "info", "scan">>}

MCStreams == {a \o b \o c : a, b, c \in MCLines}
=============================================================================
