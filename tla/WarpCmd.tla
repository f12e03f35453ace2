------------------------------ MODULE WarpCmd ------------------------------
(***************************************************************************)
(* The warp commands of warpcmd.go: the configured command line is split,  *)
(* its executable is replaced by the path it has in the sandbox, and the   *)
(* arguments are joined again; StartWarpSvc (warp.go) splits the result a  *)
(* second time.  A string is a sequence of characters of the classes the   *)
(* code tells apart.                                                       *)
(***************************************************************************)
EXTENDS Integers, Sequences, FiniteSetsExt

A     == "a"     \* any other character
Sp    == "sp"    \* space and tab
Nl    == "nl"    \* the other white space of strings.TrimSpace
Quote == "quote" \* "
Back  == "back"  \* \

Char  == {A, Sp, Nl, Quote, Back}
Blank == {Sp, Nl}

Error == <<>>    \* splitArgs never returns an empty list otherwise

-----------------------------------------------------------------------------
(* strings.TrimSpace *)
TrimSpace(s) ==
  LET keep == {i \in DOMAIN s : s[i] \notin Blank} IN
  IF keep = {} THEN <<>> ELSE SubSeq(s, Min(keep), Max(keep))

(* The argument read so far, if it is not empty, is complete. *)
EndArg(st) == IF st.cur = <<>> THEN st
              ELSE [st EXCEPT !.out = Append(@, st.cur), !.cur = <<>>]

(* One turn of splitArgs' loop. *)
SplitChar(st, c) ==
  CASE st.escape -> [st EXCEPT !.cur = Append(@, c), !.escape = FALSE]
    [] ~st.escape /\ c = Back -> [st EXCEPT !.escape = TRUE]
    [] ~st.escape /\ c = Quote -> [st EXCEPT !.inQuote = ~@]
    [] ~st.escape /\ c = Sp /\ ~st.inQuote -> EndArg(st)
    [] OTHER -> [st EXCEPT !.cur = Append(@, c)]

(* The loop over s, begun in state from. *)
SplitLoop(from, s) ==
  LET st[n \in 0 .. Len(s)] ==
        IF n = 0 THEN from ELSE SplitChar(st[n - 1], s[n])
  IN  st[Len(s)]

splitArgs(s) ==
  LET st == SplitLoop([out |-> <<>>, cur |-> <<>>, inQuote |-> FALSE,
                       escape |-> FALSE], s) IN
  IF st.inQuote THEN Error ELSE EndArg(st).out

(* Mutant: backslashes are not escaped. *)
EscapeCharQuotesOnly(c) == IF c = Quote THEN <<Back, c>> ELSE <<c>>

(* The two ReplaceAll of quoteArg, on one character and on all. *)
EscapeChar(c) == IF c \in {Back, Quote} THEN <<Back, c>> ELSE <<c>>

Escaped(arg) ==
  LET esc[n \in 0 .. Len(arg)] ==
        IF n = 0 THEN <<>> ELSE esc[n - 1] \o EscapeChar(arg[n])
  IN  esc[Len(arg)]

quoteArg(arg) ==
  IF arg # <<>> /\ \A i \in DOMAIN arg : arg[i] \notin {Sp, Quote, Back}
  THEN arg
  ELSE <<Quote>> \o Escaped(arg) \o <<Quote>>

(* strings.Join(out, " ") *)
joinArgs(args) ==
  LET out[n \in 0 .. Len(args)] ==
        IF n = 0 THEN <<>>
        ELSE out[n - 1] \o (IF n = 1 THEN <<>> ELSE <<Sp>>) \o quoteArg(args[n])
  IN  out[Len(args)]

(* prepareWarpExecutable's target for an executable found by LookPath:     *)
(* its base name under /warp, a path that starts with no special character *)
(* and keeps those of the name.                                            *)
Target(exe) == <<A>> \o exe

(* prepareWarpSvcCommand, for an executable that is found. *)
prepareWarpSvcCommand(raw) ==
  LET parts == splitArgs(TrimSpace(raw)) IN
  IF TrimSpace(raw) = <<>> \/ parts = Error THEN <<>>
  ELSE joinArgs([parts EXCEPT ![1] = Target(@)])

(* The argument vector of StartWarpSvc; Error when it starts nothing. *)
StartWarpSvc(cmd) == IF TrimSpace(cmd) = <<>> THEN Error
                     ELSE splitArgs(TrimSpace(cmd))

-----------------------------------------------------------------------------
(***************************************************************************)
(* prepareWarpCommandBinds.  An executable is [dir, base]; its target      *)
(* keeps the base.  NoBind stands for an empty command.                    *)
(***************************************************************************)
NoBind == [dir |-> "none", base |-> "none"]

Bound(binds, target) == {b \in binds : b.base = target}

(* Mutant: a second executable of the same name is taken for the first. *)
AddBindCareless(binds, b) ==
  IF b = NoBind \/ Bound(binds, b.base) # {} THEN [ok |-> TRUE, binds |-> binds]
  ELSE [ok |-> TRUE, binds |-> binds \cup {b}]

(* add: a target that is bound already must be bound to the same source. *)
AddBind(binds, b) ==
  IF b = NoBind \/ b \in Bound(binds, b.base) THEN [ok |-> TRUE, binds |-> binds]
  ELSE [ok |-> Bound(binds, b.base) = {}, binds |-> binds \cup {b}]

prepareWarpCommandBinds(svc, cli) ==
  LET first == AddBind({}, svc) IN AddBind(first.binds, cli)

-----------------------------------------------------------------------------
(* The executable and every argument warp-svc is started with are the ones *)
(* the configured command line has, whatever they contain.  The one        *)
(* exception: quoteArg leaves an argument with a newline unquoted, and     *)
(* StartWarpSvc trims one that ends the line.                              *)
ArgsSurviveJoin(raw) ==
  LET parts == splitArgs(TrimSpace(raw))
      argv  == StartWarpSvc(prepareWarpSvcCommand(raw)) IN
  IF TrimSpace(raw) = <<>> \/ parts = Error THEN argv = Error
  ELSE parts[Len(parts)][Len(parts[Len(parts)])] # Nl
         => argv = [parts EXCEPT ![1] = Target(@)]

(* If the binds are accepted, the path under which each command is started *)
(* in the sandbox shows that command's executable and no other.            *)
TargetsShowSources(svc, cli) ==
  LET r == prepareWarpCommandBinds(svc, cli) IN
  r.ok => \A e \in {svc, cli} \ {NoBind} : Bound(r.binds, e.base) = {e}
=============================================================================
