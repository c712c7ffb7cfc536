------------------------------ MODULE ConfParse ------------------------------
(***************************************************************************)
(* Start-up configuration of src/server-conf.c: process_server_cmd_line()  *)
(* and the parsing part of process_server_conf_file() with                 *)
(* parse_console_directive() and parse_server_directive().                 *)
(*                                                                         *)
(* The lexer (lex.c, not in the repository) is the environment: each call *)
(* of lex_next() returns any token of a small alphabet, EOF is sticky, and *)
(* after an unmatched quote (ERR) the next token is the end of that line.  *)
(* Strings and integers are abstracted to their kind: STR (a non-empty,    *)
(* non-numeric string), EMPTY (""), INT (a positive integer IntVal) and    *)
(* ZERO; LOGFILE stands for the three reserved keywords.                   *)
(*                                                                         *)
(* Each action is one lex_next() call together with the code that runs on  *)
(* its result up to the next call.  Beside the code runs a reference       *)
(* reading of the same tokens, one line at a time, by the grammar and the  *)
(* rules of spec.md 4.2 and 6 (RefStep); the properties compare the two.   *)
(***************************************************************************)
EXTENDS Naturals, Sequences

CONSTANTS
  MaxToks,      \* tokens the lexer returns before EOF
  MaxOpts,      \* command-line options
  IntVal,       \* the value of an INT token
  CmdPort,      \* the value given with -p
  DefaultPort,  \* DEFAULT_CONMAN_PORT
  DefaultBaud   \* DEFAULT_CONSOLE_BAUD

Tokens == {"CONSOLE", "SERVER", "NAME", "DEV", "LOG", "BPS", "KEEPALIVE",
           "LOOPBACK", "PORT", "LOGFILE", "ON", "OFF", "=", "STR", "NUMSTR",
           "EMPTY", "INT", "ZERO", "ERR", "EOL"}
(* LEX_STR tokens: text that is not a number, a quoted positive number,   *)
(* and ""; LEX_INT tokens: a positive number and 0.                        *)
Strs == {"STR", "NUMSTR", "EMPTY"}
Filled == {"STR", "NUMSTR"}
Ints == {"INT", "ZERO"}
ConsoleKeys == {"NAME", "DEV", "LOG", "BPS"}
ServerKeys == {"KEEPALIVE", "LOOPBACK", "PORT", "LOGFILE"}

(* atoi(lex_text(l)) *)
Atoi(t) == IF t \in {"INT", "NUMSTR"} THEN IntVal ELSE 0

VARIABLES
  pc,        \* the code location waiting on lex_next(), or a final state
  prev,      \* lex_prev(l): the last token returned
  emitted,   \* tokens returned so far
  kw,        \* the keyword whose "=" or value is being read
  name, dev, log,  \* parse_console_directive(): the strings are non-empty
  bps,       \* parse_console_directive(): bps
  killDaemon, nopts,           \* process_server_cmd_line() state
  port, savedPort, keepAlive, loopBack, consoles,  \* server_conf_t
  errors,    \* ERROR diagnostics printed
  cliPort,   \* history: a valid -p was given
  ref        \* the reference reading of the tokens

vars == <<pc, prev, emitted, kw, name, dev, log, bps, killDaemon, nopts,
          port, savedPort, keepAlive, loopBack, consoles, errors, cliPort, ref>>

-----------------------------------------------------------------------------
(* The reference: a line is [directive] EOL, a directive is CONSOLE or      *)
(* SERVER followed by one or more KEY=VALUE options valid for it; NAME,    *)
(* DEV and LOG take a string, BPS and PORT a positive integer, KEEPALIVE   *)
(* and LOOPBACK ON or OFF; LOGFILE is reported as not implemented.  A bad  *)
(* line gives one diagnostic; a CONSOLE needs a non-empty NAME and DEV and  *)
(* is created only from a good line; SERVER options take effect in order   *)
(* up to the first error.                                                  *)

RefLine == [mode |-> "start", dir |-> "none", key |-> "none", bad |-> FALSE,
            opts |-> 0, name |-> FALSE, dev |-> FALSE, log |-> FALSE,
            bps |-> DefaultBaud]

RefInit == [line |-> RefLine, consoles |-> <<>>, port |-> 0,
            keepAlive |-> TRUE, loopBack |-> FALSE, errors |-> 0]

ValueOK(k, t) ==
  CASE k \in {"NAME", "DEV", "LOG"} -> t \in Strs
    [] k \in {"BPS", "PORT"}        -> Atoi(t) > 0
    [] OTHER                        -> t \in {"ON", "OFF"}

(* The line state after option k = t, and the configuration after it.     *)
SetOpt(l, k, t) ==
  [l EXCEPT !.mode = "opt", !.opts = 1,
            !.name = IF k = "NAME" THEN t \in Filled ELSE @,
            !.dev  = IF k = "DEV"  THEN t \in Filled ELSE @,
            !.log  = IF k = "LOG"  THEN t \in Filled ELSE @,
            !.bps  = IF k = "BPS"  THEN Atoi(t) ELSE @]
ServerOpt(r, k, t) ==
  [r EXCEPT !.port = IF k = "PORT" THEN Atoi(t) ELSE @,
            !.keepAlive = IF k = "KEEPALIVE" THEN t = "ON" ELSE @,
            !.loopBack = IF k = "LOOPBACK" THEN t = "ON" ELSE @]

Bad(r) == IF r.line.bad THEN r
          ELSE [r EXCEPT !.line.bad = TRUE, !.errors = @ + 1]

(* The end of a line: an unfinished option, a directive without options   *)
(* or an incomplete CONSOLE is one more bad line.                          *)
EndLine(r) ==
  LET l == r.line
      bad == l.bad \/ l.mode \in {"eq", "val"} \/ (l.dir # "none" /\ l.opts = 0)
             \/ (l.dir = "CONSOLE" /\ ~(l.name /\ l.dev))
      r1 == IF bad THEN Bad(r) ELSE r
  IN [r1 EXCEPT !.line = RefLine,
                !.consoles = IF l.dir = "CONSOLE" /\ ~bad
                             THEN Append(@, [log |-> l.log, bps |-> l.bps])
                             ELSE @]

RefStep(r, t) ==
  LET l == r.line IN
  CASE t \in {"EOL", "EOF"} -> EndLine(r)
    [] l.bad -> r
    [] l.mode = "start" /\ t \in {"CONSOLE", "SERVER"} ->
         [r EXCEPT !.line.mode = "opt", !.line.dir = t]
    [] l.mode = "opt" /\ l.dir = "CONSOLE" /\ t \in ConsoleKeys ->
         [r EXCEPT !.line.mode = "eq", !.line.key = t]
    [] l.mode = "opt" /\ l.dir = "SERVER" /\ t \in ServerKeys \ {"LOGFILE"} ->
         [r EXCEPT !.line.mode = "eq", !.line.key = t]
    [] l.mode = "eq" /\ t = "=" -> [r EXCEPT !.line.mode = "val"]
    [] l.mode = "val" /\ ValueOK(l.key, t) ->
         LET r1 == [r EXCEPT !.line = SetOpt(l, l.key, t)]
         IN IF l.dir = "SERVER" THEN ServerOpt(r1, l.key, t) ELSE r1
    [] OTHER -> Bad(r)

-----------------------------------------------------------------------------
(* lex_next(l): the tokens the lexer can return next.                      *)
LexNext ==
  CASE prev = "EOF" \/ emitted = MaxToks -> {"EOF"}
    [] prev = "ERR" -> {"EOL", "EOF"}
    [] OTHER -> Tokens \cup {"EOF"}

(* One call of lex_next() returning t, with the code's step cont.          *)
Lex(t) ==
  /\ prev' = t
  /\ emitted' = IF t = "EOF" THEN emitted ELSE emitted + 1
  /\ ref' = RefStep(ref, t)

(* After a directive's error message: the resynchronisation loop           *)
(* while (lex_prev(l) != LEX_EOL && lex_prev(l) != LEX_EOF) lex_next(l).   *)
AfterError(t) == pc' = IF t \in {"EOL", "EOF"} THEN "main" ELSE "resync"

(* A plausible slip: the incomplete test checks NAME only.                *)
ConsoleEndNoDevCheck(err, t) ==
  IF err \/ ~name'
  THEN errors' = errors + 1 /\ AfterError(t) /\ UNCHANGED consoles
  ELSE /\ consoles' = Append(consoles, [log |-> log', bps |-> bps'])
       /\ pc' = "main" /\ UNCHANGED errors

(* The tail of parse_console_directive() once its loop has ended with the *)
(* last token t: report an error (incomplete if none was set), or create   *)
(* the console and, with a LOG, its logfile linked to it.                  *)
ConsoleEnd(err, t) ==
  IF err \/ ~(name' /\ dev')
  THEN errors' = errors + 1 /\ AfterError(t) /\ UNCHANGED consoles
  ELSE /\ consoles' = Append(consoles, [log |-> log', bps |-> bps'])
       /\ pc' = "main" /\ UNCHANGED errors

(* The tail of parse_server_directive().                                    *)
ServerEnd(err, t) ==
  IF err THEN errors' = errors + 1 /\ AfterError(t)
  ELSE pc' = "main" /\ UNCHANGED errors

-----------------------------------------------------------------------------
locals == <<kw, name, dev, log, bps>>
cli == <<killDaemon, nopts, cliPort>>
lexer == <<prev, emitted, ref>>

Init ==
  /\ pc = "cmdline" /\ prev = "NONE" /\ emitted = 0
  /\ kw = "none" /\ name = FALSE /\ dev = FALSE /\ log = FALSE
  /\ bps = DefaultBaud
  /\ killDaemon = FALSE /\ nopts = 0 /\ cliPort = FALSE
  \* create_server_conf()
  /\ port = 0 /\ savedPort = 0 /\ keepAlive = TRUE /\ loopBack = FALSE
  /\ consoles = <<>> /\ errors = 0
  /\ ref = RefInit

(* process_server_cmd_line(): -p with a positive or an invalid number.     *)
CmdPortOpt(valid) ==
  /\ pc = "cmdline" /\ nopts < MaxOpts
  /\ port' = IF valid THEN CmdPort ELSE port
  /\ cliPort' = (cliPort \/ valid)
  /\ nopts' = nopts + 1
  /\ UNCHANGED <<pc, killDaemon, savedPort, keepAlive, loopBack, consoles,
                 errors, locals, lexer>>

(* -k *)
CmdKill ==
  /\ pc = "cmdline" /\ nopts < MaxOpts
  /\ killDaemon' = TRUE /\ nopts' = nopts + 1
  /\ UNCHANGED <<pc, cliPort, port, savedPort, keepAlive, loopBack, consoles,
                 errors, locals, lexer>>

(* -h, -V, an invalid or an unimplemented option: exit.                    *)
CmdExit ==
  /\ pc = "cmdline" /\ pc' = "exit"
  /\ UNCHANGED <<cli, port, savedPort, keepAlive, loopBack, consoles, errors,
                 locals, lexer>>

(* process_server_conf_file() saves conf->port: positive iff set by -p.   *)
SavePort == savedPort' = port

(* getopt() is done: -k runs kill_daemon() and exits; otherwise            *)
(* process_server_conf_file() saves the port and opens the file.           *)
CmdEnd ==
  /\ pc = "cmdline"
  /\ pc' = IF killDaemon THEN "killed" ELSE "open"
  /\ SavePort
  /\ UNCHANGED <<cli, port, keepAlive, loopBack, consoles, errors, locals, lexer>>

(* open(), the read lock, fstat(), malloc(), read_n() and lex_create() of  *)
(* process_server_conf_file(): each may fail, and err_msg() then exits.    *)
OpenConf ==
  /\ pc = "open"
  /\ pc' \in {"main", "fatal"}
  /\ UNCHANGED <<cli, port, savedPort, keepAlive, loopBack, consoles, errors,
                 locals, lexer>>

(* The locals of parse_console_directive(): empty name, dev and log, the  *)
(* default baud rate.                                                      *)
ConsoleLocals ==
  name' = FALSE /\ dev' = FALSE /\ log' = FALSE /\ bps' = DefaultBaud

(* The main token loop of process_server_conf_file().                     *)
MainDirective ==
  \E t \in LexNext \cap {"CONSOLE", "SERVER"} :
    /\ pc = "main" /\ Lex(t)
    /\ IF t = "CONSOLE" THEN pc' = "con" /\ ConsoleLocals
       ELSE pc' = "srv" /\ UNCHANGED <<name, dev, log, bps>>
    /\ UNCHANGED <<kw, cli, port, savedPort, keepAlive, loopBack, consoles, errors>>

(* An empty line, or an unmatched quote reported without a skip.          *)
MainEOLOrErr ==
  \E t \in LexNext \cap {"EOL", "ERR"} :
    /\ pc = "main" /\ Lex(t)
    /\ errors' = IF t = "ERR" THEN errors + 1 ELSE errors
    /\ UNCHANGED <<pc, locals, cli, port, savedPort, keepAlive, loopBack, consoles>>

(* A plausible slip: the unrecognized token is reported, the line not     *)
(* skipped.                                                                *)
MainJunkNoSkip ==
  \E t \in LexNext \ {"CONSOLE", "SERVER", "EOL", "ERR", "EOF"} :
    /\ pc = "main" /\ Lex(t)
    /\ errors' = errors + 1 /\ pc' = "main"
    /\ UNCHANGED <<locals, cli, port, savedPort, keepAlive, loopBack, consoles>>

(* An unrecognized token: report it and skip to the end of the line.      *)
MainJunk ==
  \E t \in LexNext \ {"CONSOLE", "SERVER", "EOL", "ERR", "EOF"} :
    /\ pc = "main" /\ Lex(t)
    /\ errors' = errors + 1 /\ pc' = "skip"
    /\ UNCHANGED <<locals, cli, port, savedPort, keepAlive, loopBack, consoles>>

(* A plausible slip: the skip loop tests for LEX_EOL only.                *)
SkipNoEOF ==
  \E t \in LexNext :
    /\ pc = "skip" /\ Lex(t)
    /\ pc' = IF t = "EOL" THEN "main" ELSE "skip"
    /\ UNCHANGED <<locals, cli, port, savedPort, keepAlive, loopBack, consoles, errors>>

(* The skip loop: while (tok != LEX_EOL && tok != LEX_EOF) lex_next(l).    *)
Skip ==
  \E t \in LexNext :
    /\ pc = "skip" /\ Lex(t)
    /\ pc' = IF t \in {"EOL", "EOF"} THEN "main" ELSE "skip"
    /\ UNCHANGED <<locals, cli, port, savedPort, keepAlive, loopBack, consoles, errors>>

(* A plausible slip: the saved command-line port is never restored.      *)
KludgeNoRestore == IF port <= 0 THEN DefaultPort ELSE port

(* The kludge after the loop: the command-line port wins, else the file's, *)
(* else the default.                                                       *)
Kludge == IF savedPort > 0 THEN savedPort
          ELSE IF port <= 0 THEN DefaultPort ELSE port

MainEOF ==
  /\ pc = "main" /\ "EOF" \in LexNext /\ Lex("EOF")
  /\ port' = Kludge /\ pc' = "done"
  /\ UNCHANGED <<locals, cli, savedPort, keepAlive, loopBack, consoles, errors>>

Resync ==
  \E t \in LexNext :
    /\ pc = "resync" /\ Lex(t)
    /\ pc' = IF t \in {"EOL", "EOF"} THEN "main" ELSE "resync"
    /\ UNCHANGED <<locals, cli, port, savedPort, keepAlive, loopBack, consoles, errors>>

(* parse_console_directive(): the loop's lex_next().                      *)
ConsoleOption ==
  \E t \in LexNext :
    /\ pc = "con" /\ Lex(t)
    /\ UNCHANGED <<name, dev, log, bps, cli, port, savedPort, keepAlive, loopBack>>
    /\ IF t \in ConsoleKeys
       THEN pc' = "con_eq" /\ kw' = t /\ UNCHANGED <<errors, consoles>>
       ELSE ConsoleEnd(t \notin {"EOL", "EOF"}, t) /\ UNCHANGED kw

(* The "=" after a keyword.                                                *)
ConsoleEq ==
  \E t \in LexNext :
    /\ pc = "con_eq" /\ Lex(t)
    /\ UNCHANGED <<locals, cli, port, savedPort, keepAlive, loopBack>>
    /\ IF t = "=" THEN pc' = "con_val" /\ UNCHANGED <<errors, consoles>>
       ELSE ConsoleEnd(TRUE, t)

(* A plausible slip: the BPS value is not checked to be positive.        *)
ConsoleValueNoBpsCheck ==
  \E t \in LexNext :
    LET ok == IF kw = "BPS" THEN t \in Strs \cup Ints ELSE t \in Strs
    IN
    /\ pc = "con_val" /\ Lex(t)
    /\ name' = IF kw = "NAME" /\ ok THEN t \in Filled ELSE name
    /\ dev' = IF kw = "DEV" /\ ok THEN t \in Filled ELSE dev
    /\ log' = IF kw = "LOG" /\ ok THEN t \in Filled ELSE log
    /\ bps' = IF kw = "BPS" /\ t \in Strs \cup Ints THEN Atoi(t) ELSE bps
    /\ IF ok THEN pc' = "con" /\ UNCHANGED <<errors, consoles>>
       ELSE ConsoleEnd(TRUE, t)
    /\ UNCHANGED <<kw, cli, port, savedPort, keepAlive, loopBack>>

(* The value: NAME, DEV and LOG need a STR token, BPS a STR or INT whose  *)
(* atoi() is positive (bps is assigned before the test).                  *)
ConsoleValue ==
  \E t \in LexNext :
    LET ok == IF kw = "BPS" THEN t \in Strs \cup Ints /\ Atoi(t) > 0
              ELSE t \in Strs
    IN
    /\ pc = "con_val" /\ Lex(t)
    /\ name' = IF kw = "NAME" /\ ok THEN t \in Filled ELSE name
    /\ dev' = IF kw = "DEV" /\ ok THEN t \in Filled ELSE dev
    /\ log' = IF kw = "LOG" /\ ok THEN t \in Filled ELSE log
    /\ bps' = IF kw = "BPS" /\ t \in Strs \cup Ints THEN Atoi(t) ELSE bps
    /\ IF ok THEN pc' = "con" /\ UNCHANGED <<errors, consoles>>
       ELSE ConsoleEnd(TRUE, t)
    /\ UNCHANGED <<kw, cli, port, savedPort, keepAlive, loopBack>>

(* parse_server_directive(): the loop's lex_next().                       *)
ServerOption ==
  \E t \in LexNext :
    /\ pc = "srv" /\ Lex(t)
    /\ IF t \in ServerKeys
       THEN pc' = "srv_eq" /\ kw' = t /\ UNCHANGED errors
       ELSE ServerEnd(t \notin {"EOL", "EOF"}, t) /\ UNCHANGED kw
    /\ UNCHANGED <<name, dev, log, bps, cli, port, savedPort, keepAlive,
                   loopBack, consoles>>

(* The "=" after a keyword; LOGFILE, PIDFILE and TIMESTAMP then report     *)
(* "not yet implemented" whatever came.                                    *)
ServerEq ==
  \E t \in LexNext :
    /\ pc = "srv_eq" /\ Lex(t)
    /\ IF t = "=" /\ kw # "LOGFILE" THEN pc' = "srv_val" /\ UNCHANGED errors
       ELSE ServerEnd(TRUE, t)
    /\ UNCHANGED <<locals, cli, port, savedPort, keepAlive, loopBack, consoles>>

(* The value: ON or OFF for KEEPALIVE and LOOPBACK (each set as soon as   *)
(* read), a STR or INT with positive atoi() for PORT.                      *)
ServerValue ==
  \E t \in LexNext :
    LET ok == IF kw = "PORT" THEN t \in Strs \cup Ints /\ Atoi(t) > 0
              ELSE t \in {"ON", "OFF"}
    IN
    /\ pc = "srv_val" /\ Lex(t)
    /\ keepAlive' = IF kw = "KEEPALIVE" /\ ok THEN t = "ON" ELSE keepAlive
    /\ loopBack' = IF kw = "LOOPBACK" /\ ok THEN t = "ON" ELSE loopBack
    /\ port' = IF kw = "PORT" /\ ok THEN Atoi(t) ELSE port
    /\ IF ok THEN pc' = "srv" /\ UNCHANGED errors ELSE ServerEnd(TRUE, t)
    /\ UNCHANGED <<locals, cli, savedPort, consoles>>

Next ==
  \/ \E valid \in BOOLEAN : CmdPortOpt(valid)
  \/ CmdKill \/ CmdExit \/ CmdEnd \/ OpenConf
  \/ MainDirective \/ MainEOLOrErr \/ MainJunk \/ MainEOF \/ Skip \/ Resync
  \/ ConsoleOption \/ ConsoleEq \/ ConsoleValue
  \/ ServerOption \/ ServerEq \/ ServerValue

Spec == Init /\ [][Next]_vars

(* One thread runs the configuration phase to its end, and the lexer reads *)
(* a buffer of finite length: the process is never left waiting.          *)
FairSpec == Spec /\ WF_vars(Next)

-----------------------------------------------------------------------------
PCs == {"cmdline", "exit", "killed", "open", "fatal", "main", "skip", "resync", "con",
        "con_eq", "con_val", "srv", "srv_eq", "srv_val", "done"}
Console == [log : BOOLEAN, bps : {DefaultBaud, IntVal}]

(* A created console has a positive baud rate.                             *)
TypeOK ==
  /\ pc \in PCs
  /\ prev \in Tokens \cup {"EOF", "NONE"}
  /\ emitted \in 0..MaxToks
  /\ kw \in ConsoleKeys \cup ServerKeys \cup {"none"}
  /\ {name, dev, log, killDaemon, cliPort, keepAlive, loopBack} \subseteq BOOLEAN
  /\ bps \in {0, DefaultBaud, IntVal}
  /\ nopts \in 0..MaxOpts
  /\ port \in {0, CmdPort, IntVal, DefaultPort}
  /\ savedPort \in {0, CmdPort}
  /\ consoles \in Seq(Console)
  /\ errors \in Nat

(* Between lines (the token loop of process_server_conf_file() about to   *)
(* read), the consoles created and the KEEPALIVE and LOOPBACK flags are    *)
(* those the reference reading of the lines so far gives: a bad line      *)
(* creates nothing, a good one exactly its console, and the                *)
(* resynchronisation after an error never eats the next line.             *)
ConfigMatchesSpec ==
  pc = "main" =>
    /\ consoles = ref.consoles
    /\ keepAlive = ref.keepAlive
    /\ loopBack = ref.loopBack

(* Between lines, no more ERROR diagnostics have been printed than there  *)
(* were bad lines: a directive error, an incomplete CONSOLE, an unmatched  *)
(* quote or a junk token is reported once, and a good line never.          *)
NoSpuriousDiagnostic == pc = "main" => errors <= ref.errors

(* The configuration phase ends: the process exits (-h, -V, a bad option, *)
(* -k, a fatal file error) or the token loop reaches EOF.  Every loop of   *)
(* the parser (the main loop, a directive's loop, the skip and             *)
(* resynchronisation loops) must stop at LEX_EOF, also when the last line  *)
(* of the file has no newline.                                             *)
ParseTerminates == <>(pc \in {"exit", "killed", "fatal", "done"})

(* spec.md 4.2: after parsing the port is the -p value if one was valid,  *)
(* else the last valid SERVER PORT= of the file, else the default.         *)
PortPrecedence ==
  pc = "done" =>
    port = IF cliPort THEN CmdPort
           ELSE IF ref.port > 0 THEN ref.port ELSE DefaultPort

====
