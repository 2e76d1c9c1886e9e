------------------------------ MODULE Firewallctl ------------------------------
(***************************************************************************)
(* The command-line client (cmd/firewallctl/main.go): a line of words and  *)
(* options becomes one request, or the line is refused and nothing is      *)
(* sent.                                                                   *)
(*                                                                         *)
(* A line is a sequence of tokens, each a record of one field: [arg |-> v] *)
(* for a word (a request value, or the command as a "word" value), or the  *)
(* name of an option with its value, as [dport |-> 22], in whatever        *)
(* spelling.  A name that is none of Options is an unknown option, an      *)
(* option whose value is missing, or -h.  What no number parser accepts is *)
(* NotANumber.  -sock is left out: every line talks to the daemon.         *)
(***************************************************************************)
EXTENDS ControlProtocol, Sequences

NotANumber == -1
NotSent == [command |-> "none"]

\* Mutant: the number is parsed as 64 bits and cut to a uint16 afterwards.
parsePort_Cut(n) == IF n = NotANumber THEN NotANumber ELSE n % 2 ^ 16

\* What is left of a number option's value: it fits a uint16, or a uint32 (its
\* upper half is written as a quotient, for TLC counts to 2^31 only).
parsePort(n) == IF n \in 0 .. 2 ^ 16 - 1 THEN n ELSE NotANumber
parsePriority(n) == IF n \div 2 ^ 16 \in 0 .. 2 ^ 16 - 1 THEN n ELSE NotANumber

Options == {"protocol", "action", "dport", "sport", "priority"}

\* The token, its number replaced by what its parser makes of it.
Parsed(token) ==
    [name \in DOMAIN token |->
        CASE name \in {"dport", "sport"} -> parsePort(token[name])
          [] name = "priority" -> parsePriority(token[name])
          [] OTHER -> token[name]]

Acceptable(token) ==
    /\ DOMAIN token \subseteq Options
    /\ \A name \in DOMAIN token \cap {"dport", "sport", "priority"} :
            Parsed(token)[name] # NotANumber

NoOptions == [args |-> <<>>, protocol |-> "", action |-> "", dport |-> 0,
              sport |-> 0, priority |-> 0, err |-> FALSE]

\* Options stand anywhere, the last of a name counts, the first error ends it.
Take(opts, token) ==
    IF opts.err THEN opts
    ELSE IF DOMAIN token = {"arg"}
    THEN [opts EXCEPT !.args = Append(@, token.arg)]
    ELSE IF Acceptable(token)
    THEN [name \in DOMAIN opts |->
            IF name \in DOMAIN token THEN Parsed(token)[name] ELSE opts[name]]
    ELSE [opts EXCEPT !.err = TRUE]

extractOptions(raw) ==
    LET taken[n \in 0 .. Len(raw)] ==
            IF n = 0 THEN NoOptions ELSE Take(taken[n - 1], raw[n])
    IN  taken[Len(raw)]

BareRequest(command, value) ==
    [command |-> command, value |-> value, protocol |-> "", port |-> 0,
     sport |-> 0, action |-> "", priority |-> 0]

BareCommands == {"list", "listports", "status", "clear", "stats", "conntrack"}

\* Only block and unblock take the options along.
firewallctl(raw) ==
    LET opts == extractOptions(raw)
        Is(commands) == opts.args[1].form = "word" /\ opts.args[1].text \in commands
        command == opts.args[1].text
        value == opts.args[2]
    IN  IF opts.err \/ opts.args = <<>> THEN NotSent
        ELSE IF Is(BareCommands)
        THEN BareRequest(command, [form |-> "word", text |-> ""])
        ELSE IF Len(opts.args) < 2 THEN NotSent
        ELSE IF Is({"default"}) THEN BareRequest(command, value)
        ELSE IF Is({"block", "unblock"})
        THEN [command |-> command, value |-> value, protocol |-> opts.protocol,
              port |-> opts.dport, sport |-> opts.sport, action |-> opts.action,
              priority |-> opts.priority]
        ELSE NotSent
===============================================================================
