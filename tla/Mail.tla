-------------------------------- MODULE Mail --------------------------------
(***************************************************************************)
(* Email (email.ts): sending a message by SMTP, by sendmail (spawned, or   *)
(* through the shell with a temporary file), or into a log file.  The      *)
(* SMTP server, sendmail and TCP are external: replies may come late, and  *)
(* the reply to EHLO and the greeting may come in two pieces.  A message   *)
(* is its number; addresses, headers and the text are left out, except     *)
(* whether a line of the text is a single dot.                             *)
(***************************************************************************)
EXTENDS Naturals, FiniteSets, SequencesExt

CONSTANTS
    Senders,      \* calls of send() that may be in flight
    MailDrivers,  \* what config.driver and useBunShell may say
    MailMessages, \* records of recipients (a number), dotted, complete
    Login,        \* username and password are set
    MaxConversations, \* bound: SMTP conversations, which share nothing
    MaxMailClock  \* bound: Date.now()

ASSUME MailAssumption ==
    /\ MailDrivers \subseteq {"smtp", "sendmail", "shell", "log"}
    /\ MailMessages \subseteq [recipients : Nat, dotted : BOOLEAN, complete : BOOLEAN]
    /\ Login \in BOOLEAN /\ {MaxConversations, MaxMailClock} \subseteq Nat

VARIABLES
    mailDriver, \* the driver configured
    mailClock,  \* Date.now()
    mail,       \* the call of send() of each sender
    session,    \* the SMTP connection of each sender
    temporary,  \* temporary files: what each holds
    logFile,    \* what emails.log holds: a set of senders
    logging     \* senders whose Bun.write() to the log is not over

mailVars == <<mailDriver, mailClock, mail, session, temporary, logFile, logging>>

NoMail == [pc |-> "idle"]

NoSession == [sent |-> <<>>, replies |-> <<>>, buffer |-> <<>>, from |-> FALSE, to |-> 0,
              data |-> FALSE, took |-> "nothing", pieces |-> 0]

MailInit ==
    /\ mailDriver \in MailDrivers /\ mailClock = 0
    /\ mail = [s \in Senders |-> NoMail]
    /\ session = [s \in Senders |-> NoSession]
    /\ temporary = <<>> /\ logFile = {} /\ logging = {}

MailResult(s, success, delivered) ==
    mail' = [mail EXCEPT ![s] = [pc |-> "answered", message |-> mail[s].message,
                                 success |-> success, delivered |-> delivered,
                                 shared |-> mail[s].shared]]

Taking(s, message, pc) ==
    [mail EXCEPT ![s] = [pc |-> pc, message |-> message, step |-> 1, file |-> 0, shared |-> FALSE]]

\* send(): what is incomplete is refused at once.  The log driver answers
\* without waiting for Bun.write().
send(s, message) ==
    /\ mail[s].pc = "idle"
    /\ mailDriver = "smtp" =>
          Cardinality({r \in Senders : mail[r].pc # "idle"}) < MaxConversations
    /\ CASE ~ message.complete ->
              /\ mail' = [mail EXCEPT ![s] = [pc |-> "answered", message |-> message,
                              success |-> FALSE, delivered |-> {}, shared |-> FALSE]]
              /\ UNCHANGED logging
         [] mailDriver = "log" /\ message.complete ->
              /\ mail' = [mail EXCEPT ![s] = [pc |-> "answered", message |-> message,
                              success |-> TRUE, delivered |-> {}, shared |-> FALSE]]
              /\ logging' = logging \cup {s}
         [] OTHER ->
              /\ mail' = Taking(s, message, CASE mailDriver = "smtp" -> "connecting"
                                              [] mailDriver = "shell" -> "writing"
                                              [] OTHER -> "running")
              /\ UNCHANGED logging
    /\ UNCHANGED <<mailDriver, mailClock, session, temporary, logFile>>

-----------------------------------------------------------------------------
(* SMTP.                                                                   *)

\* The commands, and whether smtpRead() follows: in every case but the content.
ScriptPipelined(message) ==
    <<[say |-> "EHLO", read |-> TRUE], [say |-> "MAIL", read |-> TRUE]>>
        \o [i \in 1 .. message.recipients |-> [say |-> "RCPT", read |-> FALSE]]
        \o <<[say |-> "DATA", read |-> TRUE], [say |-> "content", read |-> FALSE],
             [say |-> ".", read |-> TRUE]>>

Script(message) ==
    LET ask(word) == [say |-> word, read |-> word # "content"] IN
    <<ask("EHLO")>>
        \o (IF Login THEN <<ask("AUTH"), ask("user"), ask("password")>> ELSE <<>>)
        \o <<ask("MAIL")>> \o [i \in 1 .. message.recipients |-> ask("RCPT")]
        \o <<ask("DATA"), ask("content"), ask(".")>>

Pieces(code) == {<<code>>, <<code, code>>}

\* smtpConnect(); the server greets.
connects(s) ==
    /\ mail[s].pc = "connecting"
    /\ \/ /\ mail' = [mail EXCEPT ![s].pc = "reading", ![s].step = 1]
          /\ \E p \in Pieces("220") :
                session' = [session EXCEPT ![s].replies = p, ![s].pieces = Len(p) - 1]
       \/ MailResult(s, FALSE, {}) /\ UNCHANGED session
    /\ UNCHANGED <<mailDriver, mailClock, temporary, logFile, logging>>

\* What is written after a read: the next commands up to one with a read.
Writes(script, step) ==
    LET upTo == CHOOSE k \in step .. Len(script) :
                   script[k].read /\ \A j \in step .. k - 1 : ~ script[j].read
    IN SubSeq(script, step, upTo)

\* smtpRead() takes whatever the buffer holds as one reply, of which the
\* beginning counts; only the last reply is looked at.  A write may fail.
reads(s) ==
    LET script == Script(mail[s].message)
        next == Writes(script, mail[s].step)
    IN
    /\ mail[s].pc = "reading" /\ session[s].buffer # <<>>
    /\ IF mail[s].step > Len(script)
       THEN /\ MailResult(s, Head(session[s].buffer) = "250", {}) \/ MailResult(s, FALSE, {})
            /\ session' = [session EXCEPT ![s].buffer = <<>>]
       ELSE \/ /\ mail' = [mail EXCEPT ![s].step = @ + Len(next)]
               /\ session' = [session EXCEPT ![s].buffer = <<>>,
                                 ![s].sent = @ \o [i \in DOMAIN next |-> next[i].say]]
            \/ /\ MailResult(s, FALSE, {})
               /\ session' = [session EXCEPT ![s].buffer = <<>>]
    /\ UNCHANGED <<mailDriver, mailClock, temporary, logFile, logging>>

\* A piece of a reply arrives.
arrivesReply(s) ==
    /\ session[s].replies # <<>>
    /\ session' = [session EXCEPT ![s].buffer = Append(@, Head(session[s].replies)),
                                  ![s].replies = Tail(@)]
    /\ UNCHANGED <<mailDriver, mailClock, mail, temporary, logFile, logging>>

\* The server reads a line and replies; a message ends with a line that is a dot.
serverReplies(s) ==
    LET v == session[s]
        line == Head(v.sent)
        left == [v EXCEPT !.sent = Tail(@)]
        say(w, codes) == session' = [session EXCEPT ![s] = [w EXCEPT !.replies = @ \o codes]]
        oneOf(codes) == \E c \in codes : say(left, <<c>>)
        ends(took) == \/ say([left EXCEPT !.data = FALSE, !.took = took], <<"250">>)
                      \/ say([left EXCEPT !.data = FALSE], <<"554">>)
    IN
    /\ v.sent # <<>>
    /\ CASE line = "EHLO" ->
              \E p \in Pieces("250") : say([left EXCEPT !.pieces = @ + Len(p) - 1], p)
         [] line \in {"AUTH", "user"} -> say(left, <<"334">>)
         [] line = "password" -> oneOf({"235", "535"})
         [] line = "MAIL" -> say([left EXCEPT !.from = TRUE], <<"250">>) \/ oneOf({"550"})
         [] line = "RCPT" /\ v.from -> say([left EXCEPT !.to = @ + 1], <<"250">>) \/ oneOf({"550"})
         [] line = "DATA" /\ v.to > 0 -> say([left EXCEPT !.data = TRUE], <<"354">>)
         [] line = "content" /\ v.data ->
              IF mail[s].message.dotted THEN ends("part") ELSE say(left, <<>>)
         [] line = "." /\ v.data -> ends("whole")
         [] OTHER -> say(left, <<"503">>)
    /\ UNCHANGED <<mailDriver, mailClock, mail, temporary, logFile, logging>>

-----------------------------------------------------------------------------
(* sendmail.                                                               *)

\* The process exits; the code decides.
exits(s) ==
    /\ mailDriver = "sendmail" /\ mail[s].pc = "running"
    /\ MailResult(s, TRUE, {s}) \/ MailResult(s, FALSE, {})
    /\ UNCHANGED <<mailDriver, mailClock, session, temporary, logFile, logging>>

\* sendViaSendmailShell(): the file is named after the clock and holds what the
\* last write put there.
Others(s, file) ==
    {r \in Senders \ {s} : mail[r].pc \in {"running", "cleaning"} /\ mail[r].file = file}

writesFile(s) ==
    /\ mail[s].pc = "writing"
    /\ \/ /\ temporary' = [f \in DOMAIN temporary \cup {mailClock} |->
                               IF f = mailClock THEN s ELSE temporary[f]]
          /\ mail' = [r \in Senders |->
                IF r = s THEN [mail[s] EXCEPT !.pc = "running", !.file = mailClock,
                                              !.shared = Others(s, mailClock) # {}]
                ELSE IF r \in Others(s, mailClock) THEN [mail[r] EXCEPT !.shared = TRUE]
                ELSE mail[r]]
       \/ MailResult(s, FALSE, {}) /\ UNCHANGED temporary
    /\ UNCHANGED <<mailDriver, mailClock, session, logFile, logging>>

\* The shell runs sendmail with the file, if it is there, as its input.
runsShell(s) ==
    /\ mailDriver = "shell" /\ mail[s].pc = "running"
    /\ \/ /\ mail[s].file \in DOMAIN temporary
          /\ mail' = [mail EXCEPT ![s] = [pc |-> "cleaning", message |-> @.message, file |-> @.file,
                                          ok |-> TRUE, text |-> temporary[mail[s].file],
                                          shared |-> @.shared]]
       \/ mail' = [mail EXCEPT ![s] = [pc |-> "cleaning", message |-> @.message, file |-> @.file,
                                       ok |-> FALSE, text |-> s, shared |-> @.shared]]
    /\ UNCHANGED <<mailDriver, mailClock, session, temporary, logFile, logging>>

\* The file is removed; a failure of that is ignored.
cleans(s) ==
    /\ mail[s].pc = "cleaning"
    /\ temporary' \in {[f \in DOMAIN temporary \ {mail[s].file} |-> temporary[f]], temporary}
    /\ MailResult(s, mail[s].ok, IF mail[s].ok THEN {mail[s].text} ELSE {})
    /\ UNCHANGED <<mailDriver, mailClock, session, logFile, logging>>

\* Bun.write() replaces what emails.log held.
logged(s) ==
    /\ s \in logging
    /\ logging' = logging \ {s} /\ logFile' = {s}
    /\ UNCHANGED <<mailDriver, mailClock, mail, session, temporary>>

passMailTime ==
    /\ mailClock < MaxMailClock
    /\ mailClock' = mailClock + 1
    /\ UNCHANGED <<mailDriver, mail, session, temporary, logFile, logging>>

MailNext ==
    \/ \E s \in Senders :
          \/ \E m \in MailMessages : send(s, m)
          \/ connects(s) \/ reads(s) \/ arrivesReply(s) \/ serverReplies(s)
          \/ exits(s) \/ writesFile(s) \/ runsShell(s) \/ cleans(s) \/ logged(s)
    \/ passMailTime

MailSpec == MailInit /\ [][MailNext]_mailVars

\* The lines of a sender, the codes of the server.
Lines == {"EHLO", "AUTH", "user", "password", "MAIL", "RCPT", "DATA", "content", "."}

Codes == {"220", "235", "250", "334", "354", "503", "535", "550", "554"}

MailCall ==
    {NoMail}
      \cup [pc : {"connecting", "reading", "writing", "running"}, message : MailMessages,
            step : Nat \ {0}, file : Nat, shared : BOOLEAN]
      \cup [pc : {"cleaning"}, message : MailMessages, file : Nat, ok : BOOLEAN, text : Senders,
            shared : BOOLEAN]
      \cup [pc : {"answered"}, message : MailMessages, success : BOOLEAN,
            delivered : SUBSET Senders, shared : BOOLEAN]

Connection ==
    [sent : Seq(Lines), replies : Seq(Codes), buffer : Seq(Codes), from : BOOLEAN, to : Nat,
     data : BOOLEAN, took : {"nothing", "part", "whole"}, pieces : Nat]

MailTypeOK ==
    /\ mailDriver \in MailDrivers /\ mailClock \in 0 .. MaxMailClock
    /\ mail \in [Senders -> MailCall] /\ session \in [Senders -> Connection]
    /\ DOMAIN temporary \subseteq 0 .. MaxMailClock
    /\ temporary \in [DOMAIN temporary -> Senders]
    /\ logFile \cup logging \subseteq Senders

-----------------------------------------------------------------------------
Succeeded(s) == mail[s].pc = "answered" /\ mail[s].success

\* Success by SMTP means that the server took the message, all of it when no
\* line is a dot, however late the replies come.  Every piece of a reply beyond
\* the first leaves smtpRead() one reply behind: with one the last one read is
\* the 354, from two on it may be a 250 for a recipient (sendViaSmtp).
TakenByServer ==
    \A s \in Senders :
        Succeeded(s) /\ mailDriver = "smtp" /\ session[s].pieces < 2 =>
            /\ session[s].took # "nothing"
            /\ ~ mail[s].message.dotted => session[s].took = "whole"

\* Success by sendmail means that it was given this message, unless two sends
\* through the shell shared a temporary file (sendViaSendmailShell).
OwnTextSent ==
    \A s \in Senders :
        Succeeded(s) /\ mailDriver \in {"sendmail", "shell"} /\ ~ mail[s].shared =>
            mail[s].delivered = {s}

\* What send() answers is what became of the message.
MailReported == TakenByServer /\ OwnTextSent

-----------------------------------------------------------------------------
(* The inductive invariant behind MailReported.                            *)

\* What a call of send() does in between, by driver.
StagesOf ==
    [smtp |-> {"connecting", "reading"}, sendmail |-> {"running"},
     shell |-> {"writing", "running", "cleaning"}, log |-> {}]

TakenOf(message, v) == v.took # "nothing" /\ (~ message.dotted => v.took = "whole")

\* Each read takes a reply at least and each command gets one, so that what is on its
\* way beyond the last reply are the extra pieces; the content is written only after
\* a read that followed DATA, and from then on a 250 means that the message is taken.
AtStep(message, step, v) ==
    LET last == Len(Script(message)) IN
    /\ step \in 1 .. last - 1 \/ step = last + 1
    /\ step < last => Len(v.buffer) + Len(v.replies) + Len(v.sent) <= 1 + v.pieces
    /\ step = last - 1 =>
          /\ v.sent # <<>> => Last(v.sent) = "DATA"
          /\ v.sent = <<>> /\ v.replies # <<>> => Last(v.replies) # "250"
    /\ step > last =>
          /\ Range(v.sent) \subseteq {"DATA", "content", "."}
          /\ "250" \in Range(v.replies) \cup Range(v.buffer) => TakenOf(message, v)

Conversation(call, v) ==
    /\ call.pc \in {"idle", "connecting"} => v = NoSession
    /\ call.pc \notin {"idle", "connecting"} => (v.took = "part" => call.message.dotted)
    /\ v.pieces < 2 =>
          /\ call.pc = "reading" => AtStep(call.message, call.step, v)
          /\ call.pc = "answered" /\ call.success => TakenOf(call.message, v)

\* The file of a sender holds its own text, unless it is shared.
OwnFile(s) ==
    ~ mail[s].shared =>
       /\ mail[s].pc = "running" /\ mail[s].file \in DOMAIN temporary =>
             temporary[mail[s].file] = s
       /\ mail[s].pc = "cleaning" => mail[s].text = s

MailInv ==
    /\ MailTypeOK /\ OwnTextSent
    /\ \A s \in Senders : mail[s].pc \in {"idle", "answered"} \cup StagesOf[mailDriver]
    /\ mailDriver = "smtp" => \A s \in Senders : Conversation(mail[s], session[s])
    /\ mailDriver = "shell" => \A s \in Senders : mail[s].pc # "idle" => OwnFile(s)

=============================================================================
