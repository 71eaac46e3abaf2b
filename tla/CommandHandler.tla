----------------------------- MODULE CommandHandler -----------------------------
(***************************************************************************)
(* The command line application: a user at a prompt, one ftp::client       *)
(* without TLS, and the local file of a `get'.                             *)
(*                                                                         *)
(* A command that fails a check of its handler (not connected, already     *)
(* connected, file exists, usage) throws cmdline_exception, which is       *)
(* printed: such a command changes nothing, and is not written out.        *)
(***************************************************************************)
EXTENDS FtpClient

\* command_handler has a default client.
ASSUME DefaultClientAssumption == SslContexts = {FALSE} /\ Rfc2428Supports = {TRUE}

VARIABLES
    handling,       \* what the application is doing
    local_file,     \* the file that `get' would write
    delivered       \* history: the server has sent that file to its end

app == <<handling, local_file, delivered>>
all == <<vars, app>>

AppTypeOK ==
    /\ TypeOK
    /\ handling \in {"prompt", "open", "credentials", "call", "get", "exit", "catch", "left"}
    /\ local_file \in {"absent", "created", "kept"}
    /\ delivered \in BOOLEAN

\* A default client starts in passive mode, with binary transfers.
AppInit ==
    /\ Init
    /\ transfer_mode_ = "passive" /\ transfer_type_ = "binary"
    /\ handling = "prompt" /\ local_file = "absent" /\ delivered = FALSE

--------------------------------------------------------------------------------
(* The handlers, up to their call of the client.                           *)

\* One call of the client, whose result is only printed.
Call(operation) ==
    /\ handling = "prompt"
    /\ operation
    /\ handling' = "call"
    /\ UNCHANGED <<local_file, delivered>>

open ==
    /\ handling = "prompt" /\ ~is_open
    /\ connect("connect")
    /\ handling' = "open"
    /\ UNCHANGED <<local_file, delivered>>

\* The rest of open, once the user has typed a name and a password.
open_login ==
    /\ handling = "credentials"
    /\ login
    /\ handling' = "call"
    /\ UNCHANGED <<local_file, delivered>>

user == Call(login)
ls == Call(create_data_connection("list", "null"))
put == Call(create_data_connection("upload", "running"))

\* cd, cdup, pwd, mkdir, rmdir, del, size, stat, syst, noop, rhelp
one_command == Call(Simple)

binary_ascii == \E t \in Types : Call(set_transfer_type(t))
logout_rename == Call(logout) \/ Call(rename)
close == Call(disconnect(TRUE))

active_passive ==
    /\ handling = "prompt"
    /\ \E mode \in Modes : set_transfer_mode(mode)
    /\ UNCHANGED app

\* The file is created before the client is asked.
get ==
    /\ handling = "prompt" /\ local_file = "absent"
    /\ create_data_connection("download", "running")
    /\ handling' = "get" /\ local_file' = "created" /\ delivered' = FALSE

exit ==
    /\ handling = "prompt"
    /\ \/ is_open /\ disconnect(TRUE) /\ handling' = "exit"
       \/ ~is_open /\ handling' = "left" /\ UNCHANGED vars
    /\ UNCHANGED <<local_file, delivered>>

\* The end of the standard input ends the application from any question.
end_of_input ==
    /\ handling \in {"prompt", "credentials"}
    /\ handling' = "left"
    /\ UNCHANGED <<vars, local_file, delivered>>

\* The user moves the file elsewhere, or deletes it.
take_file ==
    /\ handling = "prompt" /\ local_file # "absent"
    /\ local_file' = "absent" /\ delivered' = FALSE
    /\ UNCHANGED <<vars, handling>>

CommandStep ==
    \/ open \/ open_login \/ user \/ ls \/ put \/ get \/ one_command
    \/ binary_ascii \/ logout_rename \/ close \/ active_passive
    \/ exit \/ end_of_input \/ take_file

--------------------------------------------------------------------------------
(* The handlers, after their call of the client.                           *)

\* is_positive() of what the call returns.
Positive == AppendReply(replies, code).is_positive

\* The file is kept whatever the replies.
ReturnedKeeping ==
    /\ op' = "none"
    /\ handling' = CASE handling = "open" /\ Positive -> "credentials"
                     [] handling = "exit" -> "left"
                     [] OTHER -> "prompt"
    /\ local_file' = IF handling = "get" THEN "kept" ELSE local_file

Returned ==
    /\ op' = "none"
    /\ handling' = CASE handling = "open" /\ Positive -> "credentials"
                     [] handling = "exit" -> "left"
                     [] OTHER -> "prompt"
    /\ local_file' = CASE handling = "get" /\ Positive -> "kept"
                       [] handling = "get" /\ ~Positive -> "absent"
                       [] OTHER -> local_file

\* No disconnect: the exception is only printed.
ThrewToPrompt ==
    /\ op' = "thrown"
    /\ handling' = IF handling = "exit" THEN "left" ELSE "prompt"
    /\ UNCHANGED local_file

\* A failing exit leaves all the same; handle() catches the rest.
Threw ==
    /\ op' = "thrown"
    /\ handling' = IF handling = "exit" THEN "left" ELSE "catch"
    /\ UNCHANGED local_file

Handle ==
    /\ pc # "idle"
    /\ \/ pc' # "idle" /\ UNCHANGED <<handling, local_file>>
       \/ pc' = "idle" /\ (Returned \/ Threw)
    /\ UNCHANGED delivered

Run == ClientStep /\ Handle

\* The application's transfer_callback never cancels.
Mishap == (AcceptFails \/ TransferFails) /\ Handle

\* The handler of ftp_exception in handle().
Catch ==
    /\ handling = "catch"
    /\ IF is_open THEN disconnect(FALSE) ELSE UNCHANGED vars
    /\ handling' = "prompt"
    /\ UNCHANGED <<local_file, delivered>>

\* The server, as in FtpClient.
Serve(step) ==
    /\ step
    /\ delivered' = IF TransferDone /\ handling = "get" THEN TRUE ELSE delivered
    /\ UNCHANGED <<handling, local_file>>

AppNext == CommandStep \/ Run \/ Mishap \/ Catch \/ Serve(ServerStep) \/ Serve(ServerFault)

AppSpec == AppInit /\ [][AppNext]_all

\* A handler that can go on does, and so does a server that is up.
AppFairSpec == AppSpec /\ WF_all(Run) /\ WF_all(Catch) /\ WF_all(Serve(ServerStep /\ Obliged))

--------------------------------------------------------------------------------
(* Properties.                                                             *)

\* The prompt only comes back to a dialog in step: whatever exception has cut
\* an operation short, handle() has closed the connection by then.  Only
\* what the application cannot notice is left: a second reply to a
\* greeting or REIN, and replies of a former connection.
PromptIsQuiet ==
    handling = "prompt" /\ is_open /\ upset \subseteq {"abandoned"} => Quiet

\* `get' keeps the file if and only if the server has sent it to its end, in
\* a dialog in step, whenever the client returns.
KeptIsWhole ==
    [][handling = "get" /\ handling' = "prompt" /\ upset = {}
         => (local_file' = "kept" <=> delivered)]_all

\* A command ends, whatever the server does and whatever fails, but for the
\* waits without end of the client.
PromptComesBack ==
    handling \in {"open", "call", "get", "exit", "catch"} ~>
        \/ handling \in {"prompt", "credentials", "left"}
        \/ WaitsForEver

\* command_handler.cpp: "Delete the created file in case of errors."
FailedGetLeavesNoFile == handling = "prompt" => local_file # "created"
================================================================================
