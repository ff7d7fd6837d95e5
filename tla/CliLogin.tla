------------------------------- MODULE CliLogin -------------------------------
(***************************************************************************)
(* The agent's end of a token: bookshelf auth login and auth logout (cli   *)
(* bootstrap), and the files from which every command and the batch import *)
(* take the token (cli credentials, resolve_token).                        *)
(*                                                                         *)
(* A process writes a temporary file that has its number in the name and   *)
(* opens it only if there is none of that name, and then replaces the file *)
(* in one step.  It may fail at every step and be killed at any; what it   *)
(* had opened then stays, and the number is given to another process some  *)
(* day.  What the server says of a token is in AgentAccess: here the check *)
(* has either outcome.  Nothing else touches the files, whose modes and    *)
(* owners are right, and BOOKSHELF_TOKEN, which comes before all files, is *)
(* not set.                                                                *)
(***************************************************************************)
EXTENDS McpServer, Sequences

CONSTANTS
    Process,        \* numbers of processes; also the tokens typed in, one for each process
    File,           \* token files
    DefaultFile,
    Named,          \* those that BOOKSHELF_TOKEN_FILE may name
    MaxCommands     \* bound on commands

\* The code refuses token-path.json as a token file.
ASSUME CliAssumption ==
    /\ DefaultFile \in File /\ Named \subseteq File /\ MaxCommands \in Nat
    /\ None \notin File \cup Process /\ "token-path.json" \notin File

VARIABLES
    disk,       \* of each token file a token or None; of token-path.json a file or None
    temporary,  \* temporary files there are: what they are for and the process number
    cli,        \* what each process does; history: alone, no other was under way
    begun,      \* how many commands there were
    told,       \* history: environments in which a login has reported success
    removed     \* history: files that were deleted since they were written last

cvars   == <<disk, temporary, cli, begun, told, removed>>
allvars == <<vars, cvars>>

Path  == "token-path.json"
Place == File \cup {Path}

Resting == [pc |-> "idle", env |-> None, option |-> None, file |-> None,
            todo |-> <<>>, alone |-> FALSE]

CInit ==
    /\ MInit
    /\ disk = [p \in Place |-> None]
    /\ temporary = {}
    /\ cli = [s \in Process |-> Resting]
    /\ begun = 0 /\ told = {} /\ removed = {}

\* token_file_path, where env is BOOKSHELF_TOKEN_FILE.
TokenFile(env) ==
    IF env # None THEN env ELSE IF disk[Path] # None THEN disk[Path] ELSE DefaultFile

\* resolve_token
Resolved(env) == disk[TokenFile(env)]

Does(s, label) == cli[s].pc = label
Proceed(s, label) == cli' = [cli EXCEPT ![s].pc = label]

-----------------------------------------------------------------------------
\* A process starts.  Its file is the one of --file, or that from which tokens are taken now.
Start(s, label) ==
    LET others == {q \in Process : ~Does(q, "idle")} IN
    /\ Asked("cli")
    /\ Does(s, "idle")
    /\ begun < MaxCommands      \* bound
    /\ begun' = begun + 1
    /\ \E env \in Named \cup {None}, option \in File \cup {None} :
          cli' = [q \in Process |->
                    IF q # s THEN [cli[q] EXCEPT !.alone = FALSE]
                    ELSE [Resting EXCEPT !.pc = label, !.env = env, !.option = option,
                             !.alone = others = {},
                             !.file = IF option # None THEN option ELSE TokenFile(env)]]
    /\ UNCHANGED <<disk, temporary, told, removed>>

\* cmd_auth_login
Login(s) == Start(s, "check")

\* What is written: the token, and then which file it is in if that was said with --file.
\* Mutants: the other way round; the token only.
PathFirst(c) == IF c.option # None THEN <<Path, c.file>> ELSE <<c.file>>
TokenOnly(c) == <<c.file>>
Order(c)     == IF c.option # None THEN <<c.file, Path>> ELSE <<c.file>>

\* The server has accepted the token, or was not asked (--no-verify).
Accepted(s) ==
    /\ Does(s, "check")
    /\ cli' = [cli EXCEPT ![s].pc = "open", ![s].todo = Order(cli[s])]
    /\ UNCHANGED <<disk, temporary, begun, told, removed>>

\* Mutant: the file itself is opened and written.
Truncated(place) == [disk EXCEPT ![place] = "half"]

\* The files when the temporary file is opened.
Opened(place) == disk

\* _save_private_text: O_EXCL refuses a name that is there.
OpenTemporary(s) ==
    LET place == Head(cli[s].todo) IN
    /\ Does(s, "open")
    /\ <<place, s>> \notin temporary
    /\ temporary' = temporary \cup {<<place, s>>}
    /\ disk' = Opened(place)
    /\ Proceed(s, "write")
    /\ UNCHANGED <<begun, told, removed>>

\* The temporary file has been written and takes the place of the file.
Replace(s) ==
    LET c == cli[s]  place == Head(c.todo) IN
    /\ Does(s, "write")
    /\ disk' = [disk EXCEPT ![place] = IF place = Path THEN c.file ELSE s]
    /\ temporary' = temporary \ {<<place, s>>}
    /\ removed' = removed \ {place}
    /\ cli' = [cli EXCEPT ![s].pc = IF Len(c.todo) > 1 THEN "open" ELSE "saved",
                          ![s].todo = Tail(@)]
    /\ UNCHANGED <<begun, told>>

\* Where the token of a login counts: a --file is for processes without BOOKSHELF_TOKEN_FILE.
Reaches(c) == IF c.option # None THEN None ELSE c.env

Report(s) ==
    /\ Does(s, "saved")
    /\ told' = told \cup {Reaches(cli[s])}
    /\ Proceed(s, "said")
    /\ UNCHANGED <<disk, temporary, begun, removed>>

\* cmd_auth_logout: the file is deleted, the choice of a file stays.
Logout(s) == Start(s, "remove")

Remove(s) ==
    /\ Does(s, "remove")
    /\ disk' = [disk EXCEPT ![cli[s].file] = None]
    /\ removed' = removed \cup {cli[s].file}
    /\ cli' = [cli EXCEPT ![s] = Resting]
    /\ UNCHANGED <<temporary, begun, told>>

\* The process gives up and deletes the temporary file, or it has done its work.
Exit(s) ==
    /\ ~Does(s, "idle") /\ ~Does(s, "saved")
    /\ temporary' = IF Does(s, "write") THEN temporary \ {<<Head(cli[s].todo), s>>} ELSE temporary
    /\ cli' = [cli EXCEPT ![s] = Resting]
    /\ UNCHANGED <<disk, begun, told, removed>>

Kill(s) ==
    /\ ~Does(s, "idle")
    /\ cli' = [cli EXCEPT ![s] = Resting]
    /\ UNCHANGED <<disk, temporary, begun, told, removed>>

Command(s) ==
    \/ Login(s) \/ Accepted(s) \/ OpenTemporary(s) \/ Replace(s) \/ Report(s)
    \/ Logout(s) \/ Remove(s) \/ Exit(s) \/ Kill(s)

CNext ==
    \/ MNext /\ UNCHANGED cvars
    \/ (\E s \in Process : Command(s)) /\ UNCHANGED vars

CSpec == CInit /\ [][CNext]_allvars

-----------------------------------------------------------------------------
(* Properties.                                                              *)

\* A login that has reported success while no other command ran is in force: what commands
\* resolve from then on is its token, unless BOOKSHELF_TOKEN_FILE says otherwise, which the
\* login then tells.
LoginTakesEffect ==
    \A s \in Process : Does(s, "said") /\ cli[s].alone =>
        Resolved(Reaches(cli[s])) = s

\* Once a login has succeeded, there is always a whole token to be resolved, the new one or
\* the one before, however many logins overlap, fail or are killed; only a logout takes it
\* away (credentials._save_private_text, bootstrap.cmd_auth_login).
TokenStays ==
    \A env \in told : TokenFile(env) \in File /\
                      (Resolved(env) \in Process \/ TokenFile(env) \in removed)

LoginsHold == LoginTakesEffect /\ TokenStays
=============================================================================
