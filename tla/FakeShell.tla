------------------------------ MODULE FakeShell ------------------------------
(***************************************************************************)
(* The fake file system and commands of the SSH shell: sshd/filesystem.go  *)
(* and sshd/commands.go.  Nothing is ever written to the file system; a    *)
(* command changes at most the working directory.  Of what it prints only  *)
(* whether there is anything is kept, since that decides what is recorded. *)
(*                                                                         *)
(* A path that resolvePath returns is the sequence of its parts behind the *)
(* leading slash; it is looked up as it is, so only a clean one is found.  *)
(***************************************************************************)
EXTENDS Paths, SequencesExt

(* populate                                                                 *)
Dirs ==
    {<<>>} \cup {<<d>> : d \in {"bin", "boot", "dev", "etc", "home", "lib", "lib64",
                                "media", "mnt", "opt", "proc", "root", "run", "sbin",
                                "srv", "sys", "tmp", "usr", "var"}}
           \cup {<<"etc", d>> : d \in {"ssh", "cron.d", "default"}}
           \cup {<<"home", "admin">>}
           \cup {<<"usr", d>> : d \in {"bin", "lib", "local", "sbin"}}
           \cup {<<"var", d>> : d \in {"log", "lib", "tmp", "run", "spool"}}

EmptyFiles == {<<"etc", "shadow">>}

Files == EmptyFiles \cup {<<"etc", f>> : f \in {"hostname", "passwd", "os-release", "issue"}}
                    \cup {<<"proc", f>> : f \in {"version", "cpuinfo", "meminfo"}}
                    \cup {<<"etc", "ssh", "sshd_config">>}

Home == <<"root">>

IsDir(path) == path \in Dirs

ListDir(path) ==
    {p \in Dirs \cup Files : Len(p) = Len(path) + 1 /\ IsPrefix(path, p)}
-----------------------------------------------------------------------------
(* Mutant: a step up is passed over like a ".".                             *)
CleanPartNoUp(clean, p) == IF p \in Special THEN clean ELSE Append(clean, p)

(* One turn of the loop of cleanPath: clean is what it has so far.          *)
CleanPart(clean, p) ==
    CASE p \in Here -> clean
      [] p = ".."   -> IF clean = <<>> THEN clean ELSE Front(clean)
      [] OTHER      -> Append(clean, p)

cleanPath(parts) ==
    LET clean[k \in 0..Len(parts)] ==
            IF k = 0 THEN <<>> ELSE CleanPart(clean[k - 1], parts[k])
    IN  clean[Len(parts)]

resolvePath(path, from) ==
    IF path.absolute THEN cleanPath(path.parts)
    ELSE IF path.parts \in {<<"~">>, <<Blank>>} THEN Home
    ELSE IF Head(path.parts) = "~" THEN cleanPath(Home \o Tail(path.parts))
    ELSE IF path.parts = <<"..">> THEN IF from = <<>> THEN <<>> ELSE Front(from)
    ELSE IF path.parts = <<".">> THEN from
    ELSE IF from = <<>> THEN path.parts
    ELSE cleanPath(from \o path.parts)
-----------------------------------------------------------------------------
(***************************************************************************)
(* Commands.  A line is a command with the argument the command looks at   *)
(* (the first, for ls the last that is not a flag) taken as a path, NoArg  *)
(* when there is none.                                                     *)
(***************************************************************************)
NoArg == Relative(<<>>)

Line(cmd, arg) == [cmd |-> cmd, arg |-> arg]

cmdCD(arg, from) ==
    LET target == IF arg = NoArg THEN Home ELSE resolvePath(arg, from)
    IN  IF IsDir(target) \/ arg = NoArg
        THEN [cwd |-> target, prints |-> FALSE]
        ELSE [cwd |-> from, prints |-> TRUE]

(* A name that is no directory is repeated, or refused.                     *)
cmdLS(arg, from) ==
    LET path == IF arg = NoArg THEN from ELSE resolvePath(arg, from)
    IN  IsDir(path) => ListDir(path) # {}

cmdCat(arg, from) ==
    arg # NoArg /\ resolvePath(arg, from) \notin EmptyFiles

(* These say only whether they print.                                      *)
cmdIP(arg) == arg \in {NoArg} \cup {Relative(<<a>>) : a \in {"addr", "a", "route", "r"}}

cmdWhich(arg) == arg # NoArg
cmdType(arg)  == arg # NoArg

DispatchCommand(line, from) ==
    CASE line.cmd = "cd"  -> cmdCD(line.arg, from)
      [] line.cmd = "ls"  -> [cwd |-> from, prints |-> cmdLS(line.arg, from)]
      [] line.cmd = "cat" -> [cwd |-> from, prints |-> cmdCat(line.arg, from)]
      [] line.cmd = "ip"    -> [cwd |-> from, prints |-> cmdIP(line.arg)]
      [] line.cmd = "which" -> [cwd |-> from, prints |-> cmdWhich(line.arg)]
      [] line.cmd = "type"  -> [cwd |-> from, prints |-> cmdType(line.arg)]
      [] line.cmd \in {Blank, "history", "export", "unset", "exit", "logout", "quit"} ->
            [cwd |-> from, prints |-> FALSE]
      [] OTHER -> [cwd |-> from, prints |-> TRUE]
=============================================================================
