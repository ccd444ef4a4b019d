-------------------------------- MODULE MCSSH --------------------------------
(* SSH for TLC: a shell is typed a blank line, a cd and exit.               *)
EXTENDS SSH

MCLines == {NoLine, Line("cd", Relative(<<"..">>)), Line("exit", NoArg)}

MCRequests == {Request("window-change", NoLine), Request("shell", NoLine),
               Request("exec", Line("id", NoArg))}
=============================================================================
