---------------------------- MODULE MCCommandLine -----------------------------
\* Every line of up to MaxWords words: any two words of the program, then names
\* that are empty, new, or words of the program themselves.
EXTENDS CommandLine

CONSTANT MaxWords

Subs == {"add", "rename", "transfer", "list", "rm", "clear", "h"}
Roots == Categories \cup {"debug", "login", "logout", "patch", "promote", "register", "release",
                        "rollback", "whoami", "link", "session"}
Arguments == {"", "n", "add", "login", "patch"}

MCLines ==
    {<< >>} \cup {<<r>> : r \in Roots}
      \cup UNION {{<<r, s>> \o rest : r \in Roots, s \in Subs \cup Arguments, rest \in [1..n -> Arguments]} :
                     n \in 0..(MaxWords - 2)}
MCOptions == {{}} \cup {{o} : o \in Options}
=============================================================================
