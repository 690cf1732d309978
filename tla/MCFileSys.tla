----------------------------- MODULE MCFileSys -----------------------------
(* Two processes in the directories / and /a, with four inodes on the disk and three entries in itable. *)
EXTENDS FileSys, TLC

CONSTANTS p1, p2

MCNames == {"a", "b"}
a == <<"/", "a">>
b == <<"/", "b">>
MCCalls == p1 :> {<<"openc", a, <<>> >>, <<"close", <<>>, <<>> >>, <<"link", a, b>>, <<"unlink", a, <<>> >>}
        @@ p2 :> {<<"mkdir", a, <<>> >>, <<"chdir", a, <<>> >>, <<"mknod", <<"b">>, <<>> >>,
                  <<"open", <<"..">>, <<>> >>, <<"fstat", <<>>, <<>> >>, <<"mknod", <<"/">>, <<>> >>}

(* behaviours are followed up to the first stale inode *)
Bound == FreshType
=============================================================================
