------------------------------- MODULE MCMount --------------------------------
(* Two directories below the mounted one, the second of which may come to    *)
(* mean another kind of file, and a name that is too long.                   *)
EXTENDS Mount

MCType == 1 :> VSNFS_DIR @@ 2 :> VSNFS_DIR @@ 3 :> VSNFS_DIR

(* "192.168.1.5:/export", a host name, a string without ":", two whose parts *)
(* are too long, and host parts that fill ip_addr, reach mnt_path, and leave *)
(* the vsnfs_server.                                                         *)
MCDevice == {
    [colon |-> TRUE,  address |-> TRUE,  addrlen |-> 11, pathlen |-> 7],
    [colon |-> TRUE,  address |-> FALSE, addrlen |-> 6,  pathlen |-> 7],
    [colon |-> FALSE, address |-> TRUE,  addrlen |-> 11, pathlen |-> 0],
    [colon |-> TRUE,  address |-> FALSE, addrlen |-> 256, pathlen |-> 7],
    [colon |-> TRUE,  address |-> TRUE,  addrlen |-> 11, pathlen |-> 1025],
    [colon |-> TRUE,  address |-> TRUE,  addrlen |-> 16, pathlen |-> 7],
    [colon |-> TRUE,  address |-> TRUE,  addrlen |-> 24, pathlen |-> 7],
    [colon |-> TRUE,  address |-> FALSE, addrlen |-> 48, pathlen |-> 1025]}

Port(n) == [opt |-> "port", val |-> n]

MCOptions == {<<>>, <<Port(1)>>, <<Port(65537), [opt |-> "timeout", val |-> 7]>>,
              <<Port(1), [opt |-> "err", val |-> 0], Port(2)>>}
===============================================================================
