----------------------------- MODULE MCCluster ------------------------------
(* An instance of ClusterController: one slave, the menu and one shell.     *)
EXTENDS ClusterController

C(op, arg) == CsCommand(op, arg, 0)

MCSystemVMs == <<"s-1-VM">>
MCMenu ==
    {C("qemu", "hang"), C("vm-network", "loss"), C("hadoop-hang", "dn"),
     C("hadoop-crash", "nn"), C("hdfs-safe", "enter"), C("hang", "agent"),
     C("api-delay", None), C("partition", "slave1"), C("cascade", None),
     C("exhaust", None), C("recover-all", None)}
MCCommands ==
    {C("inject-network", "slave1"), C("clear-network", None),
     C("inject-hang", <<"master", "nn">>), C("resume-process", <<"master", "nn">>),
     C("inject-crash", <<"slave1", "nm">>), C("stop", None), C("start", None),
     C("inject-delay", None), C("api-delay", None), C("vm-migrate-fail", None),
     C("network", "slave1"), CsCommand("network", "slave1", 8250),
     C("network-clear", "slave1"), C("agent-disconnect", None),
     C("agent-reconnect", "slave1"),
     C("hang", "mysql"), C("resume", "mysql"), C("crash", "mysql"),
     C("db-limit", None), C("db-unlock", None),
     C("hang", "libvirt"), C("crash", "libvirt"),
     C("sysvm-hang", None), C("sysvm-crash", None),
     C("storage-umount", None), C("storage-ro", None), C("storage-rw", None),
     C("storage-fill", None), C("storage-clean", None),
     C("mem-stress", None), C("mem-stress-clear", None)}
=============================================================================
