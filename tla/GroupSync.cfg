CONSTANTS
    Nodes = {n1, n2, n3}
    Owner = n1
    Admins = {n2}
    Links = {{n1, n2}}
    Ops = {"ban", "address", "set_role", "modify_role", "add_app", "remove_app", "add_server", "remove_server", "rotate"}
    Apps = {a}
    Servers = {v}
    Actors = {n1, n2}
    Targets = {n2}
    MaxOps = 2
    MaxDrops = 2
SPECIFICATION FairSpec
PROPERTIES  MergesKeep
CHECK_DEADLOCK FALSE
