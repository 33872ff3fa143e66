CONSTANTS
    t1 = t1  f1 = f1  f2 = f2  c1 = c1  c2 = c2
    Zero = Zero  NoClient = NoClient
    Topics <- MC_Topics
    Funcs <- MC_Funcs
    Clients <- MC_Clients
    MaxPublishes = 3
    MaxLen = 3
    MaxArrays = 3
    MaxCalls = 6
    Ops <- MC_BusOps
SPECIFICATION Spec
PROPERTY AbstractBus
