SPECIFICATION Spec
CHECK_DEADLOCK FALSE
CONSTANTS
    W = 8
    B = 2
    Devices = {0, 1}
    Ports = {"9090"}
    Refused = {"text"}
    Inexact = {5}
    MatchTypes <- MCMatchTypes
    Impl <- MCImpl
    ConstDefault <- MCConstDefault
    ParamBytes <- MCParamBytes
    Setups <- MCSetups
    NoThread = NoThread
    c1 = c1
    c2 = c2
    t1 = t1
    t2 = t2
INVARIANTS MessagesFaithful  RegistriesAgree AbortsExplained
PROPERTIES CallsReturn
