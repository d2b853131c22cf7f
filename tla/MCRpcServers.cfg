SPECIFICATION Spec
CONSTANTS
  Servers = {"mountd"}
  Table <- MCTable
  PortBase <- MCPortBase
  Transports = {"udp", "udp6", "tcp", "tcp6"}
  Known = {"udp", "tcp"}
  Clients = {"client"}
  MountClients = {"client", "other"}
  UserProgs = {"user"}
  Exports = {"/data"}
  Paths = {"/data", "/other"}
  DbCapacity = 2
  MaxMap = 3
  MaxCallits = 1
  MaxMounts = 2
  MaxStarts = 2
  MaxFaults = 1
INVARIANTS
  TypeOK
  OneRegistration
  
  StartedIsRegistered
  
  
PROPERTIES
  RegistrationEnds
