CONSTANTS
  Byte = 12
  HashSize = 2
  MaxWorlds = 2
  MaxEntries = 3
  MaxPlays = 2
  LoginFrame = 60
  InternalFrame = 80
  WorldFrame = 100
  AnswerFrame = 150
  Logins <- MCLogins
  Worlds <- MCWorlds
  Infos <- MCInfos
  Usernames <- MCUsernames
  Ticket <- MCTicket
  Token <- MCToken
  Salts <- MCSalts
  PublicKeys <- MCPublicKeys
  Hashes <- MCHashes
  Opcodes <- MCOpcodes
  Bodies <- MCBodies
SPECIFICATION Spec
INVARIANTS TypeOK RedirectAnnounced UserIntact ExchangeIntact WorldsIntact EchoIntact
CHECK_DEADLOCK FALSE
