SPECIFICATION FairSpec
CONSTANTS
  Prefix <- Prefixes3
  Host <- Hosts
  Mapped <- Mappings
  Client = {c1, c2}
  Word <- AllWords
  Line <- Lines
  Bits <- Words
  Addr <- Itr
INVARIANTS
  TypeOK
  InUseIsRouted
PROPERTIES
  ImplementsTwoCaches
  AnswersOwnCommand
  ShowComplete
  EveryoneServed
