SPECIFICATION AllSpec
CONSTANTS
  Users = {"p", "s"}
  Staff = {"s"}
  Anonymous = "anonymous"
  ClanOwner = "p"
  Scores <- MCScores
  Friends <- MCFriends
  Requests = {1}
  Tasks = {t1, t2}
  MaxGen = 2
  MaxAsks = 1
  MaxOps = 2
  \* Two players and one message.
  ChatUsers = {"a", "b"}
  Moderators = {"a"}
  Readers = {"a", "b"}
  Writers = {"a", "b"}
  MaxRequests = 3
  MaxMsgs = 1
  \* Three members of a clan, one of them restricted and one of the staff.
  ClanUsers = {"a", "b", "c"}
  ClanStaff = {"b"}
  Hidden = {"c"}
  Founded = {"a", "b", "c"}
  Tags = {"x", "y"}
  MaxClans = 2
  MaxCommands = 4
  \* Two names that compete for an e-mail address, two good passwords and a
  \* weak one.
  Names = {"n", "m"}
  Emails = {"e"}
  Passwords = {"p", "q", "w"}
  Strong = {"p", "q"}
  MaxHashes = 3
  MaxTokens = 1
  MaxForms = 4
  \* Two accounts and two Discord accounts, three tokens.
  LinkUsers = {"a", "b"}
  Discords = {"x", "y"}
  States = {1, 2, 3}
  MaxCallbacks = 3
  MaxFaults = 1
SYMMETRY AllSymmetry
INVARIANTS RestrictedStayHidden EntitledAreServed UnwelcomeAreUnheard MembersHaveTheirClan AccountsAreWhole AnswersAreRight LinksAreTheirs
CHECK_DEADLOCK FALSE
