\* One agent, every failure of the disk and of the services around it, a restart.
SPECIFICATION FairSpec
CONSTANTS
  Agent = {a1}
  GrantLife = 2
  MaxRestarts = 2
INVARIANTS Durable
PROPERTIES Lifecycle Forgotten Tended
