SPECIFICATION Spec
CONSTANTS
  None = None
  ent1 = ent1
  ent2 = ent2
  ent3 = ent3
  new1 = new1
  new2 = new2
  new3 = new3
  new4 = new4
  new5 = new5
  new6 = new6
INVARIANTS TypeOK  BusyIsBacked ReferencesResolve  FormsSendWhatTheyHold FunctionsAreSound
PROPERTIES InputIsKept StepsAreAllowed
CHECK_DEADLOCK FALSE
