SPECIFICATION Spec
PROPERTY StoppedWithServer
CHECK_DEADLOCK FALSE
